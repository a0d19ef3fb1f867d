# A verification project for iaas-controller

iaas-controller is a set of Kubernetes controllers that keep resources of the
Thalassa IaaS API in step with custom resources (CRs).  This directory holds
TLA+ modules that model it, TLC configurations that check them on small
instances, and theorems that TLAPS checks for every instance.

## Inventory

### The parts of the system

| Part | State it keeps | Operations | Talks to |
| --- | --- | --- | --- |
| One controller per kind (`internal/controller/*_controller.go`): VPC, Subnet, NatGateway, RouteTable, RouteTableRoute, SecurityGroup, TargetGroup, Loadbalancer, VpcPeeringConnection, BlockVolume, Snapshot, SnapshotPolicy, TfsInstance | nothing of its own between reconciles; the status and the finalizer of its CRs; during a reconcile, an in-memory copy of the CR | `Reconcile` (find out what is to be done), create, sync/update, adopt by identity, delete, the error helper | API server and informer cache (`r.Get`, `r.Update`, `r.Status().Update`), Thalassa (`IaaSClient.*`) |
| Helpers (`internal/controller/helpers.go`) | - | `SetStandardConditions`, `ReconcileMeta`, `IsSuspended`, `effectiveName`, `effectiveLabels`, `updateStatusWithRetry` | called by every controller |
| controller-runtime (external) | informer cache, work queue, one worker per controller | list and watch, event filter, rate limiting, `RequeueAfter` | starts `Reconcile` |
| API server (external) | the CR: spec, status, finalizers, generation, resourceVersion | create, update, status update, delete; optimistic concurrency | users and controllers |
| Thalassa (external) | resources with identity, status and configuration | Get, Create, Update, Delete, WaitUntil... | controllers; also users directly |
| Client set-up (`internal/iaas/client.go`) | none | choose the credentials | `main` |
| Manager (`cmd/main.go`) | none | flags, leader election, wiring | all controllers |

Every `Reconcile` has the same skeleton: read the CR from the cache; do nothing
if it is gone or suspended; on a deletion timestamp delete the cloud resource
and drop the finalizer; with `spec.resourceId` adopt; otherwise add the
finalizer, resolve references to other CRs, and create (no `status.resourceId`)
or sync (compare and update).  The differences between the kinds are in the
waits, in what NotFound means (report, or clear `resourceId` and create again),
in whether deletion errors go to the queue or to the error helper, and in the
references.

### What is hard about it

- *Reads are stale.*  `r.Get` reads a cache that may miss the controller's own
  last write.  `status.resourceId` is the only memory of what was created.
- *Two systems, no transaction.*  Creating in Thalassa and recording the
  identity are two calls; a crash, a failed write or a lost answer falls between.
- *The status is copied whole* over a freshly read object, so whatever the
  in-memory copy holds wins, over a re-created CR of the same name too.
- *The queue is the retry mechanism.*  What is neither requeued nor returned as
  an error is forgotten, because the event filter drops everything but
  creations and generation changes, and there is no periodic resync.
- *Users act at any time*: edits, deletions, re-creation, suspension, a change
  between adoption and provisioning, while a reconcile is under way.
- *The cloud acts on its own*: asynchronous provisioning and removal, deletion
  and edits by other clients.
- *CRs depend on one another* and each is reconciled by its own worker.

### What makes each part correct

- Every controller: a cloud resource it created is never forgotten; at most one
  exists for a CR; an adopted one is never written; a cloud resource is deleted
  only for a deleted CR; a CR disappears only after its cloud resource; the
  controller rests only when nothing is left to do, and does come to rest; the
  conditions it reports are true of the cloud resource.
- Subnet, NatGateway, Loadbalancer, TargetGroup, RouteTable, RouteTableRoute,
  SecurityGroup, VpcPeeringConnection, TfsInstance: besides, the identity used
  for a parent is that of the parent CR; a child is provisioned once its parent
  is; a missing parent is waited for; a child's deletion does not depend on a
  parent that is already gone.
- RouteTableRoute, TargetGroup, VpcPeeringConnection: re-creation after NotFound
  does not duplicate a resource that still exists.
- BlockVolume, Snapshot, SnapshotPolicy, TfsInstance: a deletion whose call
  fails is tried again.

`PROJECT.json` lists the hazards with their lines and the properties that catch
each of them; the ones without a property say why.

## The modules

```
Conditions      Thalassa                 what is shared by all controllers
      \          /
      KubeRuntime                         CR, cache, queue, worker, users
       /        \
  Reconciler   Dependencies               the shared path; references to other CRs
   |    |  \    /       |
   |    |   DependentReconciler           resolving, creating and deleting with references
   |    |      |      |       \
   |    |  Storage  Network  Recreating   (...Controller: eleven kinds)
   |  SubnetController
  VpcController

every controller  - - -implements- - ->  ManagedResource   (what exists in Thalassa)
every controller  - - -implements- - ->  ReferencedObject  (what the others see of its CR)

MCVpcController, MCSubnetController, MCStorageController,
MCNetworkController, MCRecreatingController   instances for TLC
ReconcilerProofs                         types, leak invariant and lifecycle under the shared actions
ReconcilerRestProofs                     coming to rest, under the shared actions
DependentReconcilerProofs                the same, under the actions with references
VpcControllerProofs, SubnetControllerProofs, StorageControllerProofs,
NetworkControllerProofs, RecreatingControllerProofs   theorems of the five specifications
```

**Conditions** - the status conditions and `SetStandardConditions`.  The CRDs
declare the slice `listType=map`, so it is a function from the five types the
code writes.  A caller passes one fixed message per reason, so the reason stands
for both; the Error condition keeps a message of its own, because
`setVpcErrorCondition` decides by it whether to write and requeue.

**Thalassa** - the cloud, external: `cloud` maps an identity to a phase and a
configuration.  `Exists` is "Get does not answer NotFound".  `unaddressed` is a NAT
gateway that is ready and has no endpoint yet, `pending` and `rejected` are also the
states of a VPC peering.  The configuration
`cfg` stands for everything Create and Update send and `requiresUpdate` compares
(name, labels, description, CIDRs).  An update may or may not take the resource
back to pending.

**KubeRuntime** - what `SetupWithManager` and `updateStatusWithRetry` rely on.

| Variable | Stands for |
| --- | --- |
| `api` | the CR in the API server (`uid`, generation, deletion timestamp, finalizer, annotation, spec, status) |
| `cache`, `unseen` | the CR in the informer cache; whether the controller's own last write is still missing from it |
| `queue` | the CR's entry in the work queue: `empty`, `waiting` (due later) or `ready`.  A priority queue keeps one entry per key, so three values suffice |
| `pc`, `mem`, `fresh` | where the worker is, its copy of the CR, and whether that copy's resourceVersion is still current |
| `budget` | how many edits, annotation changes, faults, crashes and out-of-band changes are left |

`PersistStatus` is one successful `updateStatusWithRetry`: `Get` from the cache,
copy the status, `Status().Update`.  The API server refuses a stale
resourceVersion, so it succeeds only when the cache is current; it does not look
at the uid, so it may write over a CR created again.  `GiveUp` is five failed
attempts.  `UpdateObject` is `r.Update` of the object read at the start, refused
once that is out of date.  `CacheSync` is a watch event through the event filter.

**Reconciler** - the way through a reconcile that the controllers share.  The
code spells it out once per kind, the same statements around other types; the
module takes them from `vpc_controller.go`, and a kind uses an action when its own
file does the same.  Every call that leaves the process is a step; the statements
between two calls belong to the step before them.  `pc` is the call that comes
next.  `fetched` is what Get answered, for the comparison after a status write;
`lost` is a history variable: identities that were created and never recorded.

| Actions | Code |
| --- | --- |
| `ReconcileAnyKind` (`ReconcileNothing`, `ReconcileDelete`, `ReconcileExternalReference`, `ReconcileInvalidSpec`, `ReconcileNoFinalizer`, `AddFinalizer`) | `Reconcile` up to what differs, one action per way through it |
| `CreateOrSync` | the branch on `status.resourceId` |
| `Create(cfg)` (`WriteCreating` ... `WriteCreated`) | `createVpc`, `createSubnet` |
| `Sync(needsUpdate, needsUpdateOnceWritten, cfg)` (`GetResource` ... `WriteSynced`) | `reconcileVPC`, `reconcileSubnet`; the first two arguments are `requiresUpdate` before and after the status write that may precede it, `cfg` is what Create or Update is sent |
| `Adopt` | `reconcile...ExternalReference` |
| `Delete` | `reconcileDelete` |
| `ReportError`, `DequeueReporting`, `WriteError` | `set...ErrorCondition` |
| `StatusWriteFails`, `...Fails`, `UpdateError`, `RefetchError` | the error returns; what is done with the last two is the kind's |
| `Crash`, `Watch`, `Timer`, `Users`, `Cloud` | the environment |

A `...Fails` action with a choice over the budget is a call that either must fail
(NotFound, conflict) or fails for reasons of its own (a fault).
`CreateResourceFails` has two outcomes, because an error does not say whether the
resource was created.

**VpcController** - `vpc_controller.go`: what is sent, `requiresUpdate`, errors of
the update returned as they are, the wait between the update and the second Get.

**Dependencies** - the objects a CR refers to and `resolveVPCRef`,
`resolveVolumeRef` and their copies: a reference is an identity, which is taken as
it is, or a name, which is looked up in the cache.

| Variable, action | Stands for |
| --- | --- |
| `refs` | the objects in the cache: not there, without an identity, or the identity in `status.resourceId` |
| `recorded` | history: identities these objects have recorded; Thalassa uses none twice |
| `RefRecorded` | the object's own controller writes its identity |
| `RefCreated`, `RefGone` | users create the object, or delete it and it is gone |
| `Live` | Thalassa still has what a request names; it refuses the others |

**SubnetController** - `subnet_controller.go`: the resolution of `spec.vpcRef`, no
wait after the update, errors of the update through the error helper.

| Variable, action | Stands for |
| --- | --- |
| `vpcIdentity` | the argument of `reconcileSubnet` and `createSubnet`, while it is still needed |
| `ReconcileVpcNotReady`, `ReconcileVpcNotFound`, `ReconcileSubnet` | the three outcomes of `resolveVPCRef` in `Reconcile` |
| `CreateSubnetRefused` | the VPC is gone by the time `CreateSubnet` runs |

A subnet's `cfg` is a record of VPC, CIDR and the editable rest (name, labels,
description), because `UpdateSubnet` sends and `requiresUpdate` compares only the
last.

**DependentReconciler** - what the eleven kinds share that only provision and have
references.  The variable `kind` says which of them an instance is; it is chosen in
`Init` and never changes, so that one run checks several.

| Variable, action | Stands for |
| --- | --- |
| `spec.parents`, `spec.members` | the references the spec has one each of, and the one it has a list of; `ParentReasons` and `MemberReasons` are the reasons their resolution reports |
| `resolved` | the identities they stood for, from `Reconcile` to the last call that sends them |
| `ReconcileNotReady`, `ReconcileNotFound` | the first reference without an identity decides, in the order of `InOrder` |
| `KeepRefs`, `ForgetRefs` | the arguments of `create...` and `reconcile...` |
| `CreateAndWait`, `AwaitCreated`, `GetCreated` | create, wait, Get again |
| `CreateReady` | the kinds without a status of their own |
| `DeleteAccepted`, `DeleteAtOnce`, `DeleteError` | the call of `reconcileDelete`, with a wait after it or without |
| `Owners`, `RefUsers` | the objects referred to |

**StorageController** - `blockvolume_controller.go`, `snapshot_controller.go`,
`snapshotpolicy_controller.go`, `tfsinstance_controller.go`.  A second Get follows
the creation, a successful sync clears `lastReconcileError`, and a refused deletion
goes to the error helper like any other error but that of a wait.

| | BlockVolume | Snapshot | SnapshotPolicy | TfsInstance |
| --- | --- | --- | --- | --- |
| references sent once (`parents`) | - | volume | - | VPC, subnet |
| references sent by every update (`members`) | - | - | volumes | security groups |
| asked first | the volume types, before a creation | - | - | the VPC's region, if the spec names none |
| after Create, after Delete | waits | waits | waits for nothing | waits |
| delete protection | yes | yes | no | yes |

**NetworkController** - `securitygroup_controller.go`, `routetable_controller.go`,
`natgateway_controller.go`, `loadbalancer_controller.go`.  What Get answered is kept
in `fetched` until the update is sent.  A success leaves the last error, and a failed
deletion goes back to the queue.

| | SecurityGroup | RouteTable | NatGateway | Loadbalancer |
| --- | --- | --- | --- | --- |
| references sent once | VPC | VPC | subnet | target group of a listener, looked up for the creation only |
| references an update sends | - | - | security groups | security groups; the subnet if it differs |
| after Create | nothing | nothing | waits for the endpoint, Get | waits, Get |
| in a sync | the update names the version Get answered | no status of its own, no second Get | waits if ready without an endpoint, and goes on with what was fetched before | - |
| after Delete | nothing | nothing | waits | waits |

**RecreatingController** - `targetgroup_controller.go`,
`routetableroute_controller.go`, `vpcpeeringconnection_controller.go`.  NotFound
clears `status.resourceId` (`Forget`, `WriteForgotten`) and a later reconcile creates
the resource again.

| | TargetGroup | RouteTableRoute | VpcPeeringConnection |
| --- | --- | --- | --- |
| references | VPC | route table; target gateway (`members`, at most one) | requester VPC |
| a sync is | Get, update always, attachments (`members`) unless there are none | update always, without Get | Get, the answer (`accept`, `reject`) while pending, else rename if needed |
| NotFound comes from | Get | the update; it may be about the table | Get |
| a deletion | Delete | Delete in the table the spec names now; nothing without one | Delete |

Assumptions about Thalassa made in these modules, since `src/` does not show its
side: it refuses to delete a resource whose configuration has delete protection; it
refuses a request that names something it does not have; it gives each resource the
next identity and uses none twice; a resource of the kinds whose deletion is not
waited for is gone once the deletion is accepted; a route is found only through its
table and goes with it; a security group's version changes exactly when its
configuration does; a peering may be accepted at once or later by the other side, or
rejected, or never answered.  A volume type that is in no list is sent as it is; the
model does not tell this request from another.

**How the controllers compose.**  Each is checked against `Dependencies`, which
describes the objects of the others by what a lookup sees: no object, an object
without an identity, an identity.  What `Dependencies` lets these objects do is the
next-state relation of **ReferencedObject** (with `Forget` for the names in
`Recreated`), and every run checks, and a theorem proves, of its own controller that it
implements it: `ImplementsReference`, or `ImplementsRecreatedReference` for the three
kinds that may take an identity back.  So what is shown of one controller, given any
objects of that sort, holds beside all the other ones.

**ManagedResource** - what any controller promises, in three variables: a CR, its
one resource (`none`, `unrecorded`, `recorded`) and the strays.  All the reconcilers
implement it under the mapping at `Lifecycle` in `Reconciler` (`Stage`, `Holding`,
`Strays`).  A step may remove several strays at once, since a table that goes takes its
routes with it.

Definitions whose comment begins with "Mutant" are not part of the
specification; each is a plausible mistake in the definition that follows it and
shows that a property notices (see "mutants" in `PROJECT.json`).

## The checks

| Run | Expected | Shows |
| --- | --- | --- |
| `vpc_safety` | passes | `NoLeak`, `OnePerCR`, `LifecycleInv`: no VPC is forgotten or made twice, with edits, suspension, a fault, a crash and a change in Thalassa; `ExternalUntouched`, `DeletesOnlyForDeletedCR`; both refinements |
| `vpc_live` | passes | `RestsInSync`: with a provisioned VPC, idle means done unless a change in Thalassa undid it; `Settles`, `DeletionCompletes`, for adopted VPCs as well |
| `subnet` | passes | the same with VPC objects that get an identity, are deleted and re-created, and edits of `vpcRef`; `WaitEnds`: a Subnet that waits for its VPC is created once the VPC has its identity |
| `storage` | passes | the four kinds with references that come and go and delete protection; `ErrorClearedOnSuccess`; with two failed calls, `LeftTerminatingIsReported`: a CR left terminating says `DeleteFailed` |
| `network` | passes | the four kinds, with an edit that moves or renames them and two of a fault, a crash and a change in Thalassa: `RestsInSync` (references included), `Settles`, both refinements |
| `recreating` | passes | the three kinds, with tables that take their routes with them and target gateways that are created again: `ForgottenIsRecreated`, `RestsInSync`, `DeletionCompletes`, `RecreatingInv`, and the refinement of `RecreatedSpec` |

The following refute what the documentation says; each is a finding in
`PROJECT.json`, with the quotation.

| Run | Refutes | How |
| --- | --- | --- |
| `vpc_crash_leaks` | `DeletingRemoves` | crash between `CreateVpc` and the write of its identity |
| `vpc_stale_cache` | `OnePerCR` | a reconcile that starts before the cache shows the identity |
| `vpc_mode_switch` | `ExternalUntouched` | `spec.resourceId` removed; the adopted VPC counts as created |
| `subnet_vpc_not_found` | `RequeuesUntilVpcReady` | the VPC object does not exist yet: the second `VPCNotFound` is not requeued |
| `route_moved` | `DeletingRemovesRoute` | `routeTableRef` edited, then the CR deleted: the route stays in its old table |
| `peering_accept` | `PendingIsAccepted` | created pending with `accept`: nothing starts the reconcile that would accept it |

Two constants name what the passing runs take for granted, and two of the runs
above show what happens without it.  `StableMode`: users never move a CR's name
between provisioned and adopted.  `ReadOwnWrites`: a reconcile starts only from
a cache that shows the controller's own last write; a watch normally delivers
faster than the next event comes, but nothing in the code waits for it.

Other things the code does that a user may not expect, read while modelling and
without a run of their own:

- Edits and deletions made while a CR is suspended are not acted on when the
  annotation is removed (`vpc_controller.go:323`); `RestsInSync` leaves a suspended
  CR out.
- Clearing `deleteProtection` of a CR that is already being deleted is never sent, and
  the second `DeleteFailed` is not requeued (`blockvolume_controller.go:224`).  The same
  holds of any deletion that fails twice in the same way: the CR stays terminating until
  the next edit or restart, although `docs/overview.md:3` says that deleting it removes
  the resource, subject to protection only.  What the code does keep is
  `LeftTerminatingIsReported`.
- When `spec.resourceId` of an adopting CR is edited to another resource in the same
  state, `status.resourceId` keeps naming the first one: the reconcile sets it in memory
  and writes the status only when `resourceStatus` or `Ready` changes
  (`vpc_controller.go:239-250`, `subnet_controller.go:233-247`).  The model does what the
  code does; `ImplementsReference` and `WrittenOnce` are about provisioned objects and
  count an adopting CR as one that shows no identity (`Shown`).
- `lastReconcileError` outlives the success that follows in VPC, Subnet and the four
  network kinds, against `docs/overview.md:26`; `ErrorClearedOnSuccess` is checked of
  the storage kinds, which clear it.
- A NAT gateway found ready without an endpoint is waited for, but the endpoint is not
  recorded by that reconcile (`natgateway_controller.go:188-206`).
- Load balancer listeners are never compared; a target group's attachments are never
  emptied, and an error setting them is only logged; a target group's update leaves
  out the health check defaults its creation sends; a peering that is answered is not
  renamed by the same reconcile.  `InSync` of each module says what is compared.

### Bounds

A VPC instance has three identities to hand out (`vpc_live` four), one VPC to adopt
and two configurations; `MCVpcController` gives the specs: two valid ones, an
incomplete one, and a reference.  Three identities are enough for one lost, one
recorded and one that should not exist; two configurations for "differs".

A Subnet instance has one VPC object, two identities it may come to have (one for
each of its lives), one VPC that is always there and is named by identity, and two
values of the editable rest.  The other runs have specs that refer by name or by
identity, move the resource or only rename it.  In `storage` and `network` all
references by name are to one object, next to one reference by identity, so that the
first of several is ready and the second not, or the reverse; in `recreating` the
table and the target gateway are two objects, and the gateway's identity may be
replaced, so three identities.  `MaxRefs` bounds a list of references, in the code as
long as the user makes it; 2 is a first that is ready and a second that is not.

`MaxEdits` counts edits, deletions and creations together, those of the objects
referred to as well: 2 is an edit and a deletion, or a deletion and a re-creation,
during one reconcile.  The runs of several kinds have 1, besides initial states in
which the objects exist or not.  `MaxFaults`, `MaxCrashes` and `MaxDrifts` (a change
in Thalassa that does not go through the cluster) are 1 each, anywhere between any two
steps, but for two failed calls in `storage`, where a deletion may fail twice;
`MaxMishaps` bounds the three together, to 2 where two of them may meet in one behaviour
(`vpc_safety`, `vpc_live`, `storage`, `network`), to 1 where the references already
multiply the states (`subnet`; `recreating`, where an edit but no crash or failed call
may follow what somebody else deletes).

With two faults of the same sort, the error helper finds its condition unchanged and
requeues nothing, which leaves the CR as it is for good: `RestsInSync` and
`ErrorClearedOnSuccess` therefore speak of behaviours in which one call at most has
failed (`OneFault`), whatever `MaxFaults` is.  `subnet_vpc_not_found` shows the same with
an object that is not there and no fault at all; every helper named
`set...ErrorCondition` has the same last lines.  `RefsKept` and `VpcReportedMissing`
leave that case out of `RestsInSync`.  A peering meets it with a
single fault, when two edits surround the answer the other side gave first: the worker
accepts in vain, finds the error it reported before, and leaves `observedGeneration`
behind (`AnswerRefused`).

No run uses a symmetry set: identities are handed out in one order (`CloudCreateIn`),
which has the same effect and is sound for liveness too.  Deadlock
is not checked: once the budgets are spent and the controller rests, the system has
rightly stopped.

### Fairness

`FairSpec` has weak fairness for `Worker` (the goroutine runs; a call returns or
its context ends), `Watch` (the watch delivers), `Timer` (delays are
finite: 1 to 30 seconds) and `Cloud` (Thalassa finishes what it
started; without it the unbounded `WaitUntil...` never return).  A NAT gateway that
is provisioned gets its endpoint (`Provisioning`).  `RecreatingController` needs no
fairness of `Cloud`: nothing there waits for Thalassa, and the other side of a peering
owes no answer.  Users, faults, crashes and drift get none and are bounded: the
liveness properties say what happens after they stop.  `TimerFires` waits for
`~unseen`: the shortest delay is a second, far more than a watch takes; events are
not held back this way.

The controllers of the objects referred to (`Owners`) are as fair as this one: they
run under the same manager, and what is assumed of them is what the runs above check
of each kind.  Users who create an object get no fairness.

## The proofs

All for every value of the constants: any sets of identities, configurations, specs,
texts and names, lists of references of any length, any set of kinds of the module, and
any bounds on edits, faults, crashes and changes in Thalassa.

| Theorem | Statement | proved of |
| --- | --- | --- |
| `TypeCorrect` | `Spec => []TypeOK` | all five modules |
| `LeakInvariant` | `Modes => (Spec => []LeakInv)` | Vpc, Subnet, Storage, Network |
| `RoutesInvariant` | `NotMoved => (Spec => [](RefsDistinct /\ RoutesInTable))` | Recreating |
| `RecreatingInvariant` | `Modes /\ NotMoved => (Spec => []RecreatingInv)` | Recreating |
| `NeverForgotten` | `Modes => (Spec => []NoLeak)` | Vpc |
| `NeverTwo` | `Modes => (Spec => []OnePerCR)` | all five (Recreating: and `NotMoved`) |
| `AdoptedUntouched` | `Modes => (Spec => ExternalUntouched)` | Vpc |
| `DeletesOnRequest` | `Modes => (Spec => DeletesOnlyForDeletedCR)` | Vpc |
| `LifecycleInvariant` | `Modes => (Spec => []LifecycleInv)` | Vpc, Subnet, Storage, Network |
| `Lifecycles` | `Modes => (Spec => ImplementsLifecycle)` | all five (Recreating: and `NotMoved`) |
| `WrittenOnce` | `Modes => (Spec => ImplementsReference)` | Vpc, Subnet, Storage, Network |
| `WrittenAgain` | `Modes /\ NotMoved => (Spec => ImplementsRecreatedReference)` | Recreating |
| `RestInvariant` | `Modes => (Spec => []RestInv)` | Vpc; Subnet, Storage, Network (and `RefsAnchored`) |
| `RestsWhenDone` | `Modes => (Spec => [](NeverSuspended => RestsInSync))` | Vpc; Subnet, Storage, Network (and `RefsAnchored`) |
| `ErrorsCleared` | `Modes /\ RefsAnchored => (Spec => [](NeverSuspended /\ Undrifted => ErrorClearedOnSuccess))` | Storage |

`Modes` is `StableMode /\ ReadOwnWrites`; the runs `vpc_mode_switch` and
`vpc_stale_cache` show that neither can be dropped.  `NotMoved` says that, where routes
are among the kinds, no edit moves one to another table (`OneTable`: all specs name the
same one, which may go, come back and be a different table under the same name); the run
`route_moved` shows that it cannot be dropped.  The other assumptions are the named
`ASSUME`s of the modules, which TLC evaluates in every run.

**Types.**  `TypeOK` says more than the range of the variables: at which program points
the arguments of create and update are held (`vpcIdentity`, `resolved`), that they are
identities there, never empty, and that `fetched` is an answer where one is compared.
`ReconcilerProofs` proves it of the shared actions and `DependentReconcilerProofs` of those
with references, from lemmas on the operators the model is built from: what
`SetStandardConditions` and the status functions return, and that resolving a list in
which nothing is unresolved gives a list of identities as long (`ResolveFacts`).

**Nothing is forgotten.**  `NoLeak` is not inductive: whether a step forgets a VPC depends
on what the worker believes.  `LeakInv` adds three things.  `WellFormed`: in any version of
the CR, our finalizer comes with a created identity or none, an adopted CR
never has it.  `CacheAgrees`: a cache that shows the controller's last write
agrees with the API server on finalizer and identity, which only the controller
writes.  `WorkerAgrees`: the worker's copy agrees with the API server on the
same, at each program point as far as that point needs it (where an identity is
about to be recorded none is recorded; where the finalizer is about to be
removed the VPC is gone).  `ReconcilerProofs` proves each part for the shared
actions, one lemma for each way the runtime changes the state and one for each group of
actions, whatever configuration is sent.  `OnePerCR` follows from `NoLeak`: what is recorded
and what is in flight is one identity, since an identity is in flight only when none is
recorded.

**The kinds.**  The modules of the eleven dependent kinds have many actions that do the same
to what the invariant reads.  `DependentReconcilerProofs` therefore names the ways a step
may change it: begin a reconcile, stay at an identity, a status write that
keeps the identity, a deletion that was accepted, and so on.  Each such way is shown to
keep the invariant, and the proof of a kind then has one case per action that says
which way it goes.  The refinement of `ManagedResource` is proved the same way: `Effect`
lists what a step may do to the resource, its record and the CR (something is removed in
Thalassa, the status is written, a resource is created or lost, the finalizer comes or
goes, users act), and each disjunct is a step or a stutter of it under the mapping (`Stage`, `Holding`, `Strays`).  For that, `LifecycleInv` adds `HandedOut` to
`LeakInv`: an identity whose creation was never recorded has been created, so Thalassa
does not give it to a later one, and a stray does not become the CR's resource again.

**Re-creation.**  Clearing the identity after NotFound forgets the resource unless NotFound is
about the resource.  For a route it may be about the table the worker has looked up, so
`LeakInv` alone is not preserved by `UpdateForgotten`; `RoutesInTable` says that a route
there is lies in the table the CR names, which has an identity and exists, and that while
the worker holds another table (`resolved`), that one is gone for good and there is no
route.  It holds although tables go
and are made again, because a table that goes takes its routes with it (`TableGone`),
and because no two objects show one identity at a time (`RefsDistinct`).  The deletion that
drops the finalizer when the table cannot be resolved rests on the same: without a table
there is no route.  `RecreatingInv` is the conjunction.  All of it was
checked by TLC (`vpc_safety`, `recreating`) before it was proved.

**At rest only in sync.**  `RestsInSync` is about the event that is not there: the queue is
empty and nothing will make the controller look at the CR again.  The property
has one hypothesis on failures and the theorem one on users, and the code needs both.
`OneFault`: at most one call has failed so far.  Two
failures of the same sort in a row leave the Error condition unchanged and requeue nothing
(the hazard at `vpc_controller.go:344`), and the controller then rests out of sync.
`NeverSuspended`: taking the suspend annotation away makes no new generation, so the event
filter drops it and a CR suspended halfway stays so.  For the kinds with references
`RefsAnchored` is assumed as well: a spec that names another resource by identity names
one Thalassa has; a request refused for another reason than a fault would be retried and
fail alike.

`RestInv` is the inductive invariant, by what could go wrong.  The cache and the worker may
lag behind, but never show a spec under a generation that is not its own (`Earlier`), and a
worker that has fallen behind the cache has an event queued for it (`WorkerVersion`): that
is why no edit is lost.  While nobody touches Thalassa, nothing the CR records
disappears except by its own deletion, so no call answers NotFound (`Kept`).  From
the call that applies the spec on, the configuration in Thalassa is the one of the worker's
spec (`Applied`), across waits, refetches and status writes.  And before the first failure
the Error condition is none that a failure would write again (`ErrorsAmong`), so that failure
requeues.  The last conjunct, `RestsDone`, then says that a CR nothing will make the
controller look at again is in sync, or has reported a reference to what is not there.
`ReconcilerRestProofs` has one lemma per way a step may end: it keeps the queue filled, it
finishes a reconcile with everything applied, or it reports an error not reported before.

For the kinds with lists of references, `RestInv` also follows each list from the lookup to
the request.  What a lookup answered stays what the spec's references stand for as long as no
object loses an identity it had (`NotLost`), and then no request is refused for them
(`RefsHeld`), so that what is applied is the list the objects show when the controller rests
(`Matching`).  A network kind compares with what Get answered before its waits and status
writes: `FetchedNow` says that it is still true when the update goes out, and `Placed` that a
load balancer always has the subnet that `InSync` compares.  A storage kind has a third way to
rest, the deletion of what Thalassa protects, and its refusal is not a fault: as long as no
call has failed, only such a deletion is refused (`RefusedProtected`), the resource stays
(`ProtectedStands`), and the worker does nothing but ask again, so that the refusal does not
hide a later failure.  And the last status write of a creation or a sync clears the error
(`Cleared`); whatever the controller leaves in sync therefore has none, which is
`ErrorsCleared`.

**Only model-checked.**  `Settles`, `DeletionCompletes`, `WaitEnds` and
`ForgottenIsRecreated` are liveness properties, which are out of the prover's reach.
`LeftTerminatingIsReported` is checked with two failed calls and has no proof:
`RestInv` says too little of what follows the first.  `RestsInSync` of the re-creating kinds is model-checked (`recreating`), under bounds
that keep to the hypotheses above.

## What is not modelled, and the plan

Abstracted on purpose: wording of messages and events, timestamps and lengths of
delays, the rate limiter's back-off, names, labels, CIDRs, rules, schedules and regions
one by one (`cfg`, `meta`: every one of them is compared and sent together with the
others), the order in which Thalassa answers lists, other annotations and finalizers, a
nil `IaaSClient` (the manager always sets it or exits), user edits of the status or the
finalizer.

Not modelled: the choice of credentials in `internal/iaas/client.go` and the flags and
wiring of `cmd/main.go`, which run once and keep no state; two replicas without leader
election, which is off by default together with one replica; the chart and the CRDs,
which have no behaviour of their own.  Several CRs of one kind share a worker and
nothing else, so one of them is modelled at a time.

Left of the plan, all of it proof: `RestsInSync` of the re-creating kinds, whose own steps do
not have the shape `Applied` of the shared ones and need invariant parts of their own: what
the worker has already brought about in Thalassa, at every place between the request and the
last write, and that its copy of a peering knows the error the API server holds;
`LeftTerminatingIsReported`; `ExternalUntouched` and `DeletesOnlyForDeletedCR` for the kinds
other than VPC.
