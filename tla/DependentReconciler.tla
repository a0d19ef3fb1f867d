-------------------------- MODULE DependentReconciler --------------------------
(***************************************************************************)
(* What the kinds that only provision and that refer to other custom       *)
(* resources share beyond Reconciler: the references are resolved after    *)
(* the finalizer is there, in an order and with reasons of their own, and  *)
(* what they stood for is sent with the calls that follow, even when the   *)
(* objects have changed since.                                             *)
(*                                                                         *)
(* kind says which of them this one is; it never changes.  The modules of  *)
(* the kinds are StorageController, NetworkController and                  *)
(* RecreatingController.                                                   *)
(***************************************************************************)
EXTENDS Reconciler, Dependencies, SequencesExt

CONSTANTS
    Kinds,      \* the kinds looked at
    Metas,      \* all that Update sends besides references: name, rules, size, ...
    Protected,  \* those of them with deleteProtection
    Recreated,  \* names whose controller forgets an identity Thalassa has not
    MaxRefs     \* bound of a list of references

\* The references a spec has one each of, by the reason that reports a missing
\* one, in the order of spec.parents.
ParentReasons == [
    BlockVolume          |-> <<>>,
    Snapshot             |-> <<"VolumeNotFound">>,
    SnapshotPolicy       |-> <<>>,
    TfsInstance          |-> <<"VPCNotFound", "SubnetNotFound">>,
    SecurityGroup        |-> <<"VPCNotFound">>,
    RouteTable           |-> <<"VPCNotFound">>,
    NatGateway           |-> <<"SubnetNotFound">>,
    Loadbalancer         |-> <<"SubnetNotFound", "TargetGroupNotFound">>,
    TargetGroup          |-> <<"VPCNotFound">>,
    RouteTableRoute      |-> <<"RouteTableNotFound">>,
    VpcPeeringConnection |-> <<"RequesterVPCNotFound">>]

\* The same for the references a spec has a list of.
MemberReasons == [
    SnapshotPolicy  |-> "VolumeNotFound",
    TfsInstance     |-> "SecurityGroupNotFound",
    NatGateway      |-> "SecurityGroupNotFound",
    Loadbalancer    |-> "SecurityGroupNotFound",
    RouteTableRoute |-> "TargetGatewayNotFound"]

ASSUME KindsAssumption == Kinds \subseteq DOMAIN ParentReasons

\* members is a list of references, or a target group's attachments.
ASSUME DependentAssumption ==
    /\ Protected \subseteq Metas /\ Recreated \subseteq Names
    /\ MaxRefs \in Nat /\ MaxRefs >= 2
    /\ \A s \in Specs :
        /\ s.ref = NoId /\ s.valid
        /\ s.parents \in Seq(Names \cup RefIds) /\ Len(s.parents) = 2
        /\ s.members \in SeqOf(Names \cup RefIds, MaxRefs)
        /\ s.meta \in Metas
    /\ Cfgs = [parents : SeqOf(RefIds, MaxRefs), members : SeqOf(Names \cup RefIds, MaxRefs),
               meta : Metas]

ASSUME DependentReasonsAssumption ==
    {"VolumeNotFound", "VPCNotFound", "SubnetNotFound", "SecurityGroupNotFound",
     "TargetGroupNotFound", "RouteTableNotFound", "TargetGatewayNotFound",
     "RequesterVPCNotFound", "GetFailed after create", "GetFailed after update"} \cup Names
        \subseteq Texts

VARIABLES
    kind,       \* the kind of the resource
    resolved    \* the identities its references stood for, while still needed

vars == <<runtimeVars, resourceVars, dependencyVars, kind, resolved>>

\* Program points at which the references' identities are still needed; the
\* deletion of a route names its table.
NeedRefs == {"getRegion", "writeCreating", "listVolumeTypes", "create", "get",
             "waitEndpoint", "writeResourceStatus", "writeUpdating", "update"}
            \cup IF kind = "RouteTableRoute" THEN {"delete"} ELSE {}

NoRefs == [parents |-> <<>>, members |-> <<>>]

\* A load balancer's second parent is its listener's target group, looked up
\* only before the creation.
ParentRefs(obj) ==
    SubSeq(obj.spec.parents, 1,
           IF kind = "Loadbalancer" /\ obj.status.id # NoId THEN 1
           ELSE Len(ParentReasons[kind]))

MemberRefs(spec) == IF kind \in DOMAIN MemberReasons THEN spec.members ELSE <<>>

DependentTypeOK ==
    /\ ReconcilerTypeOK
    /\ RefsTypeOK
    /\ kind \in Kinds
    /\ resolved \in [parents : SeqOf(RefIds, MaxRefs), members : SeqOf(RefIds, MaxRefs)]
    /\ IF pc \in NeedRefs THEN ParentReasons[kind] # <<>> => resolved.parents # <<>>
       ELSE resolved = NoRefs

DependentInit ==
    /\ ReconcilerInit
    /\ RefsInit
    /\ kind \in Kinds
    /\ resolved = NoRefs

-----------------------------------------------------------------------------
(* Reconcile, after the finalizer: the references, in order.               *)

Resolve(list) == [k \in DOMAIN list |-> ResolveRef(list[k])]

\* The order they are looked up in.
InOrder(parents, members) ==
    IF kind = "Loadbalancer" THEN <<parents[1]>> \o members \o Tail(parents)
    ELSE parents \o members

AllRefs(obj) == InOrder(ParentRefs(obj), MemberRefs(obj.spec))

NotFoundReason(obj, k) ==
    InOrder(SubSeq(ParentReasons[kind], 1, Len(ParentRefs(obj))),
            [m \in DOMAIN MemberRefs(obj.spec) |-> MemberReasons[kind]])[k]

AllResolved(obj) ==
    \A ref \in Range(ParentRefs(obj)) \cup Range(MemberRefs(obj.spec)) : ResolveRef(ref) \in RefIds

\* The first reference without an identity decides: where it is, if answer is
\* what it stands for.
FirstUnresolved(obj, answer) ==
    {k \in DOMAIN AllRefs(obj) :
        /\ ResolveRef(AllRefs(obj)[k]) = answer
        /\ \A l \in 1 .. k - 1 : ResolveRef(AllRefs(obj)[l]) \in RefIds}

\* Mutant: the error is returned as no error and no requeue.
ReconcileNotReadyDropped ==
    /\ Provisions
    /\ FirstUnresolved(cache, NoId) # {}
    /\ DequeueIgnored
    /\ UNCHANGED resourceVars

ReconcileNotReady ==
    /\ Provisions
    /\ FirstUnresolved(cache, NoId) # {}
    /\ DequeueAgain
    /\ UNCHANGED resourceVars

ReconcileNotFound ==
    /\ Provisions
    /\ \E k \in FirstUnresolved(cache, Missing) :
           DequeueReporting(NotFoundReason(cache, k), AllRefs(cache)[k])
    /\ UNCHANGED resourceVars

KeepRefs == resolved' = [parents |-> Resolve(ParentRefs(cache)),
                         members |-> Resolve(MemberRefs(cache.spec))]

\* What every other step does to the identities.
ForgetRefs == resolved' = IF pc' \in NeedRefs THEN resolved ELSE NoRefs

\* What differs between no two kinds, up to the first call.
ReconcileAnyDependent ==
    \/ ReconcileNothing \/ ReconcileNoFinalizer \/ AddFinalizer
    \/ ReconcileNotReady \/ ReconcileNotFound

-----------------------------------------------------------------------------
(* Creation.                                                               *)

\* What the request says of the spec and its references.
Sent == [parents |-> resolved.parents, members |-> resolved.members, meta |-> mem.spec.meta]

AllLive(ids) == \A k \in DOMAIN ids : Live(ids[k])

\* Thalassa has not, or has no longer, what a request refers to.
Refused == ~AllLive(resolved.parents) \/ ~AllLive(resolved.members)

CreateRefused ==
    /\ pc = "create"
    /\ Refused
    /\ \E e \in Errors : ReportError(mem, "FailedCreate", e, e)
    /\ UNCHANGED <<objectVars, budget, cloud, lost>>

\* The kinds without a status of their own are "ready" once they are created.
CreateReady(cfg) ==
    \E i \in OwnIds :
        /\ Step("create", "writeResourceId",
                [mem EXCEPT !.status.id = i, !.status.res = "ready", !.status.err = NoError])
        /\ CloudCreateIn(i, cfg, "ready")
        /\ UNCHANGED <<objectVars, fresh, budget, fetched, lost>>

\* Nothing to wait for: the next write reports the resource available.
WriteResourceIdAvailable ==
    /\ PersistAndGo("writeResourceId", "writeCreated", SetAvailable(mem, "Created"))
    /\ UNCHANGED resourceVars

AwaitCreated ==
    /\ Step("waitCreated", "getCreated", mem)
    /\ cloud[mem.status.id].phase = "ready"
    /\ UNCHANGED <<objectVars, fresh, budget, resourceVars>>

GetCreated ==
    /\ Step("getCreated", "writeCreated",
            [SetAvailable(mem, "Created") EXCEPT !.status.res = cloud[mem.status.id].phase,
                                                 !.status.err = NoError])
    /\ Exists(mem.status.id)
    /\ UNCHANGED <<objectVars, fresh, budget, resourceVars>>

GetCreatedFails ==
    /\ pc = "getCreated"
    /\ \/ ~Exists(mem.status.id) /\ UNCHANGED budget
       \/ Spend("faults")
    /\ \E e \in Errors : ReportError(mem, "GetFailed", "GetFailed after create", e)
    /\ UNCHANGED <<objectVars, cloud, lost>>

\* The kinds that wait until what they created is ready.
CreateAndWait ==
    \/ ~Refused /\ (CreateResource(Sent) \/ CreateResourceFails(Sent))
    \/ CreateRefused
    \/ WriteResourceId \/ AwaitCreated \/ WaitCreatedFails
    \/ GetCreated \/ GetCreatedFails \/ WriteCreated

-----------------------------------------------------------------------------
(* Syncing and deletion.                                                   *)

RefetchReportsError ==
    /\ RefetchError
    /\ \E e \in Errors : ReportError(mem, "GetFailed", "GetFailed after update", e)
    /\ UNCHANGED <<objectVars, cloud, lost>>

\* The kinds with a deleteProtection.
Protectable == {"BlockVolume", "Snapshot", "TfsInstance", "Loadbalancer"}

IsProtected(id) ==
    kind \in Protectable /\ Exists(id) /\ cloud[id].cfg.meta \in Protected

DeleteAccepted ==
    /\ ~IsProtected(mem.status.id)
    /\ DeleteResource

\* Thalassa refuses the call, or it fails.
DeleteError ==
    /\ pc = "delete"
    /\ \/ IsProtected(mem.status.id) /\ UNCHANGED budget
       \/ Spend("faults")

\* The code waits for nothing: a resource is taken to be gone once Thalassa has
\* accepted its deletion.
DeleteAtOnce ==
    LET id == mem.status.id
    IN  /\ Step("delete", "removeFinalizer", mem)
        /\ cloud' = [cloud EXCEPT ![id].phase = IF Exists(id) THEN "gone" ELSE @]
        /\ UNCHANGED <<objectVars, fresh, budget, fetched, lost>>

-----------------------------------------------------------------------------
(* What goes on around the worker.                                         *)

Owners == \E n \in Names :
    RefRecorded(n) /\ UNCHANGED <<objectVars, workerVars, resourceVars, kind, resolved>>

RefUsers == \E n \in Names :
    /\ RefCreated(n) \/ RefGone(n) \/ (n \in Recreated /\ RefForgotten(n))
    /\ UNCHANGED <<objectVars, workerVars, resourceVars, kind, resolved>>

Drift ==
    /\ Spend("drifts")
    /\ \E i \in Ids : \/ OutOfBandDelete(i)
                      \/ \E m \in Metas : OutOfBandEdit(i, [cloud[i].cfg EXCEPT !.meta = m])
    /\ UNCHANGED <<objectVars, workerVars, fetched, lost, dependencyVars, kind, resolved>>

Environment ==
    /\ Watch \/ Timer \/ Users \/ Cloud
    /\ UNCHANGED <<dependencyVars, kind, resolved>>

Restarts == Crash /\ resolved' = NoRefs /\ UNCHANGED <<dependencyVars, kind>>

\* None of the objects has gone since it was there, and none was reported missing.
RefsKept ==
    /\ NoneGone
    /\ \A k \in DOMAIN AllRefs(api) :
        api.status.conds["Error"].reason # NotFoundReason(api, k)

-----------------------------------------------------------------------------
(* Why a kind with references rests only in sync: the parts of the          *)
(* inductive invariant StorageController and NetworkController share.       *)

\* What the worker is about to send was there when it was looked up, and is what
\* the references of the spec stand for until one of them loses its identity.
RefsHeld == pc \in NeedRefs =>
    /\ Range(resolved.parents) \cup Range(resolved.members) \subseteq ExtRefIds \cup recorded
    /\ NotLost =>
        /\ resolved.members = Resolve(MemberRefs(mem.spec))
        /\ resolved.parents # <<>> => resolved.parents[1] = ResolveRef(mem.spec.parents[1])

\* The spec and the configuration the updates of these kinds leave alone.
Matching == {p \in Specs \X Cfgs :
    /\ p[1].meta = p[2].meta
    /\ p[2].members = Resolve(MemberRefs(p[1])) /\ Range(p[2].members) \subseteq RefIds
    /\ kind = "Loadbalancer" =>
           p[2].parents[1] = ResolveRef(p[1].parents[1]) /\ p[2].parents[1] \in RefIds}

\* A load balancer is in a subnet from the beginning.
Placed == kind = "Loadbalancer" =>
    \A i \in OwnIds : cloud[i].phase # "none" => cloud[i].cfg.parents # <<>>

\* The other way to rest: a reference to what is not there.
RefReportedMissing ==
    \E k \in DOMAIN AllRefs(api) : api.status.conds["Error"].reason = NotFoundReason(api, k)

\* The reasons that report one.
NotFoundReasons ==
    {"VolumeNotFound", "VPCNotFound", "SubnetNotFound", "SecurityGroupNotFound",
     "TargetGroupNotFound", "RouteTableNotFound", "TargetGatewayNotFound",
     "RequesterVPCNotFound"}
===============================================================================
