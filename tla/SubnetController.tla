--------------------------- MODULE SubnetController ---------------------------
(***************************************************************************)
(* internal/controller/subnet_controller.go: the reconciler of one Subnet, *)
(* which waits for the VPC its spec names.  The VPC's own controller is    *)
(* seen through what the cache shows of the VPC object.                    *)
(***************************************************************************)
EXTENDS Reconciler, Dependencies

CONSTANTS
    Cidrs,      \* spec.cidr
    Metas       \* name, labels and description

\* spec.vpcRef is a name or, when vpcRef.identity is set, that identity.
ASSUME SubnetAssumption ==
    /\ Cfgs = [vpc : RefIds, cidr : Cidrs, meta : Metas]
    /\ \A s \in Specs : s.vpc \in Names \cup RefIds /\ s.cidr \in Cidrs /\ s.meta \in Metas

ASSUME SubnetReasonsAssumption == {"VPCNotFound", "UpdateFailed"} \cup Names \subseteq Texts

VARIABLE
    vpcIdentity  \* what resolveVPCRef answered, while it is still needed

vars == <<runtimeVars, resourceVars, dependencyVars, vpcIdentity>>

\* Program points at which createSubnet still needs vpcIdentity.
NeedVpc == {"writeCreating", "create"}

TypeOK ==
    /\ ReconcilerTypeOK
    /\ RefsTypeOK
    /\ vpcIdentity \in IF pc \in NeedVpc THEN RefIds ELSE {NoId}

Init ==
    /\ ReconcilerInit
    /\ RefsInit
    /\ vpcIdentity = NoId

-----------------------------------------------------------------------------
(* Reconcile, after the finalizer.                                         *)

\* Mutant: the error is returned as no error and no requeue.
ReconcileVpcNotReadyDropped ==
    /\ Provisions
    /\ ResolveRef(cache.spec.vpc) = NoId
    /\ DequeueIgnored
    /\ UNCHANGED resourceVars

\* Nothing is written, not even the observed generation.
ReconcileVpcNotReady ==
    /\ Provisions
    /\ ResolveRef(cache.spec.vpc) = NoId
    /\ DequeueAgain
    /\ UNCHANGED resourceVars

ReconcileVpcNotFound ==
    /\ Provisions
    /\ ResolveRef(cache.spec.vpc) = Missing
    /\ DequeueReporting("VPCNotFound", cache.spec.vpc)
    /\ UNCHANGED resourceVars

\* Mutant: an empty status.resourceId is an identity like any other.
ReconcileSubnetUnready ==
    /\ Provisions
    /\ ResolveRef(cache.spec.vpc) # Missing
    /\ CreateOrSync
    /\ vpcIdentity' = IF pc' \in NeedVpc THEN ResolveRef(cache.spec.vpc) ELSE NoId

ReconcileSubnet ==
    /\ Provisions
    /\ ResolveRef(cache.spec.vpc) \in RefIds
    /\ CreateOrSync
    /\ vpcIdentity' = IF pc' \in NeedVpc THEN ResolveRef(cache.spec.vpc) ELSE NoId

-----------------------------------------------------------------------------
(* createSubnet and reconcileSubnet, beside what the kinds share.          *)

CreateSubnet ==
    /\ pc = "create" => Live(vpcIdentity)
    /\ Create([vpc |-> vpcIdentity, cidr |-> mem.spec.cidr, meta |-> mem.spec.meta])

CreateSubnetRefused ==
    /\ pc = "create"
    /\ ~Live(vpcIdentity)
    /\ \E e \in Errors : ReportError(mem, "FailedCreate", e, e)
    /\ UNCHANGED <<objectVars, budget, cloud, lost>>

\* Mutant: nothing is compared.
RequiresUpdateNever(obj, resource) == FALSE

\* The CIDR and the VPC are not compared.
RequiresUpdate(obj, resource) == obj.spec.meta # resource.cfg.meta

SyncSubnet ==
    LET resource == cloud[mem.status.id]
    IN  Sync(RequiresUpdate(mem, resource), RequiresUpdate(mem, fetched),
             [resource.cfg EXCEPT !.meta = mem.spec.meta])

UpdateSubnetFails ==
    /\ UpdateError
    /\ \E e \in Errors : ReportError(mem, "UpdateFailed", e, e)
    /\ UNCHANGED <<objectVars, cloud, lost>>

\* There is no wait between the update and the second GetSubnet.
WriteUpdatedSubnet == WriteUpdated("refetch")

RefetchSubnetFails ==
    /\ RefetchError
    /\ \E e \in Errors : ReportError(mem, "GetFailed", "GetFailed", e)
    /\ UNCHANGED <<objectVars, cloud, lost>>

\* What every step but the resolution does to what it answered.
ForgetVpc == vpcIdentity' = IF pc' \in NeedVpc THEN vpcIdentity ELSE NoId

Reconcile ==
    \/ /\ ReconcileAnyKind \/ ReconcileVpcNotReady \/ ReconcileVpcNotFound
       /\ ForgetVpc
    \/ ReconcileSubnet

Worker ==
    /\ \/ Reconcile
       \/ /\ \/ CreateSubnet \/ CreateSubnetRefused \/ SyncSubnet \/ Adopt \/ Delete
             \/ UpdateSubnetFails \/ WriteUpdatedSubnet \/ RefetchSubnetFails
             \/ WriteError \/ StatusWriteFails
          /\ ForgetVpc
    /\ UNCHANGED dependencyVars

-----------------------------------------------------------------------------
(* The VPC objects, as their controller and their users change them.       *)

VpcController == \E n \in Names :
    RefRecorded(n) /\ UNCHANGED <<objectVars, workerVars, resourceVars, vpcIdentity>>

VpcUsers == \E n \in Names :
    /\ RefCreated(n) \/ RefGone(n)
    /\ UNCHANGED <<objectVars, workerVars, resourceVars, vpcIdentity>>

\* Somebody deletes the subnet, or edits what can be edited, in Thalassa.
Drift ==
    /\ Spend("drifts")
    /\ \E i \in Ids : \/ OutOfBandDelete(i)
                      \/ \E m \in Metas : OutOfBandEdit(i, [cloud[i].cfg EXCEPT !.meta = m])
    /\ UNCHANGED <<objectVars, workerVars, fetched, lost, dependencyVars, vpcIdentity>>

Environment ==
    /\ Watch \/ Timer \/ Users \/ Cloud
    /\ UNCHANGED <<dependencyVars, vpcIdentity>>

Restarts == Crash /\ vpcIdentity' = NoId /\ UNCHANGED dependencyVars

Next == Worker \/ Restarts \/ Environment \/ VpcController \/ VpcUsers \/ Drift

\* The VPC controller is as fair as this one.
Fairness ==
    /\ WF_vars(Worker)
    /\ WF_vars(Watch /\ UNCHANGED <<dependencyVars, vpcIdentity>>)
    /\ WF_vars(Timer /\ UNCHANGED <<dependencyVars, vpcIdentity>>)
    /\ WF_vars(Cloud /\ UNCHANGED <<dependencyVars, vpcIdentity>>)
    /\ WF_vars(VpcController)

Spec == Init /\ [][Next]_vars

FairSpec == Spec /\ Fairness

-----------------------------------------------------------------------------
(* What the reconciler promises, beside what every one does.               *)

WantsSubnet == api.exists /\ ~Adopts(api) /\ api.spec.valid

InSync == /\ Exists(api.status.id)
          /\ cloud[api.status.id].cfg.meta = api.spec.meta
          /\ IsTrue(api.status.conds, "Ready")
          /\ api.status.obsGen = api.gen

VpcReportedMissing == api.status.conds["Error"].reason = "VPCNotFound"

(* As long as its VPC object stays, nobody changes the subnet behind the    *)
(* cluster's back and one call at most has failed (the error helper         *)
(* requeues no failure twice), the controller comes to rest only when a     *)
(* deleted Subnet is gone and a valid one has the name, labels and          *)
(* description of its spec.                                                 *)
RestsInSync ==
    AtRest /\ Undrifted /\ OneFault
            /\ NoneGone /\ ~VpcReportedMissing /\ WantsSubnet /\ ~api.suspended
        => ~api.deleting /\ InSync

(* A Subnet whose VPC has its identity is created, or deleted, however long *)
(* it waited for it (ErrDependencyNotReady in Reconcile), unless the VPC    *)
(* object goes again or was found missing before.                           *)
WaitEnds ==
    WantsSubnet /\ ResolveRef(api.spec.vpc) \in RefIds
        ~> \/ api.status.id # NoId \/ ~WantsSubnet \/ api.deleting
           \/ VpcReportedMissing \/ ~NoneGone

-----------------------------------------------------------------------------
(* What the documentation says and the code does not keep, refuted by a run *)
(* of its own.                                                              *)

(* docs/overview.md: until the dependency has its status.resourceId "the    *)
(* controller requeues without treating it as a hard error".                *)
RequeuesUntilVpcReady ==
    AtRest /\ WantsSubnet /\ ~api.deleting /\ ~api.suspended
        => ResolveRef(api.spec.vpc) \in RefIds
-----------------------------------------------------------------------------
(* Why it rests only in sync: the inductive invariant of the proof.         *)

\* What SyncSubnet takes to be in sync.
Matching == {p \in Specs \X Cfgs : p[1].meta = p[2].meta}

\* What createSubnet is about to send was there when it was looked up.
VpcKnown == pc \in NeedVpc => vpcIdentity \in ExtRefIds \cup recorded

RestsDone ==
    NotLost /\ Calm /\ Unattended /\ ~Adopts(api) /\ api.spec.valid
        => VpcReportedMissing \/ (~api.deleting /\ Settled(Matching))

RestInv ==
    /\ LeakInv
    /\ TypeOK
    /\ RefsKnown
    /\ VpcKnown
    /\ VersionInv
    /\ NotLost => ErrorsAmong({"", "InvalidSpec", "VPCNotFound"})
    /\ Applied(Matching)
    /\ RestsDone
===============================================================================
