---------------------------- MODULE VpcController ----------------------------
(***************************************************************************)
(* internal/controller/vpc_controller.go: the reconciler of one VPC.       *)
(***************************************************************************)
EXTENDS Reconciler

\* A VPC's spec: the reference, or what is sent to Thalassa (name, labels,
\* description, region and CIDR blocks).
ASSUME CfgAssumption == \A s \in Specs : s.cfg \in Cfgs

vars == <<runtimeVars, resourceVars>>

TypeOK == ReconcilerTypeOK

Init == ReconcilerInit

-----------------------------------------------------------------------------
(* Reconcile, reconcileVPC and createVpc, beside what they share.          *)

ReconcileVPC == Provisions /\ CreateOrSync

\* Name, labels, description and CIDR blocks as Thalassa has them.
RequiresUpdate(obj, resource) == obj.spec.cfg # resource.cfg

CreateVpc == Create(mem.spec.cfg)

SyncVpc ==
    Sync(RequiresUpdate(mem, cloud[mem.status.id]), RequiresUpdate(mem, fetched), mem.spec.cfg)

UpdateVpcFails == UpdateError /\ ReturnError

WriteUpdatedVpc == WriteUpdated("waitUpdated")

WaitUpdated ==
    /\ Step("waitUpdated", "refetch", mem)
    /\ cloud[mem.status.id].phase = "ready"
    /\ UNCHANGED <<objectVars, fresh, budget, resourceVars>>

WaitUpdatedFails ==
    /\ pc = "waitUpdated"
    /\ \/ ~Exists(mem.status.id) /\ UNCHANGED budget
       \/ Spend("faults")
    /\ ReturnError

RefetchVpcFails == RefetchError /\ ReturnError

Worker ==
    \/ ReconcileAnyKind \/ ReconcileVPC \/ CreateVpc \/ SyncVpc \/ Adopt \/ Delete
    \/ UpdateVpcFails \/ WriteUpdatedVpc \/ WaitUpdated \/ WaitUpdatedFails
    \/ RefetchVpcFails
    \/ WriteError \/ StatusWriteFails

Drift ==
    /\ Spend("drifts")
    /\ \E i \in Ids : OutOfBandDelete(i) \/ \E c \in Cfgs : OutOfBandEdit(i, c)
    /\ UNCHANGED <<objectVars, workerVars, fetched, lost>>

Next == Worker \/ Crash \/ Watch \/ Timer \/ Users \/ Cloud \/ Drift

\* Workers, watches, timers and the cloud keep going; users, crashes and
\* faults need not come.
Fairness == WF_vars(Worker) /\ WF_vars(Watch) /\ WF_vars(Timer) /\ WF_vars(Cloud)

Spec == Init /\ [][Next]_vars

FairSpec == Spec /\ Fairness

-----------------------------------------------------------------------------
(* What the reconciler promises, beside what every one does.               *)

(* The worker never updates or deletes a VPC that existed before and is     *)
(* only referred to.                                                        *)
ExternalUntouched == [][Worker => \A e \in ExtIds : cloud'[e] = cloud[e]]_vars

(* Thalassa is asked to delete a VPC only while the CR is being deleted.    *)
DeletesOnlyForDeletedCR ==
    [][\A i \in OwnIds : Exists(i) /\ cloud'[i].phase = "deleting"
            => cloud[i].phase = "deleting" \/ (api.exists /\ api.deleting)]_vars

WantsVpc == api.exists /\ ~Adopts(api) /\ api.spec.valid

InSync == /\ Exists(api.status.id)
          /\ cloud[api.status.id].cfg = api.spec.cfg
          /\ IsTrue(api.status.conds, "Ready")
          /\ api.status.obsGen = api.gen

(* As long as nobody changes the VPC behind the cluster's back and one call *)
(* at most has failed (the error helper requeues no failure twice), the     *)
(* controller comes to rest only when there is nothing left to do: a        *)
(* deleted CR is gone, and a valid one describes the VPC as it is.          *)
RestsInSync ==
    AtRest /\ Undrifted /\ OneFault /\ WantsVpc /\ ~api.suspended
        => ~api.deleting /\ InSync

-----------------------------------------------------------------------------
(* What the documentation says and the code does not keep, refuted by a run *)
(* of its own.                                                              *)

(* docs/overview.md: "deleting the CR removes it from Thalassa".            *)
DeletingRemoves == ~api.exists => \A i \in OwnIds : ~Exists(i)

-----------------------------------------------------------------------------
(* Why it rests only in sync: the inductive invariant of the proof.         *)

\* What SyncVpc takes to be in sync.
Matching == {p \in Specs \X Cfgs : p[1].cfg = p[2]}

RestsDone ==
    Calm /\ Unattended /\ ~Adopts(api) /\ api.spec.valid => ~api.deleting /\ Settled(Matching)

RestInv ==
    /\ LeakInv
    /\ VersionInv
    /\ ErrorsAmong({"", "InvalidSpec"})
    /\ Applied(Matching)
    /\ RestsDone
===============================================================================
