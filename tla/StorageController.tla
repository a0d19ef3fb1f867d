--------------------------- MODULE StorageController ---------------------------
(***************************************************************************)
(* The reconcilers of BlockVolume, Snapshot, SnapshotPolicy and            *)
(* TfsInstance: blockvolume_controller.go, snapshot_controller.go,         *)
(* snapshotpolicy_controller.go and tfsinstance_controller.go.  They only  *)
(* provision; they share a shape that differs from the VPC's in three      *)
(* ways: a second Get follows the creation, a successful sync clears the   *)
(* last error, and a refused deletion goes to the error helper.            *)
(*                                                                         *)
(* kind says which of the four this one is; it never changes.              *)
(***************************************************************************)
EXTENDS DependentReconciler

\* parents is an instance's <<vpcRef, subnetRef>>, of which the first is read as
\* a snapshot's volumeRef; members is a policy's target.volumes or an
\* instance's securityGroupRefs.
ASSUME StorageAssumption ==
    /\ Kinds \subseteq {"BlockVolume", "Snapshot", "SnapshotPolicy", "TfsInstance"}
    /\ \A s \in Specs : /\ s.region \in BOOLEAN     \* spec.region is set
                       /\ s.volumeType \in BOOLEAN \* spec.volumeTypeId is not empty

ASSUME StorageReasonsAssumption ==
    {"RegionNotFound", "FailedListVolumeTypes", "FailedFindVolumeType", "FailedUpdate",
     "DeleteFailed"} \subseteq Texts

TypeOK == DependentTypeOK

Init == DependentInit

-----------------------------------------------------------------------------
(* Reconcile, once the references are resolved.                            *)

\* An instance without spec.region asks Thalassa for the VPC's.
AsksForRegion(spec) == kind = "TfsInstance" /\ ~spec.region

\* Mutant: an empty status.resourceId is an identity like any other.
ReconcileStorageUnready ==
    /\ Provisions
    /\ IF AsksForRegion(cache.spec)
       THEN Dequeue(Observed(cache), "getRegion") /\ UNCHANGED resourceVars
       ELSE CreateOrSync
    /\ KeepRefs

ReconcileStorage ==
    /\ Provisions
    /\ AllResolved(cache)
    /\ IF AsksForRegion(cache.spec)
       THEN Dequeue(Observed(cache), "getRegion") /\ UNCHANGED resourceVars
       ELSE CreateOrSync
    /\ KeepRefs

GetCloudRegionIdentity ==
    /\ pc = "getRegion"
    /\ Live(resolved.parents[1])
    /\ IF mem.status.id = NoId
       THEN pc' = "writeCreating" /\ mem' = SetProgressing(mem, "Creating")
       ELSE pc' = "get" /\ UNCHANGED mem
    /\ UNCHANGED <<objectVars, queue, fresh, budget, resourceVars>>

GetCloudRegionIdentityFails ==
    /\ pc = "getRegion"
    /\ \/ ~Live(resolved.parents[1]) /\ UNCHANGED budget
       \/ Spend("faults")
    /\ \E e \in Errors : ReportError(mem, "RegionNotFound", e, e)
    /\ UNCHANGED <<objectVars, cloud, lost>>

Reconcile ==
    \/ ReconcileStorage
    \/ (ReconcileAnyDependent \/ ReconcileDelete) /\ ForgetRefs

-----------------------------------------------------------------------------
(* Creation.                                                               *)

WriteCreatingVolume ==
    /\ PersistAndGo("writeCreating", "listVolumeTypes", mem)
    /\ UNCHANGED resourceVars

\* The type's identity or name is looked up; one that is not in the list is
\* sent as it is.
ListVolumeTypes ==
    /\ Step("listVolumeTypes", "create", mem)
    /\ mem.spec.volumeType
    /\ UNCHANGED <<objectVars, fresh, budget, resourceVars>>

FindVolumeTypeFails ==
    /\ pc = "listVolumeTypes"
    /\ ~mem.spec.volumeType
    /\ ReportError(mem, "FailedFindVolumeType", "FailedFindVolumeType", "FailedFindVolumeType")
    /\ UNCHANGED <<objectVars, budget, cloud, lost>>

ListVolumeTypesFails ==
    /\ pc = "listVolumeTypes"
    /\ Spend("faults")
    /\ \E e \in Errors : ReportError(mem, "FailedListVolumeTypes", e, e)
    /\ UNCHANGED <<objectVars, cloud, lost>>

CreateBlockVolume ==
    \/ WriteCreatingVolume \/ ListVolumeTypes \/ FindVolumeTypeFails \/ ListVolumeTypesFails
    \/ CreateAndWait

CreateSnapshot == WriteCreating \/ CreateAndWait

CreateTfsInstance == WriteCreating \/ CreateAndWait

\* A policy has no status to wait for: one write records its identity and
\* reports it available.
CreatePolicy ==
    \E i \in OwnIds :
        /\ Step("create", "writeResourceId",
                [SetAvailable(mem, "Created") EXCEPT !.status.id = i, !.status.err = NoError])
        /\ CloudCreate(i, Sent)
        /\ UNCHANGED <<objectVars, fresh, budget, fetched, lost>>

WriteCreatedPolicy ==
    /\ pc = "writeResourceId"
    /\ PersistStatus
    /\ Done
    /\ UNCHANGED <<cloud, lost>>

CreateSnapshotPolicy ==
    \/ ~Refused /\ (CreatePolicy \/ CreateResourceFails(Sent))
    \/ CreateRefused
    \/ WriteCreating \/ WriteCreatedPolicy

-----------------------------------------------------------------------------
(* Syncing a resource that has an identity.                                *)

\* Name, description, labels, size and the like, and the references of the
\* kinds whose update sends them.
RequiresUpdate(obj, resource) ==
    obj.spec.meta # resource.cfg.meta \/ resolved.members # resource.cfg.members

\* Mutant: the last error is left.
ReconciledKeepingError(obj) == SetAvailable(obj, "Reconciled")

Reconciled(obj) == [SetAvailable(obj, "Reconciled") EXCEPT !.status.err = NoError]

\* obj is mem with what Get answered.
SyncStorage(obj) ==
    /\ pc = "get"
    /\ Exists(mem.status.id)
    /\ IF RequiresUpdate(mem, cloud[mem.status.id])
       THEN pc' = "writeUpdating" /\ mem' = SetProgressing(obj, "Updating")
       ELSE pc' = "writeSynced" /\ mem' = Reconciled(obj)
    /\ UNCHANGED <<objectVars, queue, fresh, budget, resourceVars>>

\* The rest of the resource stays what it was.
UpdateStorage(next, obj) ==
    LET id == mem.status.id
    IN  /\ Step("update", next, obj)
        /\ AllLive(resolved.members)
        /\ CloudUpdate(id, [cloud[id].cfg EXCEPT !.meta = mem.spec.meta,
                                                 !.members = resolved.members])
        /\ UNCHANGED <<objectVars, fresh, budget, fetched, lost>>

UpdateStorageFails ==
    /\ \/ UpdateError
       \/ pc = "update" /\ ~AllLive(resolved.members) /\ UNCHANGED budget
    /\ \E e \in Errors : ReportError(mem, "FailedUpdate", e, e)
    /\ UNCHANGED <<objectVars, cloud, lost>>

RefetchStorage ==
    /\ Step("refetch", "writeSynced",
            [Reconciled(mem) EXCEPT !.status.res = cloud[mem.status.id].phase])
    /\ Exists(mem.status.id)
    /\ UNCHANGED <<objectVars, fresh, budget, resourceVars>>

SyncAnyKind ==
    \/ GetNotFound \/ GetFails \/ WriteNotFound \/ WriteUpdating \/ UpdateStorageFails
    \/ WriteSynced

SyncAndRefetch ==
    \/ SyncStorage([mem EXCEPT !.status.res = cloud[mem.status.id].phase])
    \/ UpdateStorage("refetch", mem)
    \/ RefetchStorage \/ RefetchReportsError
    \/ SyncAnyKind

SyncBlockVolume == SyncAndRefetch

SyncSnapshot == SyncAndRefetch

SyncTfsInstance == SyncAndRefetch

SyncSnapshotPolicy ==
    \/ SyncStorage(mem)
    \/ UpdateStorage("writeSynced", Reconciled(mem))
    \/ SyncAnyKind

-----------------------------------------------------------------------------
(* Deletion.                                                               *)

\* Mutant: every error of the call counts as NotFound.
DeleteFailsOpen ==
    /\ Step("delete", "removeFinalizer", mem)
    /\ \/ IsProtected(mem.status.id) /\ UNCHANGED budget
       \/ Spend("faults")
    /\ UNCHANGED <<objectVars, fresh, resourceVars>>

DeleteFails ==
    /\ DeleteError
    /\ \E e \in Errors : ReportError(mem, "DeleteFailed", e, e)
    /\ UNCHANGED <<objectVars, cloud, lost>>

DeleteAndWait ==
    DeleteAccepted \/ DeleteFails \/ WaitDeleted \/ WaitDeletedFails \/ RemoveFinalizer

DeleteSnapshotPolicy == DeleteAtOnce \/ DeleteFails \/ RemoveFinalizer

-----------------------------------------------------------------------------
(* The four reconcilers.                                                   *)

BlockVolume == CreateBlockVolume \/ SyncBlockVolume \/ DeleteAndWait

Snapshot == CreateSnapshot \/ SyncSnapshot \/ DeleteAndWait

SnapshotPolicy == CreateSnapshotPolicy \/ SyncSnapshotPolicy \/ DeleteSnapshotPolicy

TfsInstance ==
    \/ GetCloudRegionIdentity \/ GetCloudRegionIdentityFails
    \/ CreateTfsInstance \/ SyncTfsInstance \/ DeleteAndWait

Worker ==
    /\ \/ Reconcile
       \/ /\ \/ kind = "BlockVolume" /\ BlockVolume
             \/ kind = "Snapshot" /\ Snapshot
             \/ kind = "SnapshotPolicy" /\ SnapshotPolicy
             \/ kind = "TfsInstance" /\ TfsInstance
             \/ WriteError \/ StatusWriteFails
          /\ ForgetRefs
    /\ UNCHANGED <<dependencyVars, kind>>

Next == Worker \/ Restarts \/ Environment \/ Owners \/ RefUsers \/ Drift

\* The controllers of the objects referred to are as fair as this one.
Fairness ==
    /\ WF_vars(Worker)
    /\ WF_vars(Watch /\ UNCHANGED <<dependencyVars, kind, resolved>>)
    /\ WF_vars(Timer /\ UNCHANGED <<dependencyVars, kind, resolved>>)
    /\ WF_vars(Cloud /\ UNCHANGED <<dependencyVars, kind, resolved>>)
    /\ WF_vars(Owners)

Spec == Init /\ [][Next]_vars

FairSpec == Spec /\ Fairness

-----------------------------------------------------------------------------
(* What the four reconcilers promise, beside what every one does.          *)

\* A volume without a volume type is never created.
WantsResource == /\ api.exists /\ ~api.suspended
                 /\ kind = "BlockVolume" => api.spec.volumeType

InSync == /\ Exists(api.status.id)
          /\ cloud[api.status.id].cfg.meta = api.spec.meta
          /\ cloud[api.status.id].cfg.members = Resolve(MemberRefs(api.spec))
          /\ IsTrue(api.status.conds, "Ready")
          /\ api.status.obsGen = api.gen

(* As long as the objects it refers to stay, nobody changes the resource    *)
(* behind the cluster's back and one call at most has failed (the error     *)
(* helper requeues no failure twice), the controller comes to rest only     *)
(* when a deleted CR is gone, or Thalassa protects its resource, and the    *)
(* resource of any other one has what Update sends: volumes and security    *)
(* groups resolved to the identities the objects have now.                  *)
RestsInSync ==
    AtRest /\ Undrifted /\ OneFault /\ RefsKept /\ WantsResource
        => IF api.deleting THEN IsProtected(api.status.id) ELSE InSync

(* common_types.go: the last reconcile error is "Cleared on success"; these *)
(* four do what vpc_controller.go omits, as long as one call at most has    *)
(* failed: a second failure nothing requeues leaves its error standing.  A  *)
(* refused deletion, and a missing reference of a resource that is in sync, *)
(* are errors of their own.                                                 *)
ErrorClearedOnSuccess ==
    AtRest /\ OneFault /\ RefsKept /\ WantsResource /\ ~api.deleting /\ InSync
        => api.status.err = NoError

(* A deletion that fails ends in the error helper                           *)
(* (blockvolume_controller.go:224), which requeues a failure once; a second *)
(* one like it leaves the CR terminating.  But whichever calls fail, and    *)
(* whatever somebody else does to the resource, a CR that is left           *)
(* terminating says DeleteFailed: every other failure of a deletion leads   *)
(* to another attempt, and a resource that is gone counts as deleted.  With *)
(* Settles, any other deleted CR disappears.                                *)
LeftTerminatingIsReported ==
    AtRest /\ api.exists /\ api.deleting /\ ~api.suspended
        => api.status.conds["Error"].reason = "DeleteFailed"

-----------------------------------------------------------------------------
(* Why it rests only in sync: the inductive invariant of the proof.         *)

\* Thalassa never removes what it protects.
ProtectedStands ==
    kind \in Protectable =>
        \A i \in Ids : cloud[i].phase = "deleting" => cloud[i].cfg.meta \notin Protected

\* Before the first fault, and as long as no reference has lost its identity, only the
\* deletion of a protected resource has been refused; from then on the worker does nothing
\* but ask again.
RefusedProtected ==
    /\ NotLost /\ Undrifted /\ budget["faults"] = MaxFaults
    /\ \E obj \in {api, cache, mem} : obj.status.conds["Error"].reason = "DeleteFailed"
    => /\ api.deleting /\ cache.deleting /\ IsProtected(api.status.id)
       /\ pc \in {"idle", "delete", "writeError"}

\* The last status write of a sync, or of a creation, clears the last error; a policy's
\* first write after its creation is its last.
Cleared ==
    /\ pc \in LastWrites \cup {"writeResourceId"} => mem.status.err = NoError
    /\ kind = "SnapshotPolicy" /\ pc = "writeResourceId" => IsTrue(mem.status.conds, "Ready")

RestsDone ==
    NotLost /\ Calm /\ Unattended
        => \/ RefReportedMissing
           \/ kind = "BlockVolume" /\ ~api.spec.volumeType
           \/ api.deleting /\ IsProtected(api.status.id)
           \/ ~api.deleting /\ Settled(Matching) /\ api.status.err = NoError

RestInv ==
    /\ LeakInv
    /\ TypeOK
    /\ RefsDistinct
    /\ RefsHeld
    /\ VersionInv
    /\ ProtectedStands
    /\ RefusedProtected
    /\ Cleared
    /\ NotLost => ErrorsAmong({"", "InvalidSpec", "FailedFindVolumeType", "DeleteFailed"}
                                  \cup NotFoundReasons)
    /\ NotLost => Applied(Matching)
    /\ RestsDone
===============================================================================
