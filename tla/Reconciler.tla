------------------------------- MODULE Reconciler -------------------------------
(***************************************************************************)
(* The way through a reconcile that the controllers share: one custom      *)
(* resource, one cloud resource.  Every controller of internal/controller  *)
(* spells it out again; where two of them do the same they use the same    *)
(* action, and vpc_controller.go is the file it is read from.  What a kind *)
(* does differently is in the module of that kind.                         *)
(*                                                                         *)
(* Every call that leaves the process, to the API server or to Thalassa,   *)
(* is a step of its own: users, the cloud, the informer and a crash come   *)
(* between any two of them.  The statements between two calls belong to    *)
(* the step that precedes them.                                            *)
(***************************************************************************)
EXTENDS KubeRuntime

VARIABLES
    fetched,  \* what Get answered, for requiresUpdate
    lost      \* history: identities whose creation was never recorded

\* The reasons of the conditions every reconciler sets.
Reasons == {"Creating", "FailedCreate", "Created", "NotFound", "GetFailed",
            "Updating", "Synced", "InvalidSpec"}

ASSUME ReasonsAssumption == Reasons \subseteq Texts

resourceVars == <<cloud, fetched, lost>>

\* Program points that are status writes.
StatusWrites == {"writeCreating", "writeResourceId", "writeCreated", "writeNotFound",
                 "writeError", "writeResourceStatus", "writeUpdating", "writeUpdated",
                 "writeRefetched", "writeSynced", "writeForgotten", "writeAdopted",
                 "writeAdoptedReady"}

ProgramPoints == StatusWrites \cup
    {"idle", "addFinalizer", "getRegion", "listVolumeTypes", "create", "waitCreated",
     "getCreated", "get", "waitEndpoint", "update", "waitUpdated", "refetch", "attach",
     "accept", "reject", "getExternal", "delete", "waitDeleted", "removeFinalizer"}

NoResource == [phase |-> "none", cfg |-> CHOOSE c \in Cfgs : TRUE]

ReconcilerTypeOK ==
    /\ RuntimeTypeOK
    /\ CloudTypeOK
    /\ pc \in ProgramPoints
    /\ fetched \in Resource
    /\ lost \subseteq Ids \cup {NoId}

ReconcilerInit ==
    /\ RuntimeInit
    /\ CloudInit
    /\ fetched = NoResource
    /\ lost = {}

-----------------------------------------------------------------------------
(* Changes to the in-memory object.                                        *)

SetAvailable(obj, reason) == [obj EXCEPT !.status.conds = Available(@, reason)]
SetDegraded(obj, reason) == [obj EXCEPT !.status.conds = Degraded(@, reason)]
SetProgressing(obj, reason) == [obj EXCEPT !.status.conds = Progressing(@, reason)]

SetErrorCondition(obj, reason, message, err) ==
    [obj EXCEPT !.status.conds = SetStatusCondition(@, "Error", "False", reason, message),
                !.status.err = err]

\* ReconcileMeta, at the start of every reconcile that does something.
Observed(obj) == [obj EXCEPT !.status.obsGen = obj.gen]

\* A call to Thalassa returned an error that is returned as it is.
ReturnError ==
    /\ Return(Requeued)
    /\ fetched' = NoResource
    /\ UNCHANGED <<objectVars, cloud, lost>>

\* Result{}, nil.
Done ==
    /\ Return(queue)
    /\ fetched' = NoResource

\* Mutant: requeued even when nothing is written.
ReportErrorAgain(obj, reason, message, err) ==
    IF StatusConditionChanges(obj.status.conds, "Error", "False", reason, message)
    THEN /\ pc' = "writeError"
         /\ mem' = SetErrorCondition(obj, reason, message, err)
         /\ fresh' = FALSE
         /\ UNCHANGED <<queue, fetched>>
    ELSE Return(Requeued) /\ fetched' = NoResource

\* setVpcErrorCondition and its copies: an Error condition that already says
\* the same is not written again, and then nothing is requeued either.
ReportError(obj, reason, message, err) ==
    IF StatusConditionChanges(obj.status.conds, "Error", "False", reason, message)
    THEN /\ pc' = "writeError"
         /\ mem' = SetErrorCondition(obj, reason, message, err)
         /\ fresh' = FALSE
         /\ UNCHANGED <<queue, fetched>>
    ELSE Done

\* The same before anything else was called.
DequeueReporting(reason, message) ==
    IF StatusConditionChanges(cache.status.conds, "Error", "False", reason, message)
    THEN Dequeue(SetErrorCondition(Observed(cache), reason, message, message), "writeError")
    ELSE DequeueIgnored

\* Both outcomes of the error condition's write requeue.
WriteError ==
    /\ pc = "writeError"
    /\ PersistStatus
    /\ Return(Requeued)
    /\ fetched' = NoResource
    /\ UNCHANGED <<cloud, lost>>

-----------------------------------------------------------------------------
(* Reconcile, up to what differs between the kinds.                        *)

\* Not found or suspended; or deleted and without our finalizer.
ReconcileNothing ==
    /\ \/ ~cache.exists
       \/ cache.suspended
       \/ cache.deleting /\ ~cache.fin
    /\ DequeueIgnored
    /\ UNCHANGED resourceVars

Reconciles == cache.exists /\ ~cache.suspended

\* Mutant: the deletion timestamp is not looked at.
ReconcileDeleteAlways ==
    /\ Reconciles /\ cache.fin
    /\ Dequeue(Observed(cache),
               IF cache.status.id # NoId THEN "delete" ELSE "removeFinalizer")
    /\ UNCHANGED resourceVars

ReconcileDelete ==
    /\ Reconciles /\ cache.deleting /\ cache.fin
    /\ Dequeue(Observed(cache),
               IF cache.status.id # NoId THEN "delete" ELSE "removeFinalizer")
    /\ UNCHANGED resourceVars

\* Mutant: the finalizer is added to adopted resources too.
ReconcileExternalWithFinalizer ==
    /\ Reconciles /\ ~cache.deleting /\ Adopts(cache)
    /\ Dequeue(Observed(cache), IF cache.fin THEN "getExternal" ELSE "addFinalizer")
    /\ UNCHANGED resourceVars

ReconcileExternalReference ==
    /\ Reconciles /\ ~cache.deleting /\ Adopts(cache)
    /\ Dequeue(Observed(cache), "getExternal")
    /\ UNCHANGED resourceVars

\* Required fields are missing.
ReconcileInvalidSpec ==
    /\ Reconciles /\ ~cache.deleting /\ ~Adopts(cache) /\ ~cache.spec.valid
    /\ DequeueReporting("InvalidSpec", "InvalidSpec")
    /\ UNCHANGED resourceVars

ReconcileNoFinalizer ==
    /\ Reconciles /\ ~cache.deleting /\ ~Adopts(cache) /\ cache.spec.valid /\ ~cache.fin
    /\ Dequeue(Observed(cache), "addFinalizer")
    /\ UNCHANGED resourceVars

\* What is left to do is to create the resource or to sync it.
Provisions ==
    Reconciles /\ ~cache.deleting /\ ~Adopts(cache) /\ cache.spec.valid /\ cache.fin

\* Mutant: a resource that is not ready yet counts as not created.
CreateOrSyncByStatus ==
    /\ IF cache.status.res # "ready"
       THEN Dequeue(SetProgressing(Observed(cache), "Creating"), "writeCreating")
       ELSE Dequeue(Observed(cache), "get")
    /\ UNCHANGED resourceVars

\* Up to the first call: the status write before the creation, or Get.
CreateOrSync ==
    /\ IF cache.status.id = NoId
       THEN Dequeue(SetProgressing(Observed(cache), "Creating"), "writeCreating")
       ELSE Dequeue(Observed(cache), "get")
    /\ UNCHANGED resourceVars

AddFinalizer ==
    /\ pc = "addFinalizer"
    /\ \/ /\ UpdateObject([api EXCEPT !.fin = TRUE])
          /\ Return(Requeued)
       \/ UpdateObjectFails
    /\ UNCHANGED resourceVars

-----------------------------------------------------------------------------
(* Creation.                                                               *)

WriteCreating ==
    /\ PersistAndGo("writeCreating", "create", mem)
    /\ UNCHANGED resourceVars

\* The answer names the new resource.
CreateResource(cfg) ==
    \E i \in OwnIds :
        /\ Step("create", "writeResourceId",
                [mem EXCEPT !.status.id = i, !.status.res = "pending", !.status.err = NoError])
        /\ CloudCreate(i, cfg)
        /\ UNCHANGED <<objectVars, fresh, budget, fetched, lost>>

\* An error: the request was refused, or it was carried out and the answer lost.
CreateResourceFails(cfg) ==
    /\ pc = "create"
    /\ Spend("faults")
    /\ \/ UNCHANGED <<cloud, lost>>
       \/ \E i \in OwnIds : CloudCreate(i, cfg) /\ lost' = lost \cup {i}
    /\ \E e \in Errors : ReportError(mem, "FailedCreate", e, e)
    /\ UNCHANGED objectVars

\* Mutant: the identity is left for the write after the wait.
WriteResourceIdLater ==
    /\ Step("writeResourceId", "waitCreated", mem)
    /\ UNCHANGED <<objectVars, fresh, budget, resourceVars>>

WriteResourceId ==
    /\ PersistAndGo("writeResourceId", "waitCreated", mem)
    /\ UNCHANGED resourceVars

\* The status written after the wait is what Create answered.
WaitCreated ==
    /\ Step("waitCreated", "writeCreated",
            [SetAvailable(mem, "Created") EXCEPT !.status.err = NoError])
    /\ cloud[mem.status.id].phase = "ready"
    /\ UNCHANGED <<objectVars, fresh, budget, resourceVars>>

WaitCreatedFails ==
    /\ pc = "waitCreated"
    /\ \/ ~Exists(mem.status.id) /\ UNCHANGED budget
       \/ Spend("faults")
    /\ ReturnError

WriteCreated ==
    /\ pc = "writeCreated"
    /\ PersistStatus
    /\ Done
    /\ UNCHANGED <<cloud, lost>>

-----------------------------------------------------------------------------
(* Syncing a resource that has an identity.                                *)

\* After the status has been synced: update, or set the conditions.
SyncSpec(obj, needsUpdate) ==
    IF needsUpdate
    THEN pc' = "writeUpdating" /\ mem' = SetProgressing(obj, "Updating")
    ELSE pc' = "writeSynced" /\ mem' = SetAvailable(obj, "Synced")

GetResource(needsUpdate) ==
    LET resource == cloud[mem.status.id]
    IN  /\ pc = "get"
        /\ Exists(mem.status.id)
        /\ IF mem.status.res # resource.phase
           THEN /\ pc' = "writeResourceStatus"
                /\ mem' = [mem EXCEPT !.status.res = resource.phase, !.status.err = NoError]
                /\ fetched' = resource
           ELSE /\ SyncSpec(mem, needsUpdate)
                /\ UNCHANGED fetched
        /\ UNCHANGED <<objectVars, queue, fresh, budget, cloud, lost>>

GetNotFound ==
    /\ Step("get", "writeNotFound", SetDegraded(mem, "NotFound"))
    /\ ~Exists(mem.status.id)
    /\ UNCHANGED <<objectVars, fresh, budget, resourceVars>>

GetFails ==
    /\ pc = "get"
    /\ Spend("faults")
    /\ \E e \in Errors : ReportError(mem, "GetFailed", "GetFailed", e)
    /\ UNCHANGED <<objectVars, cloud, lost>>

WriteNotFound ==
    /\ pc = "writeNotFound"
    /\ PersistStatus
    /\ \E e \in Errors : ReportError(mem, "NotFound", "NotFound", e)
    /\ UNCHANGED <<cloud, lost>>

WriteResourceStatus(needsUpdate) ==
    /\ pc = "writeResourceStatus"
    /\ PersistStatus
    /\ SyncSpec(mem, needsUpdate)
    /\ fetched' = NoResource
    /\ fresh' = FALSE
    /\ UNCHANGED <<queue, cloud, lost>>

WriteUpdating ==
    /\ PersistAndGo("writeUpdating", "update", mem)
    /\ UNCHANGED resourceVars

UpdateResource(cfg) ==
    LET id == mem.status.id
    IN  /\ pc = "update"
        /\ CloudUpdate(id, cfg)
        /\ Step("update", "writeUpdated",
                [mem EXCEPT !.status.res = cloud'[id].phase, !.status.err = NoError])
        /\ UNCHANGED <<objectVars, fresh, budget, fetched, lost>>

\* Update has been refused, or has failed.
UpdateError ==
    /\ pc = "update"
    /\ \/ cloud[mem.status.id].phase \notin Standing /\ UNCHANGED budget
       \/ Spend("faults")

WriteUpdated(next) ==
    /\ PersistAndGo("writeUpdated", next, mem)
    /\ UNCHANGED resourceVars

Refetch ==
    /\ Step("refetch", "writeRefetched",
            [mem EXCEPT !.status.res = cloud[mem.status.id].phase])
    /\ Exists(mem.status.id)
    /\ UNCHANGED <<objectVars, fresh, budget, resourceVars>>

RefetchError ==
    /\ pc = "refetch"
    /\ \/ ~Exists(mem.status.id) /\ UNCHANGED budget
       \/ Spend("faults")

WriteRefetched ==
    /\ PersistAndGo("writeRefetched", "writeSynced", SetAvailable(mem, "Synced"))
    /\ UNCHANGED resourceVars

WriteSynced ==
    /\ pc = "writeSynced"
    /\ PersistStatus
    /\ Done
    /\ UNCHANGED <<cloud, lost>>
-----------------------------------------------------------------------------
(* Adoption by spec.resourceId: nothing is written to Thalassa.            *)

\* The Ready condition, written only when it changes.
AdoptedReady(obj) ==
    IF StatusConditionChanges(obj.status.conds, "Ready", "True", "Synced", "")
    THEN /\ pc' = "writeAdoptedReady"
         /\ mem' = [obj EXCEPT !.status.conds =
                        SetStatusCondition(@, "Ready", "True", "Synced", "")]
         /\ fresh' = FALSE
         /\ UNCHANGED <<queue, fetched>>
    ELSE Done

GetExternal ==
    LET ref == mem.spec.ref
        obj == [mem EXCEPT !.status.id = ref, !.status.err = NoError]
    IN  /\ pc = "getExternal"
        /\ Exists(ref)
        /\ IF obj.status.res # cloud[ref].phase
           THEN /\ pc' = "writeAdopted"
                /\ mem' = [obj EXCEPT !.status.res = cloud[ref].phase]
                /\ fresh' = FALSE
                /\ UNCHANGED <<queue, fetched>>
           ELSE AdoptedReady(obj)
        /\ UNCHANGED <<objectVars, budget, cloud, lost>>

GetExternalFails ==
    /\ pc = "getExternal"
    /\ \/ ~Exists(mem.spec.ref) /\ UNCHANGED budget
       \/ Spend("faults")
    /\ ReturnError

WriteAdopted ==
    /\ pc = "writeAdopted"
    /\ PersistStatus
    /\ AdoptedReady(mem)
    /\ UNCHANGED <<cloud, lost>>

WriteAdoptedReady ==
    /\ pc = "writeAdoptedReady"
    /\ PersistStatus
    /\ Done
    /\ UNCHANGED <<cloud, lost>>

-----------------------------------------------------------------------------
(* Deletion.                                                               *)

\* Mutant: NotFound is an error like any other.
DeleteResourceFound ==
    /\ Step("delete", "waitDeleted", mem)
    /\ Exists(mem.status.id)
    /\ CloudDelete(mem.status.id)
    /\ UNCHANGED <<objectVars, fresh, budget, fetched, lost>>

\* NotFound counts as success.
DeleteResource ==
    /\ Step("delete", "waitDeleted", mem)
    /\ CloudDelete(mem.status.id)
    /\ UNCHANGED <<objectVars, fresh, budget, fetched, lost>>

DeleteResourceFails ==
    /\ pc = "delete"
    /\ Spend("faults")
    /\ ReturnError

\* Mutant: an accepted deletion counts as done.
WaitDeletedNot ==
    /\ Step("waitDeleted", "removeFinalizer", mem)
    /\ UNCHANGED <<objectVars, fresh, budget, resourceVars>>

WaitDeleted ==
    /\ Step("waitDeleted", "removeFinalizer", mem)
    /\ ~Exists(mem.status.id)
    /\ UNCHANGED <<objectVars, fresh, budget, resourceVars>>

\* Mutant: a failed wait is logged and the finalizer removed all the same.
WaitDeletedFailsOpen ==
    /\ Step("waitDeleted", "removeFinalizer", mem)
    /\ Spend("faults")
    /\ UNCHANGED <<objectVars, fresh, resourceVars>>

\* Mutant: a failed wait is logged and asks for no requeue.
WaitDeletedFailsDropped ==
    /\ pc = "waitDeleted"
    /\ Spend("faults")
    /\ Done
    /\ UNCHANGED <<objectVars, cloud, lost>>

WaitDeletedFails ==
    /\ pc = "waitDeleted"
    /\ Spend("faults")
    /\ ReturnError

\* The last finalizer: the API server removes the object.
RemoveFinalizer ==
    /\ pc = "removeFinalizer"
    /\ \/ /\ UpdateObject([Blank(api.uid) EXCEPT !.spec = api.spec])
          /\ Return(queue)
       \/ UpdateObjectFails
    /\ UNCHANGED resourceVars

-----------------------------------------------------------------------------

\* An identity that was created and not recorded yet is lost with the worker's
\* memory.
LoseInFlight ==
    lost' = IF pc = "writeResourceId" THEN lost \cup {mem.status.id} ELSE lost

StatusWriteFails ==
    /\ pc \in StatusWrites
    /\ GiveUp
    /\ LoseInFlight
    /\ fetched' = NoResource
    /\ UNCHANGED cloud

Crash ==
    /\ Restart
    /\ LoseInFlight
    /\ fetched' = NoResource
    /\ UNCHANGED cloud

-----------------------------------------------------------------------------
(* The steps of the worker that every kind has, by the function they are   *)
(* part of.                                                                *)

ReconcileAnyKind ==
    \/ ReconcileNothing \/ ReconcileDelete \/ ReconcileExternalReference
    \/ ReconcileInvalidSpec \/ ReconcileNoFinalizer \/ AddFinalizer

Create(cfg) ==
    \/ WriteCreating \/ CreateResource(cfg) \/ CreateResourceFails(cfg) \/ WriteResourceId
    \/ WaitCreated \/ WaitCreatedFails \/ WriteCreated

Sync(needsUpdate, needsUpdateOnceWritten, cfg) ==
    \/ GetResource(needsUpdate) \/ GetNotFound \/ GetFails \/ WriteNotFound
    \/ WriteResourceStatus(needsUpdateOnceWritten)
    \/ WriteUpdating \/ UpdateResource(cfg) \/ Refetch \/ WriteRefetched \/ WriteSynced

Adopt == GetExternal \/ GetExternalFails \/ WriteAdopted \/ WriteAdoptedReady

Delete ==
    \/ DeleteResource \/ DeleteResourceFails \/ WaitDeleted \/ WaitDeletedFails
    \/ RemoveFinalizer

\* What goes on around the worker.
Watch == CacheSync /\ UNCHANGED resourceVars
Timer == TimerFires /\ UNCHANGED resourceVars
Users == User /\ UNCHANGED resourceVars
Cloud == CloudProgress /\ UNCHANGED <<runtimeVars, fetched, lost>>

-----------------------------------------------------------------------------
(* What every reconciler promises.                                         *)

\* Where the worker holds an identity it has just been given.
InFlight == IF pc = "writeResourceId" THEN {mem.status.id} ELSE {}

\* The identity the CR records; only the finalizer keeps the record alive.
Recorded == IF api.exists /\ api.fin THEN {api.status.id} ELSE {}

(* No resource the controller created is ever forgotten: as long as it      *)
(* exists in Thalassa its identity is in the status of a CR that cannot     *)
(* disappear, or about to be written there, unless the write that would     *)
(* have recorded it was cut short (create and reconcileDelete).             *)
NoLeak == \A i \in OwnIds : Exists(i) => i \in Recorded \cup InFlight \cup lost

(* While an identity is recorded the controller never asks for another      *)
(* resource: at most one exists besides the lost ones.                      *)
OnePerCR ==
    \A i, j \in OwnIds \ lost : Exists(i) /\ Exists(j) => i = j

\* The lifecycle ManagedResource promises, seen in a reconciler's state.
Owned == {i \in OwnIds \ lost : Exists(i)}

Stage == IF ~api.exists THEN "absent" ELSE IF api.deleting THEN "deleting" ELSE "present"

Holding ==
    IF Owned = {} THEN "none" ELSE IF Owned \subseteq Recorded THEN "recorded" ELSE "unrecorded"

Strays == {i \in lost : Exists(i)}

Lifecycle == INSTANCE ManagedResource WITH
    Ids <- OwnIds, cr <- Stage, resource <- Holding, strays <- Strays

(* The reconciler implements that lifecycle.                                *)
ImplementsLifecycle == Lifecycle!Spec

\* What the other reconcilers' lookups of a provisioned object answer; an adopted
\* one shows the reference its user chose.
Shown == IF ~api.exists THEN "missing" ELSE IF Adopts(api) THEN NoId ELSE api.status.id

Reference == INSTANCE ReferencedObject WITH
    Identities <- OwnIds, Missing <- "missing", shown <- Shown

(* status.resourceId is written once and taken back only by the object's    *)
(* disappearance, which is what every reconciler that resolves a reference  *)
(* to it counts on: Dependencies assumes the same of the objects it knows.  *)
ImplementsReference == Reference!Spec

AtRest == pc = "idle" /\ queue = "empty" /\ CacheIsCurrent

\* Nobody has changed anything in Thalassa without going through the cluster.
Undrifted == budget["drifts"] = MaxDrifts

(* A CR that is being deleted disappears, whatever calls fail on the way    *)
(* (reconcileDelete returns every error to the queue).                      *)
DeletionCompletes == (api.exists /\ api.deleting) ~> ~api.exists

(* Left alone, the controller comes to rest: no reconcile keeps finding     *)
(* something to change.  Only an adopted resource that is not there is      *)
(* looked for again and again.                                              *)
Settles == <>[](AtRest \/ (api.exists /\ Adopts(api) /\ ~Exists(api.spec.ref)))

-----------------------------------------------------------------------------
(* Why a resource is never forgotten: the inductive invariant of the       *)
(* proofs.  It needs StableMode and ReadOwnWrites.                         *)

\* A version of the object the API server can have held: only our finalizer
\* comes with an identity we created, adoption never adds it.
WellFormed(obj) ==
    /\ obj.fin => obj.exists
    /\ IF Adopts(obj) THEN ~obj.fin /\ obj.status.id \in ExtIds \cup {NoId}
       ELSE obj.status.id \in OwnIds \cup {NoId} /\ (~obj.fin => obj.status.id = NoId)

\* A cache that shows our last write agrees with the API server on what only
\* the controller writes; deletion is never taken back.
CacheAgrees ==
    /\ WellFormed(api) /\ WellFormed(cache)
    /\ fresh => api.exists
    /\ cache.exists => Adopts(cache) = Adopts(api)
    /\ ~unseen => cache.fin = api.fin
    /\ ~unseen /\ cache.fin => /\ cache.status.id = api.status.id
                               /\ cache.deleting => api.deleting

AdoptPoints == {"getExternal", "writeAdopted", "writeAdoptedReady"}

DeletePoints == {"delete", "waitDeleted", "removeFinalizer"}

\* Program points that work on an identity the CR records.
IdentityPoints == {"waitCreated", "getCreated", "writeCreated", "get", "waitEndpoint",
                   "writeNotFound", "writeResourceStatus", "writeUpdating", "update",
                   "writeUpdated", "waitUpdated", "refetch", "writeRefetched",
                   "writeSynced", "attach", "accept", "reject", "delete", "waitDeleted"}

CreatePoints == {"writeCreating", "listVolumeTypes", "create", "writeResourceId"}

\* Program points a reconcile reaches only with the finalizer in place.
FinalizerPoints == IdentityPoints \cup CreatePoints \cup DeletePoints \cup {"getRegion"}

\* The worker's copy still agrees with the API server on the same things.
WorkerAgrees == pc # "idle" =>
    /\ WellFormed(mem)
    /\ Adopts(mem) = Adopts(api)
    /\ Adopts(mem) = (pc \in AdoptPoints)
    /\ mem.fin = api.fin
    /\ mem.fin /\ pc \notin {"writeResourceId", "writeForgotten"} =>
           mem.status.id = api.status.id
    /\ pc \in FinalizerPoints => mem.fin
    /\ pc \in IdentityPoints => mem.status.id # NoId
    /\ pc \in CreatePoints => api.status.id = NoId
    /\ pc = "writeResourceId" => mem.status.id # NoId /\ cloud[mem.status.id].phase # "none"
    /\ pc = "writeForgotten" => mem.fin /\ mem.status.id = NoId /\ ~Exists(api.status.id)
    /\ pc \in DeletePoints => api.deleting
    /\ pc = "removeFinalizer" => ~Exists(mem.status.id)

LeakInv == ReconcilerTypeOK /\ CacheAgrees /\ WorkerAgrees /\ NoLeak

\* What has been lost was created once, so Thalassa does not hand it out again: with
\* this a step of the reconciler is one of the lifecycle.
HandedOut == \A i \in OwnIds \cap lost : cloud[i].phase # "none"

LifecycleInv == LeakInv /\ HandedOut
-----------------------------------------------------------------------------
(* Why the controller rests only when there is nothing left to do: the      *)
(* parts of the inductive invariant the kinds share.  It builds on LeakInv. *)

\* Nobody has suspended the CR yet.
NeverSuspended == budget["toggles"] = MaxToggles

\* One call at most has failed.  A second failure like the first leaves the Error
\* condition as it is, and then the reconcilers requeue nothing.
OneFault == budget["faults"] + 1 >= MaxFaults

\* What is left of a disturbance, once it has been spent, does not come back.
Calm == Undrifted /\ NeverSuspended /\ OneFault

WithinBounds == \A k \in Interferences : budget[k] <= Bounds[k]

\* A copy of the object is an earlier version of it or of another of its name;
\* what a user writes has a generation of its own.
Earlier(obj) == obj.exists =>
    /\ obj.uid <= api.uid
    /\ api.exists /\ obj.uid = api.uid =>
           /\ obj.gen <= api.gen
           /\ obj.gen = api.gen => obj.spec = api.spec /\ obj.deleting = api.deleting

\* Only the controller writes the status.
CacheVersion ==
    /\ Earlier(cache)
    /\ ~unseen /\ cache.exists /\ api.exists /\ cache.uid = api.uid => cache.status = api.status
    /\ api.deleting => api.fin
    /\ cache.deleting => cache.fin
    /\ NeverSuspended => ~api.suspended /\ ~cache.suspended

\* The worker has the version the cache has, or the queue holds the event that
\* changed it.
WorkerVersion == pc # "idle" =>
    /\ Earlier(mem)
    /\ mem.exists /\ mem.status.obsGen = mem.gen
    /\ queue = "empty" /\ cache.exists => mem.uid = cache.uid /\ mem.gen = cache.gen
    /\ pc \notin DeletePoints \cup {"writeError"} => ~mem.deleting

Intact(i) == i \in Ids /\ cloud[i].phase \in Standing

\* Program points that need the resource the worker's copy records, if any.
WorkPoints == (IdentityPoints \ DeletePoints) \cup {"getRegion", "writeResourceId"}

\* Nothing the controller provisions disappears but by its own deletion.
Kept == Undrifted =>
    /\ api.exists /\ api.fin /\ api.status.id # NoId =>
           Intact(api.status.id) \/ (api.deleting /\ cache.deleting)
    /\ pc \in WorkPoints => mem.status.id = NoId \/ Intact(mem.status.id)
    /\ pc \in DeletePoints => cache.deleting
    /\ pc \notin {"writeNotFound", "writeForgotten"}

\* Before the first fault the Error condition is none a fault would leave as it is.
ErrorsAmong(reasons) == Undrifted /\ budget["faults"] = MaxFaults =>
    \A obj \in {api, cache, mem} : obj.status.conds["Error"].reason \in reasons

VersionInv == WithinBounds /\ CacheVersion /\ WorkerVersion /\ Kept

\* Nothing makes the worker look at the object again before somebody changes
\* something.
Unattended ==
    /\ pc = "idle" /\ queue = "empty"
    /\ api.exists /\ cache.exists /\ cache.uid = api.uid /\ cache.gen = api.gen

\* The last status writes of a reconcile that provisions.
LastWrites == {"writeCreated", "writeSynced"}

\* Program points from which on the resource is what the spec describes.
AppliedPoints == LastWrites \cup
    {"writeResourceId", "waitCreated", "getCreated", "writeUpdated", "waitUpdated", "refetch",
     "writeRefetched"}

\* agree is the pairs of a spec and a configuration a kind takes to be the same.
Applied(agree) == Undrifted =>
    /\ pc \in AppliedPoints => <<mem.spec, cloud[mem.status.id].cfg>> \in agree
    /\ pc = "writeResourceStatus" => fetched.cfg = cloud[mem.status.id].cfg
    /\ pc \in LastWrites => IsTrue(mem.status.conds, "Ready")

\* The CR describes the resource as it is, and says so.
Settled(agree) ==
    /\ Exists(api.status.id)
    /\ <<api.spec, cloud[api.status.id].cfg>> \in agree
    /\ IsTrue(api.status.conds, "Ready")
    /\ api.status.obsGen = api.gen
===============================================================================
