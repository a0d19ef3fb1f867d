-------------------------- MODULE ReconcilerProofs --------------------------
(***************************************************************************)
(* Each action of Reconciler, for every set of identities, specs and       *)
(* texts: it keeps the types; it keeps LeakInv, when the constants have    *)
(* StableMode (users do not move a name between provisioning and adoption) *)
(* and ReadOwnWrites (a reconcile starts from a cache that shows the       *)
(* controller's last write); and it is, to an observer of the object,      *)
(* Thalassa and lost, one of seven kinds of step (Effect), each a step of  *)
(* ManagedResource and of ReferencedObject.                                *)
(***************************************************************************)
EXTENDS Reconciler, TLAPS

-----------------------------------------------------------------------------
(* The condition helpers keep a conditions map a conditions map.           *)

LEMMA SetStatusConditionType ==
    ASSUME NEW conds \in Conditions, NEW type \in ConditionTypes,
           NEW status \in {"Absent", "True", "False"},
           NEW reason \in Texts, NEW message \in Texts
    PROVE  SetStatusCondition(conds, type, status, reason, message) \in Conditions
BY DEF SetStatusCondition, Conditions, Condition

LEMMA RemoveStatusConditionType ==
    ASSUME NEW conds \in Conditions, NEW type \in ConditionTypes
    PROVE  RemoveStatusCondition(conds, type) \in Conditions
BY TextsAssumption DEF RemoveStatusCondition, Absent, Conditions, Condition

LEMMA StandardConditionsType ==
    ASSUME NEW conds \in Conditions, NEW reason \in Texts
    PROVE  /\ Available(conds, reason) \in Conditions
           /\ Degraded(conds, reason) \in Conditions
           /\ Progressing(conds, reason) \in Conditions
<1>1. \A c \in Conditions, t \in ConditionTypes, s \in {"True", "False"}, r, m \in Texts :
         SetStatusCondition(c, t, s, r, m) \in Conditions
  BY SetStatusConditionType
<1>2. \A c \in Conditions, t \in ConditionTypes : RemoveStatusCondition(c, t) \in Conditions
  BY RemoveStatusConditionType
<1>3. "Available" \in ConditionTypes /\ "Progressing" \in ConditionTypes
      /\ "Degraded" \in ConditionTypes /\ "Ready" \in ConditionTypes
  BY DEF ConditionTypes
<1>4. Available(conds, reason) \in Conditions
  BY <1>1, <1>2, <1>3, TextsAssumption DEF Available
<1>5. Degraded(conds, reason) \in Conditions
  BY <1>1, <1>2, <1>3, TextsAssumption DEF Degraded
<1>6. Progressing(conds, reason) \in Conditions
  BY <1>1, <1>2, <1>3, TextsAssumption DEF Progressing
<1> QED BY <1>4, <1>5, <1>6

LEMMA EmptyStatusType == EmptyStatus \in Status
BY TextsAssumption DEF EmptyStatus, Status, NoConditions, Conditions, Condition, Absent, NoError

LEMMA BlankType ==
    ASSUME NEW uid \in Nat
    PROVE  Blank(uid) \in Object
BY EmptyStatusType, SpecsAssumption DEF Blank, Object

-----------------------------------------------------------------------------
(* What the changes to the in-memory object keep.                          *)

\* a is b but for the status.
Like(a, b) ==
    /\ a.exists = b.exists /\ a.deleting = b.deleting /\ a.fin = b.fin
    /\ a.spec = b.spec /\ a.uid = b.uid /\ a.gen = b.gen /\ a.suspended = b.suspended

LEMMA StatusChange ==
    ASSUME NEW obj \in Object, NEW status \in Status
    PROVE  /\ [obj EXCEPT !.status = status] \in Object
           /\ [obj EXCEPT !.status = status].status = status
           /\ Like([obj EXCEPT !.status = status], obj)
BY DEF Object, Like

LEMMA ConditionsChange ==
    ASSUME NEW obj \in Object, NEW conds \in Conditions
    PROVE  /\ [obj EXCEPT !.status.conds = conds] \in Object
           /\ [obj EXCEPT !.status.conds = conds].status.id = obj.status.id
           /\ Like([obj EXCEPT !.status.conds = conds], obj)
BY DEF Object, Status, Like

LEMMA ObservedChange ==
    ASSUME NEW obj \in Object
    PROVE  /\ Observed(obj) \in Object
           /\ Observed(obj).status.id = obj.status.id
           /\ Observed(obj).status.conds = obj.status.conds
           /\ Like(Observed(obj), obj)
BY DEF Observed, Object, Status, Like

LEMMA StandardChange ==
    ASSUME NEW obj \in Object, NEW reason \in Reasons
    PROVE  /\ SetAvailable(obj, reason) \in Object
           /\ SetDegraded(obj, reason) \in Object
           /\ SetProgressing(obj, reason) \in Object
           /\ SetAvailable(obj, reason).status.id = obj.status.id
           /\ SetDegraded(obj, reason).status.id = obj.status.id
           /\ SetProgressing(obj, reason).status.id = obj.status.id
           /\ Like(SetAvailable(obj, reason), obj)
           /\ Like(SetDegraded(obj, reason), obj)
           /\ Like(SetProgressing(obj, reason), obj)
<1>1. reason \in Texts /\ obj.status.conds \in Conditions
  BY ReasonsAssumption DEF Object, Status
<1>2. /\ Available(obj.status.conds, reason) \in Conditions
      /\ Degraded(obj.status.conds, reason) \in Conditions
      /\ Progressing(obj.status.conds, reason) \in Conditions
  BY <1>1, StandardConditionsType
<1> QED
  BY <1>2, ConditionsChange DEF SetAvailable, SetDegraded, SetProgressing

LEMMA ErrorChange ==
    ASSUME NEW obj \in Object, NEW reason \in Texts,
           NEW message \in Texts, NEW err \in Texts
    PROVE  /\ SetErrorCondition(obj, reason, message, err) \in Object
           /\ SetErrorCondition(obj, reason, message, err).status.id = obj.status.id
           /\ Like(SetErrorCondition(obj, reason, message, err), obj)
<1>1. obj.status.conds \in Conditions /\ "Error" \in ConditionTypes
  BY DEF Object, Status, ConditionTypes
<1>2. SetStatusCondition(obj.status.conds, "Error", "False", reason, message) \in Conditions
  BY <1>1, SetStatusConditionType
<1> QED
  BY <1>2 DEF SetErrorCondition, Object, Status, Like

-----------------------------------------------------------------------------
(* Type correctness.                                                       *)

LEMMA InitType == ReconcilerInit => ReconcilerTypeOK
<1> SUFFICES ASSUME ReconcilerInit PROVE ReconcilerTypeOK
  OBVIOUS
<1>1. Blank(0) \in Object
  BY BlankType
<1>2. api \in Object
  <2>1. PICK spec \in Specs : api = NewObject(1, spec)
    BY DEF ReconcilerInit, RuntimeInit
  <2>2. Blank(1) \in Object
    BY BlankType
  <2> QED BY <2>1, <2>2 DEF NewObject, Object
<1>3. budget \in [Interferences -> Nat]
  BY BoundsAssumption DEF ReconcilerInit, RuntimeInit, Bounds, Interferences
<1>4. NoResource \in Resource
  BY CfgsAssumption DEF NoResource, Resource, Phases, Standing
<1>5. CloudTypeOK
  BY CfgsAssumption, IdsAssumption DEF ReconcilerInit, CloudInit, CloudTypeOK, Ids, Resource, Phases, Standing
<1> QED
  BY <1>1, <1>2, <1>3, <1>4, <1>5 DEF ReconcilerInit, RuntimeInit, ReconcilerTypeOK, RuntimeTypeOK, ProgramPoints

LEMMA SpendType ==
    ASSUME budget \in [Interferences -> Nat], NEW kind \in Interferences,
           UNCHANGED budget \/ Spend(kind)
    PROVE  budget' \in [Interferences -> Nat]
BY DEF Spend

\* The parts of the state the worker's steps change one way or another.
LEMMA RequeueType == ASSUME ReconcilerTypeOK PROVE Requeued \in {"empty", "waiting", "ready"}
BY DEF ReconcilerTypeOK, RuntimeTypeOK, Requeued

LEMMA ReturnType ==
    ASSUME NEW requeue \in {"empty", "waiting", "ready"}, Return(requeue)
    PROVE  /\ pc' = "idle" /\ fresh' = FALSE
           /\ mem' \in Object /\ queue' \in {"empty", "waiting", "ready"}
BY BlankType DEF Return

LEMMA DequeueType ==
    ASSUME ReconcilerTypeOK, NEW obj \in Object, NEW at \in ProgramPoints,
           Dequeue(obj, at) \/ DequeueIgnored, UNCHANGED resourceVars
    PROVE  ReconcilerTypeOK'
BY DEF Dequeue, DequeueIgnored, ReconcilerTypeOK, RuntimeTypeOK, CloudTypeOK, objectVars, resourceVars,
       CacheIsCurrent

LEMMA PersistType ==
    ASSUME ReconcilerTypeOK, PersistStatus
    PROVE  api' \in Object /\ cache' \in Object /\ unseen' \in BOOLEAN
           /\ budget' \in [Interferences -> Nat]
<1>1. mem.status \in Status /\ api \in Object
  BY DEF ReconcilerTypeOK, RuntimeTypeOK, Object
<1> QED
  BY <1>1, StatusChange DEF PersistStatus, ReconcilerTypeOK, RuntimeTypeOK

LEMMA NoResourceType == NoResource \in Resource
BY CfgsAssumption DEF NoResource, Resource, Phases, Standing

LEMMA UpdateFailsType ==
    ASSUME ReconcilerTypeOK, UpdateObjectFails, UNCHANGED resourceVars
    PROVE  ReconcilerTypeOK'
BY SpendType, RequeueType, ReturnType
   DEF UpdateObjectFails, ReconcilerTypeOK, RuntimeTypeOK, objectVars, resourceVars,
       ProgramPoints, Interferences, CloudTypeOK

LEMMA ReturnErrorType ==
    ASSUME ReconcilerTypeOK, ReturnError, UNCHANGED budget \/ Spend("faults")
    PROVE  ReconcilerTypeOK'
BY SpendType, RequeueType, ReturnType, NoResourceType
   DEF ReturnError, ReconcilerTypeOK, RuntimeTypeOK, objectVars, ProgramPoints, Interferences,
       CloudTypeOK

LEMMA DequeueReportingType ==
    ASSUME ReconcilerTypeOK, NEW reason \in Texts, NEW message \in Texts,
           DequeueReporting(reason, message), UNCHANGED resourceVars
    PROVE  ReconcilerTypeOK'
<1>1. Observed(cache) \in Object
  BY ObservedChange DEF ReconcilerTypeOK, RuntimeTypeOK
<1>2. SetErrorCondition(Observed(cache), reason, message, message) \in Object
  BY <1>1, ErrorChange
<1>3. "writeError" \in ProgramPoints
  BY DEF ProgramPoints, StatusWrites
<1>4. CASE DequeueIgnored
  BY <1>1, <1>3, <1>4, DequeueType
<1> QED
  BY <1>2, <1>3, <1>4, DequeueType DEF DequeueReporting

LEMMA ReconcileType == ASSUME ReconcilerTypeOK, ReconcileAnyKind PROVE ReconcilerTypeOK'
<1> cache \in Object
  BY DEF ReconcilerTypeOK, RuntimeTypeOK
<1>1. Observed(cache) \in Object
  BY ObservedChange
<1>4. {"delete", "removeFinalizer", "getExternal", "addFinalizer"} \subseteq ProgramPoints
  BY DEF ProgramPoints, StatusWrites
<1>5. CASE ReconcileNothing
  BY <1>5, <1>1, <1>4, DequeueType DEF ReconcileNothing
<1>6. CASE ReconcileDelete
  BY <1>6, <1>1, <1>4, DequeueType DEF ReconcileDelete
<1>7. CASE ReconcileExternalReference
  BY <1>7, <1>1, <1>4, DequeueType DEF ReconcileExternalReference
<1>8. CASE ReconcileInvalidSpec
  BY <1>8, ReasonsAssumption, DequeueReportingType DEF ReconcileInvalidSpec, Reasons
<1>9. CASE ReconcileNoFinalizer
  BY <1>9, <1>1, <1>4, DequeueType DEF ReconcileNoFinalizer
<1>10. CASE AddFinalizer
  <2>1. CASE UpdateObjectFails
    BY <1>10, <2>1, UpdateFailsType DEF AddFinalizer
  <2>2. CASE UpdateObject([api EXCEPT !.fin = TRUE]) /\ Return(Requeued)
    <3>1. [api EXCEPT !.fin = TRUE] \in Object
      BY DEF ReconcilerTypeOK, RuntimeTypeOK, Object
    <3> QED
      BY <1>10, <2>2, <3>1, RequeueType, ReturnType
         DEF AddFinalizer, UpdateObject, ProgramPoints, CloudTypeOK, ReconcilerTypeOK,
             RuntimeTypeOK, resourceVars
  <2> QED BY <1>10, <2>1, <2>2 DEF AddFinalizer
<1> QED
  BY <1>5, <1>6, <1>7, <1>8, <1>9, <1>10 DEF ReconcileAnyKind

LEMMA CreateOrSyncType == ASSUME ReconcilerTypeOK, CreateOrSync PROVE ReconcilerTypeOK'
<1>1. Observed(cache) \in Object
  BY ObservedChange DEF ReconcilerTypeOK, RuntimeTypeOK
<1>2. SetProgressing(Observed(cache), "Creating") \in Object
  BY <1>1, StandardChange DEF Reasons
<1>3. {"writeCreating", "get"} \subseteq ProgramPoints
  BY DEF ProgramPoints, StatusWrites
<1> QED BY <1>1, <1>2, <1>3, DequeueType DEF CreateOrSync

LEMMA ReportErrorType ==
    ASSUME ReconcilerTypeOK, NEW reason \in Texts, NEW message \in Texts, NEW err \in Texts,
           ReportError(mem, reason, message, err)
    PROVE  /\ pc' \in ProgramPoints /\ mem' \in Object /\ fresh' \in BOOLEAN
           /\ queue' \in {"empty", "waiting", "ready"} /\ fetched' \in Resource
<1> mem \in Object /\ queue \in {"empty", "waiting", "ready"} /\ fetched \in Resource
  BY DEF ReconcilerTypeOK, RuntimeTypeOK
<1>1. SetErrorCondition(mem, reason, message, err) \in Object
  BY ErrorChange
<1> QED
  BY <1>1, ReturnType, NoResourceType
     DEF ReportError, Done, ProgramPoints, StatusWrites

LEMMA CloudCreateType ==
    ASSUME ReconcilerTypeOK, NEW i \in OwnIds, NEW cfg \in Cfgs, CloudCreate(i, cfg)
    PROVE  CloudTypeOK'
BY DEF ReconcilerTypeOK, CloudTypeOK, CloudCreate, CloudCreateIn, Resource, Phases, Standing, Ids

LEMMA CreateType ==
    ASSUME ReconcilerTypeOK, NEW cfg \in Cfgs, Create(cfg)
    PROVE  ReconcilerTypeOK'
<1> USE DEF ReconcilerTypeOK, RuntimeTypeOK, objectVars, resourceVars
<1>1. CASE WriteCreating
  BY <1>1, PersistType DEF WriteCreating, PersistAndGo, Step, ProgramPoints, CloudTypeOK
<1>2. CASE CreateResource(cfg)
  <2>1. PICK i \in OwnIds :
          /\ Step("create", "writeResourceId",
                  [mem EXCEPT !.status.id = i, !.status.res = "pending", !.status.err = NoError])
          /\ CloudCreate(i, cfg)
          /\ UNCHANGED <<objectVars, fresh, budget, fetched, lost>>
    BY <1>2 DEF CreateResource
  <2>2. mem' \in Object
    BY <2>1, TextsAssumption DEF Step, Object, Status, Ids, Phases, Standing, NoError
  <2>3. CloudTypeOK'
    BY <2>1, CloudCreateType
  <2> QED BY <2>1, <2>2, <2>3 DEF Step, ProgramPoints, StatusWrites
<1>3. CASE CreateResourceFails(cfg)
  <2>1. budget' \in [Interferences -> Nat]
    BY <1>3, SpendType DEF CreateResourceFails, Interferences
  <2>2. CloudTypeOK' /\ lost' \subseteq Ids \cup {NoId}
    BY <1>3, CloudCreateType DEF CreateResourceFails, CloudTypeOK, Ids
  <2>3. PICK e \in Errors : ReportError(mem, "FailedCreate", e, e)
    BY <1>3 DEF CreateResourceFails
  <2>4. e \in Texts /\ "FailedCreate" \in Texts
    BY ErrorsAssumption, ReasonsAssumption DEF Reasons
  <2>5. /\ pc' \in ProgramPoints /\ mem' \in Object /\ fresh' \in BOOLEAN
        /\ queue' \in {"empty", "waiting", "ready"} /\ fetched' \in Resource
    BY <2>3, <2>4, ReportErrorType
  <2> QED BY <1>3, <2>1, <2>2, <2>5 DEF CreateResourceFails
<1>4. CASE WriteResourceId
  BY <1>4, PersistType DEF WriteResourceId, PersistAndGo, Step, ProgramPoints, CloudTypeOK
<1>5. CASE WaitCreated
  <2>1. SetAvailable(mem, "Created") \in Object
    BY StandardChange DEF Reasons
  <2>2. mem' \in Object
    BY <1>5, <2>1, TextsAssumption DEF WaitCreated, Step, Object, Status, NoError
  <2> QED BY <1>5, <2>2 DEF WaitCreated, Step, ProgramPoints, StatusWrites, CloudTypeOK
<1>6. CASE WaitCreatedFails
  BY <1>6, ReturnErrorType DEF WaitCreatedFails
<1>7. CASE WriteCreated
  BY <1>7, PersistType, ReturnType, NoResourceType
     DEF WriteCreated, Done, ProgramPoints, CloudTypeOK
<1> QED
  BY <1>1, <1>2, <1>3, <1>4, <1>5, <1>6, <1>7 DEF Create

LEMMA SyncSpecType ==
    ASSUME NEW obj \in Object, NEW needsUpdate, SyncSpec(obj, needsUpdate)
    PROVE  mem' \in Object /\ pc' \in ProgramPoints
BY StandardChange DEF SyncSpec, Reasons, ProgramPoints, StatusWrites

LEMMA PhaseType ==
    ASSUME ReconcilerTypeOK, NEW i, Exists(i)
    PROVE  cloud[i] \in Resource /\ cloud[i].phase \in Phases
BY DEF ReconcilerTypeOK, CloudTypeOK, Resource, Exists, Standing

LEMMA ResChange ==
    ASSUME NEW obj \in Object, NEW res \in Phases
    PROVE  [obj EXCEPT !.status.res = res] \in Object
BY DEF Object, Status

LEMMA ResErrChange ==
    ASSUME NEW obj \in Object, NEW res \in Phases
    PROVE  [obj EXCEPT !.status.res = res, !.status.err = NoError] \in Object
BY TextsAssumption DEF Object, Status, NoError

LEMMA SyncType ==
    ASSUME ReconcilerTypeOK, NEW needsUpdate, NEW needsUpdateOnceWritten, NEW cfg \in Cfgs,
           Sync(needsUpdate, needsUpdateOnceWritten, cfg)
    PROVE  ReconcilerTypeOK'
<1> USE DEF ReconcilerTypeOK, RuntimeTypeOK, objectVars, resourceVars
<1> mem \in Object /\ "Synced" \in Reasons /\ "NotFound" \in Reasons
    /\ "GetFailed" \in Reasons /\ Reasons \subseteq Texts /\ Errors \subseteq Texts
  BY ReasonsAssumption, ErrorsAssumption DEF Reasons
<1>1. CASE GetResource(needsUpdate)
  <2> DEFINE resource == cloud[mem.status.id]
  <2>1. Exists(mem.status.id) /\ resource \in Resource /\ resource.phase \in Phases
    BY <1>1, PhaseType DEF GetResource
  <2>2. [mem EXCEPT !.status.res = resource.phase, !.status.err = NoError] \in Object
    BY <2>1, ResErrChange
  <2>3. mem' \in Object /\ pc' \in ProgramPoints /\ fetched' \in Resource
    BY <1>1, <2>1, <2>2, SyncSpecType DEF GetResource, ProgramPoints, StatusWrites
  <2> QED BY <1>1, <2>3 DEF GetResource, CloudTypeOK
<1>2. CASE GetNotFound
  <2>1. SetDegraded(mem, "NotFound") \in Object
    BY StandardChange
  <2> QED BY <1>2, <2>1 DEF GetNotFound, Step, ProgramPoints, StatusWrites, CloudTypeOK
<1>3. CASE GetFails
  <2>1. PICK e \in Errors : ReportError(mem, "GetFailed", "GetFailed", e)
    BY <1>3 DEF GetFails
  <2>2. /\ pc' \in ProgramPoints /\ mem' \in Object /\ fresh' \in BOOLEAN
        /\ queue' \in {"empty", "waiting", "ready"} /\ fetched' \in Resource
    BY <2>1, ReportErrorType
  <2> QED BY <1>3, <2>2, SpendType DEF GetFails, CloudTypeOK, Interferences
<1>4. CASE WriteNotFound
  <2>1. PICK e \in Errors : ReportError(mem, "NotFound", "NotFound", e)
    BY <1>4 DEF WriteNotFound
  <2>2. /\ pc' \in ProgramPoints /\ mem' \in Object /\ fresh' \in BOOLEAN
        /\ queue' \in {"empty", "waiting", "ready"} /\ fetched' \in Resource
    BY <2>1, ReportErrorType
  <2> QED BY <1>4, <2>2, PersistType DEF WriteNotFound, CloudTypeOK
<1>5. CASE WriteResourceStatus(needsUpdateOnceWritten)
  BY <1>5, PersistType, SyncSpecType, NoResourceType DEF WriteResourceStatus, CloudTypeOK
<1>6. CASE WriteUpdating
  BY <1>6, PersistType DEF WriteUpdating, PersistAndGo, Step, ProgramPoints, CloudTypeOK
<1>7. CASE UpdateResource(cfg)
  <2>1. PICK phase \in {"pending", cloud[mem.status.id].phase} :
          cloud' = [cloud EXCEPT ![mem.status.id] = [phase |-> phase, cfg |-> cfg]]
    BY <1>7 DEF UpdateResource, CloudUpdate, Standing
  <2>2. CloudTypeOK'
    BY <2>1 DEF CloudTypeOK, Resource, Phases, Standing
  <2>3. cloud'[mem.status.id].phase \in Phases
    BY <1>7, <2>1 DEF CloudTypeOK, Phases, Standing, UpdateResource, CloudUpdate
  <2>4. mem' \in Object
    BY <1>7, <2>3, ResErrChange DEF UpdateResource, Step
  <2> QED BY <1>7, <2>2, <2>4 DEF UpdateResource, Step, ProgramPoints, StatusWrites
<1>8. CASE Refetch
  <2>1. mem' \in Object
    BY <1>8, PhaseType, ResChange DEF Refetch, Step
  <2> QED BY <1>8, <2>1 DEF Refetch, Step, ProgramPoints, StatusWrites, CloudTypeOK
<1>9. CASE WriteRefetched
  <2>1. SetAvailable(mem, "Synced") \in Object
    BY StandardChange
  <2> QED BY <1>9, <2>1, PersistType
          DEF WriteRefetched, PersistAndGo, Step, ProgramPoints, StatusWrites, CloudTypeOK
<1>10. CASE WriteSynced
  BY <1>10, PersistType, ReturnType, NoResourceType
     DEF WriteSynced, Done, ProgramPoints, CloudTypeOK
<1> QED
  BY <1>1, <1>2, <1>3, <1>4, <1>5, <1>6, <1>7, <1>8, <1>9, <1>10 DEF Sync

LEMMA WriteUpdatedType ==
    ASSUME ReconcilerTypeOK, NEW next \in {"waitUpdated", "refetch"}, WriteUpdated(next)
    PROVE  ReconcilerTypeOK'
BY PersistType DEF WriteUpdated, PersistAndGo, Step, ProgramPoints, CloudTypeOK,
                   ReconcilerTypeOK, RuntimeTypeOK, resourceVars

LEMMA AdoptedChange ==
    ASSUME ReconcilerTypeOK, NEW res \in Phases
    PROVE  LET obj == [mem EXCEPT !.status.id = mem.spec.ref, !.status.err = NoError]
           IN  obj \in Object /\ [obj EXCEPT !.status.res = res] \in Object
BY SpecsAssumption, TextsAssumption DEF ReconcilerTypeOK, RuntimeTypeOK, Object, Status, NoError, Ids

LEMMA AdoptedReadyType ==
    ASSUME ReconcilerTypeOK, NEW obj \in Object, AdoptedReady(obj)
    PROVE  /\ pc' \in ProgramPoints /\ mem' \in Object /\ fresh' \in BOOLEAN
           /\ queue' \in {"empty", "waiting", "ready"} /\ fetched' \in Resource
<1>1. obj.status.conds \in Conditions /\ "Ready" \in ConditionTypes /\ {"", "Synced"} \subseteq Texts
  BY TextsAssumption, ReasonsAssumption DEF Object, Status, ConditionTypes, Reasons
<1>2. SetStatusCondition(obj.status.conds, "Ready", "True", "Synced", "") \in Conditions
  BY <1>1, SetStatusConditionType
<1>3. [obj EXCEPT !.status.conds = SetStatusCondition(@, "Ready", "True", "Synced", "")] \in Object
  BY <1>2, ConditionsChange
<1> QED
  BY <1>3, ReturnType, NoResourceType
     DEF AdoptedReady, Done, ProgramPoints, StatusWrites, ReconcilerTypeOK, RuntimeTypeOK

LEMMA AdoptType == ASSUME ReconcilerTypeOK, Adopt PROVE ReconcilerTypeOK'
<1> USE DEF ReconcilerTypeOK, RuntimeTypeOK, objectVars, resourceVars
<1>1. CASE GetExternal
  <2> DEFINE obj == [mem EXCEPT !.status.id = mem.spec.ref, !.status.err = NoError]
  <2>1. cloud[mem.spec.ref].phase \in Phases
    BY <1>1, PhaseType DEF GetExternal
  <2>2. obj \in Object /\ [obj EXCEPT !.status.res = cloud[mem.spec.ref].phase] \in Object
    BY <2>1, AdoptedChange
  <2>3. /\ pc' \in ProgramPoints /\ mem' \in Object /\ fresh' \in BOOLEAN
        /\ queue' \in {"empty", "waiting", "ready"} /\ fetched' \in Resource
    BY <1>1, <2>2, AdoptedReadyType DEF GetExternal, ProgramPoints, StatusWrites
  <2> QED BY <1>1, <2>3 DEF GetExternal, CloudTypeOK
<1>2. CASE GetExternalFails
  BY <1>2, ReturnErrorType DEF GetExternalFails
<1>3. CASE WriteAdopted
  BY <1>3, PersistType, AdoptedReadyType DEF WriteAdopted, CloudTypeOK
<1>4. CASE WriteAdoptedReady
  BY <1>4, PersistType, ReturnType, NoResourceType
     DEF WriteAdoptedReady, Done, ProgramPoints, CloudTypeOK
<1> QED
  BY <1>1, <1>2, <1>3, <1>4 DEF Adopt

LEMMA RemovedObjectType ==
    ASSUME ReconcilerTypeOK
    PROVE  [Blank(api.uid) EXCEPT !.spec = api.spec] \in Object
BY BlankType DEF ReconcilerTypeOK, RuntimeTypeOK, Object

LEMMA DeleteType == ASSUME ReconcilerTypeOK, Delete PROVE ReconcilerTypeOK'
<1> USE DEF ReconcilerTypeOK, RuntimeTypeOK, objectVars, resourceVars
<1>1. CASE DeleteResource
  <2>1. CloudTypeOK'
    BY <1>1 DEF DeleteResource, CloudDelete, CloudTypeOK, Resource, Phases, Standing
  <2> QED BY <1>1, <2>1 DEF DeleteResource, Step, ProgramPoints
<1>2. CASE DeleteResourceFails
  BY <1>2, ReturnErrorType DEF DeleteResourceFails
<1>3. CASE WaitDeleted
  BY <1>3 DEF WaitDeleted, Step, ProgramPoints, CloudTypeOK
<1>4. CASE WaitDeletedFails
  BY <1>4, ReturnErrorType DEF WaitDeletedFails
<1>5. CASE RemoveFinalizer
  <2>1. CASE UpdateObjectFails
    BY <1>5, <2>1, UpdateFailsType DEF RemoveFinalizer
  <2>2. CASE UpdateObject([Blank(api.uid) EXCEPT !.spec = api.spec]) /\ Return(queue)
    BY <1>5, <2>2, RemovedObjectType, ReturnType
       DEF RemoveFinalizer, UpdateObject, ProgramPoints, CloudTypeOK
  <2> QED BY <1>5, <2>1, <2>2 DEF RemoveFinalizer
<1> QED
  BY <1>1, <1>2, <1>3, <1>4, <1>5 DEF Delete

LEMMA LoseInFlightType ==
    ASSUME ReconcilerTypeOK, LoseInFlight
    PROVE  lost' \subseteq Ids \cup {NoId}
BY DEF LoseInFlight, ReconcilerTypeOK, RuntimeTypeOK, Object, Status

LEMMA StatusWriteType ==
    ASSUME ReconcilerTypeOK, WriteError \/ StatusWriteFails
    PROVE  ReconcilerTypeOK'
<1>1. CASE WriteError
  BY <1>1, PersistType, RequeueType, ReturnType, NoResourceType
     DEF WriteError, ProgramPoints, CloudTypeOK, ReconcilerTypeOK, RuntimeTypeOK
<1>2. CASE StatusWriteFails
  <2>1. budget' \in [Interferences -> Nat]
    BY <1>2, SpendType DEF StatusWriteFails, GiveUp, Interferences, ReconcilerTypeOK, RuntimeTypeOK
  <2> QED
    BY <1>2, <2>1, LoseInFlightType, RequeueType, ReturnType, NoResourceType
       DEF StatusWriteFails, GiveUp, ProgramPoints, CloudTypeOK, ReconcilerTypeOK,
           RuntimeTypeOK, objectVars
<1> QED BY <1>1, <1>2

LEMMA CrashType == ASSUME ReconcilerTypeOK, Crash PROVE ReconcilerTypeOK'
<1>1. budget' \in [Interferences -> Nat]
  BY SpendType DEF Crash, Restart, Interferences, ReconcilerTypeOK, RuntimeTypeOK
<1>2. Blank(0) \in Object
  BY BlankType
<1> QED
  BY <1>1, <1>2, LoseInFlightType, NoResourceType
     DEF Crash, Restart, ProgramPoints, CloudTypeOK, ReconcilerTypeOK, RuntimeTypeOK

LEMMA UserType ==
    ASSUME ReconcilerTypeOK, User
    PROVE  /\ api' \in Object /\ budget' \in [Interferences -> Nat]
           /\ fresh' = FALSE /\ UNCHANGED <<cache, unseen, queue, pc, mem>>
<1> api \in Object /\ budget \in [Interferences -> Nat]
    /\ "edits" \in Interferences /\ "toggles" \in Interferences
  BY DEF ReconcilerTypeOK, RuntimeTypeOK, Interferences
<1>0. api.gen + 1 \in Nat
  BY DEF Object
<1>1. ASSUME NEW spec \in Specs, UserEdit(spec) PROVE api' \in Object
  <2>1. api' = [api EXCEPT !.spec = spec, !.gen = api.gen + 1]
    BY <1>1 DEF UserEdit, UserWrites
  <2> QED BY <1>0, <2>1 DEF Object
<1>2. ASSUME NEW spec \in Specs, UserCreate(spec) PROVE api' \in Object
  <2>1. api.uid + 1 \in Nat /\ api' = NewObject(api.uid + 1, spec)
    BY <1>2 DEF UserCreate, UserWrites, Object
  <2>2. Blank(api.uid + 1) \in Object
    BY <2>1, BlankType
  <2> QED BY <2>1, <2>2 DEF NewObject, Object
<1>3. ASSUME UserDelete PROVE api' \in Object
  <2>1. CASE api.fin
    <3>1. api' = [api EXCEPT !.deleting = TRUE, !.gen = api.gen + 1]
      BY <1>3, <2>1 DEF UserDelete, UserWrites
    <3> QED BY <1>0, <3>1 DEF Object
  <2>2. CASE ~api.fin
    BY <1>3, <2>2, RemovedObjectType DEF UserDelete, UserWrites
  <2> QED BY <2>1, <2>2
<1>4. ASSUME UserToggleSuspend PROVE api' \in Object
  BY <1>4 DEF UserToggleSuspend, UserWrites, Object
<1> QED
  BY <1>1, <1>2, <1>3, <1>4, SpendType
     DEF User, UserEdit, UserCreate, UserDelete, UserToggleSuspend, UserWrites

LEMMA EnvironmentType ==
    ASSUME ReconcilerTypeOK, Watch \/ Timer \/ Users \/ Cloud
    PROVE  ReconcilerTypeOK'
<1> USE DEF ReconcilerTypeOK, RuntimeTypeOK, CloudTypeOK, objectVars, workerVars, runtimeVars,
            resourceVars
<1>1. CASE Watch
  BY <1>1 DEF Watch, CacheSync
<1>2. CASE Timer
  BY <1>2 DEF Timer, TimerFires
<1>3. CASE Users
  BY <1>3, UserType DEF Users
<1>4. CASE Cloud
  <2>1. PICK i \in Ids : Provisioned(i) \/ Removed(i)
    BY <1>4 DEF Cloud, CloudProgress
  <2>2. cloud' \in [Ids -> Resource]
    BY <2>1 DEF Provisioned, Removed, Resource, Phases, Standing
  <2> QED BY <1>4, <2>2 DEF Cloud
<1> QED
  BY <1>1, <1>2, <1>3, <1>4

LEMMA UnchangedType ==
    ASSUME ReconcilerTypeOK, UNCHANGED <<runtimeVars, resourceVars>>
    PROVE  ReconcilerTypeOK'
BY DEF ReconcilerTypeOK, RuntimeTypeOK, CloudTypeOK, objectVars, workerVars, runtimeVars,
       resourceVars

-----------------------------------------------------------------------------
\* What the invariant below assumes of users and of the cache.
Modes == StableMode /\ ReadOwnWrites

-----------------------------------------------------------------------------
(* What the invariant says of an object depends on few of its fields.      *)

LEMMA LikeAgrees ==
    ASSUME NEW a, NEW b, Like(a, b), a.status.id = b.status.id
    PROVE  WellFormed(a) = WellFormed(b) /\ Adopts(a) = Adopts(b) /\ a.fin = b.fin
BY DEF Like, WellFormed, Adopts

LEMMA BlankAgrees ==
    ASSUME NEW uid \in Nat, NEW spec \in Specs
    PROVE  /\ WellFormed([Blank(uid) EXCEPT !.spec = spec])
           /\ [Blank(uid) EXCEPT !.spec = spec].exists = FALSE
           /\ [Blank(uid) EXCEPT !.spec = spec].fin = FALSE
           /\ Adopts([Blank(uid) EXCEPT !.spec = spec]) = (spec.ref # NoId)
BY DEF WellFormed, Adopts, Blank, EmptyStatus

LEMMA InitLeak == ReconcilerInit => LeakInv
<1> SUFFICES ASSUME ReconcilerInit PROVE LeakInv
  OBVIOUS
<1>1. ReconcilerTypeOK
  BY InitType
<1>2. PICK spec \in Specs : api = NewObject(1, spec)
  BY DEF ReconcilerInit, RuntimeInit
<1>3. /\ WellFormed(api) /\ WellFormed(cache) /\ ~cache.exists
      /\ cache.fin = FALSE /\ api.fin = FALSE
  BY <1>2 DEF ReconcilerInit, RuntimeInit, NewObject, Blank, EmptyStatus, WellFormed, Adopts
<1>4. \A i \in OwnIds : ~Exists(i)
  BY IdsAssumption DEF ReconcilerInit, CloudInit, Exists, Standing, Ids
<1> QED
  BY <1>1, <1>3, <1>4 DEF LeakInv, CacheAgrees, WorkerAgrees, NoLeak, ReconcilerInit, RuntimeInit

-----------------------------------------------------------------------------
(* Three ways a step of the worker ends.                                   *)

LEMMA DequeueLeak ==
    ASSUME Modes, LeakInv, NEW obj \in Object, NEW at \in ProgramPoints,
           Dequeue(obj, at), UNCHANGED resourceVars, cache.exists,
           Like(obj, cache), obj.status.id = cache.status.id,
           Adopts(cache) <=> at \in AdoptPoints,
           at \in FinalizerPoints => cache.fin,
           at \in IdentityPoints => cache.status.id # NoId,
           at \in CreatePoints => cache.status.id = NoId,
           at \notin {"writeResourceId", "writeForgotten"},
           at \in DeletePoints => cache.deleting,
           at = "removeFinalizer" => cache.status.id = NoId \/ ~Exists(cache.status.id)
    PROVE  CacheAgrees' /\ WorkerAgrees' /\ NoLeak'
<1>1. ~unseen /\ pc = "idle"
  BY DEF Dequeue, CanDequeue, Modes
<1>2. /\ WellFormed(obj) /\ Adopts(obj) = Adopts(api) /\ obj.fin = api.fin
      /\ Adopts(obj) = Adopts(cache) /\ obj.fin = cache.fin
      /\ obj.fin => obj.status.id = api.status.id
      /\ cache.fin /\ cache.deleting => api.deleting
  BY <1>1, LikeAgrees DEF LeakInv, CacheAgrees
<1>3. UNCHANGED <<api, cache, unseen, cloud, lost>> /\ mem' = obj /\ pc' = at
  BY DEF Dequeue, objectVars, resourceVars
<1>4. CacheAgrees'
  <2>1. fresh' => api.exists
    BY DEF Dequeue, CacheIsCurrent
  <2> QED BY <1>3, <2>1 DEF LeakInv, CacheAgrees, WellFormed, Adopts
<1>5. ~Exists(NoId)
  BY IdsAssumption DEF Exists, Standing, Ids
<1>6. WorkerAgrees'
  <2>1. at = "removeFinalizer" => ~Exists(obj.status.id)
    BY <1>5
  <2>2. (~Exists(mem.status.id))' <=> ~Exists(obj.status.id)
    BY <1>3 DEF Exists, Standing
  <2>3. WellFormed(mem)' /\ Adopts(mem)' = Adopts(obj) /\ Adopts(api)' = Adopts(api)
    BY <1>2, <1>3 DEF WellFormed, Adopts
  <2>4. Adopts(mem)' = (pc' \in AdoptPoints)
    BY <1>3 DEF Adopts, Like
  <2> QED BY <1>2, <1>3, <2>1, <2>2, <2>3, <2>4 DEF WorkerAgrees, FinalizerPoints
<1>7. NoLeak'
  BY <1>1, <1>3 DEF LeakInv, NoLeak, Recorded, InFlight, Exists, Standing
<1> QED BY <1>4, <1>6, <1>7

LEMMA ReturnLeak ==
    ASSUME LeakInv, NEW requeue, Return(requeue), UNCHANGED objectVars,
           \A i \in OwnIds : Exists(i)' /\ ~Exists(i) => i \in lost',
           InFlight \subseteq lost', lost \subseteq lost'
    PROVE  CacheAgrees' /\ WorkerAgrees' /\ NoLeak'
<1>1. pc' = "idle" /\ fresh' = FALSE /\ UNCHANGED <<api, cache, unseen>>
  BY DEF Return, objectVars
<1>2. CacheAgrees'
  BY <1>1 DEF LeakInv, CacheAgrees, WellFormed, Adopts
<1>3. WorkerAgrees'
  BY <1>1 DEF WorkerAgrees
<1>4. NoLeak'
  BY <1>1 DEF LeakInv, NoLeak, Recorded, InFlight
<1> QED BY <1>2, <1>3, <1>4

LEMMA PersistLeak ==
    ASSUME LeakInv, PersistStatus, pc \notin {"idle", "writeForgotten"}
    PROVE  /\ WellFormed(api') /\ Adopts(api') = Adopts(mem) /\ api'.fin = mem.fin
           /\ api'.exists /\ api'.deleting = api.deleting
           /\ api'.status.id = mem.status.id
           /\ fresh' = FALSE => CacheAgrees'
           /\ \A i \in OwnIds : i \in Recorded \cup InFlight => i \in Recorded'
<1>1. api \in Object /\ mem \in Object /\ mem.status \in Status
  BY DEF LeakInv, ReconcilerTypeOK, RuntimeTypeOK, Object
<1>2. /\ api'.status = mem.status /\ api'.exists = api.exists /\ api'.fin = api.fin
      /\ api'.deleting = api.deleting /\ api'.spec = api.spec
  BY <1>1 DEF PersistStatus, Object
<1>3. /\ WellFormed(mem) /\ Adopts(mem) = Adopts(api) /\ mem.fin = api.fin
      /\ mem.fin /\ pc # "writeResourceId" => mem.status.id = api.status.id
      /\ pc = "writeResourceId" => mem.fin /\ api.status.id = NoId
  BY DEF LeakInv, WorkerAgrees, FinalizerPoints, IdentityPoints, CreatePoints
<1>4. WellFormed(api') /\ Adopts(api') = Adopts(mem)
  BY <1>2, <1>3 DEF WellFormed, Adopts, PersistStatus
<1>5. fresh' = FALSE => CacheAgrees'
  BY <1>2, <1>4 DEF PersistStatus, LeakInv, CacheAgrees, WellFormed, Adopts
<1>6. \A i \in OwnIds : i \in Recorded \cup InFlight => i \in Recorded'
  BY <1>2, <1>3, IdsAssumption DEF Recorded, InFlight, PersistStatus
<1> QED BY <1>2, <1>3, <1>4, <1>5, <1>6 DEF PersistStatus

\* A step of the worker that calls nothing on the API server and returns to
\* another program point.
LEMMA StepLeak ==
    ASSUME LeakInv, pc # "idle", UNCHANGED <<api, cache, unseen>>,
           fresh' \in {fresh, FALSE}, Like(mem', mem),
           pc' \notin {"idle", "writeResourceId", "writeForgotten"},
           pc \notin {"writeResourceId", "writeForgotten"}, mem'.status.id = mem.status.id,
           \A i \in OwnIds : Exists(i)' /\ ~Exists(i) => i \in lost',
           lost \subseteq lost',
           pc' \in AdoptPoints <=> pc \in AdoptPoints,
           pc' \in FinalizerPoints => pc \in FinalizerPoints,
           pc' \in IdentityPoints => pc \in IdentityPoints \/ mem.status.id # NoId,
           pc' \in CreatePoints => pc \in CreatePoints \/ api.status.id = NoId,
           pc' \in DeletePoints => pc \in DeletePoints,
           pc' = "removeFinalizer" => ~Exists(mem.status.id)'
    PROVE  CacheAgrees' /\ WorkerAgrees' /\ NoLeak'
<1>1. CacheAgrees'
  <2>1. fresh' => fresh
    BY DEF LeakInv, ReconcilerTypeOK, RuntimeTypeOK
  <2> QED BY <2>1 DEF LeakInv, CacheAgrees, WellFormed, Adopts
<1>2. /\ WellFormed(mem)' = WellFormed(mem) /\ Adopts(mem)' = Adopts(mem)
      /\ mem'.fin = mem.fin /\ Adopts(api)' = Adopts(api)
  BY DEF Like, WellFormed, Adopts
<1>3. /\ WellFormed(mem)' /\ mem'.fin = api'.fin
      /\ mem'.fin => mem'.status.id = api'.status.id
      /\ Adopts(mem)' = Adopts(api)' /\ Adopts(mem)' = (pc' \in AdoptPoints)
      /\ pc' \in FinalizerPoints => mem'.fin
      /\ pc' \in DeletePoints => api'.deleting
  BY <1>2 DEF LeakInv, WorkerAgrees
<1>4. WorkerAgrees'
  <2>1. pc' \in IdentityPoints => mem'.status.id # NoId
    BY DEF LeakInv, WorkerAgrees
  <2>2. pc' \in CreatePoints => api'.status.id = NoId
    BY DEF LeakInv, WorkerAgrees
  <2>3. (pc = "removeFinalizer" => ~Exists(mem.status.id))'
    OBVIOUS
  <2> QED BY <1>3, <2>1, <2>2, <2>3 DEF WorkerAgrees
<1>5. NoLeak'
  BY DEF LeakInv, NoLeak, Recorded, InFlight
<1> QED BY <1>1, <1>4, <1>5

\* A status write that leads to another program point.
LEMMA PersistAndGoLeak ==
    ASSUME LeakInv, pc \notin {"idle", "writeForgotten"}, PersistStatus, fresh' = FALSE,
           Like(mem', mem), mem'.status.id = mem.status.id,
           pc' \notin {"idle", "writeResourceId", "writeForgotten"}, UNCHANGED <<cloud, lost>>,
           pc' \in AdoptPoints <=> pc \in AdoptPoints,
           pc' \in FinalizerPoints => pc \in FinalizerPoints,
           pc' \in IdentityPoints => pc \in IdentityPoints \/ pc = "writeResourceId",
           pc' \in CreatePoints => pc \in CreatePoints \ {"writeResourceId"},
           pc' \notin DeletePoints
    PROVE  CacheAgrees' /\ WorkerAgrees' /\ NoLeak'
<1>1. CacheAgrees' /\ WellFormed(api') /\ Adopts(api') = Adopts(mem) /\ api'.fin = mem.fin
      /\ api'.status.id = mem.status.id
      /\ \A i \in OwnIds : i \in Recorded \cup InFlight => i \in Recorded'
  BY PersistLeak
<1>2. WellFormed(mem') = WellFormed(mem) /\ Adopts(mem') = Adopts(mem) /\ mem'.fin = mem.fin
  BY DEF Like, WellFormed, Adopts
<1>3. WorkerAgrees'
  BY <1>1, <1>2 DEF LeakInv, WorkerAgrees, DeletePoints, FinalizerPoints
<1>4. NoLeak'
  BY <1>1 DEF LeakInv, NoLeak, Exists, Standing
<1> QED BY <1>1, <1>3, <1>4

\* A status write Reconcile returns after.
LEMMA PersistAndReturnLeak ==
    ASSUME LeakInv, pc \notin {"idle", "writeForgotten"}, PersistStatus, NEW requeue, Return(requeue),
           UNCHANGED <<cloud, lost>>
    PROVE  CacheAgrees' /\ WorkerAgrees' /\ NoLeak'
<1>1. pc' = "idle" /\ fresh' = FALSE
  BY DEF Return
<1>2. CacheAgrees' /\ \A i \in OwnIds : i \in Recorded \cup InFlight => i \in Recorded'
  BY <1>1, PersistLeak
<1>3. NoLeak'
  BY <1>2 DEF LeakInv, NoLeak, Exists, Standing
<1> QED BY <1>1, <1>2, <1>3 DEF WorkerAgrees

LEMMA UnchangedLeak ==
    ASSUME LeakInv, UNCHANGED <<api, cache, unseen, pc, mem, fresh, cloud, lost>>
    PROVE  CacheAgrees' /\ WorkerAgrees' /\ NoLeak'
<1>1. CacheAgrees'
  BY DEF LeakInv, CacheAgrees, WellFormed, Adopts
<1>2. WorkerAgrees'
  BY DEF LeakInv, WorkerAgrees, WellFormed, Adopts, Exists, Standing
<1>3. NoLeak'
  BY DEF LeakInv, NoLeak, Recorded, InFlight, Exists, Standing
<1> QED BY <1>1, <1>2, <1>3

-----------------------------------------------------------------------------
(* One lemma per group of actions.                                         *)

LEMMA UpdateFailsLeak ==
    ASSUME LeakInv, UpdateObjectFails, UNCHANGED resourceVars, pc # "writeResourceId"
    PROVE  CacheAgrees' /\ WorkerAgrees' /\ NoLeak'
<1>1. InFlight = {} /\ UNCHANGED <<cloud, lost>> /\ Return(Requeued) /\ UNCHANGED objectVars
  BY DEF InFlight, UpdateObjectFails, resourceVars
<1> QED BY <1>1, ReturnLeak DEF Exists, Standing

LEMMA AddFinalizerLeak ==
    ASSUME LeakInv, AddFinalizer
    PROVE  CacheAgrees' /\ WorkerAgrees' /\ NoLeak'
<1>1. CASE UpdateObjectFails
  BY <1>1, UpdateFailsLeak DEF AddFinalizer
<1>2. CASE UpdateObject([api EXCEPT !.fin = TRUE]) /\ Return(Requeued)
  <2>1. api \in Object
    BY DEF LeakInv, ReconcilerTypeOK, RuntimeTypeOK
  <2>2. api' = [api EXCEPT !.fin = TRUE] /\ api.exists /\ ~Adopts(api)
    BY <1>2 DEF AddFinalizer, UpdateObject, LeakInv, CacheAgrees, WorkerAgrees, Adopts,
                AdoptPoints
  <2>3. /\ api'.fin /\ api'.exists = api.exists /\ api'.status = api.status
        /\ api'.spec = api.spec /\ api'.deleting = api.deleting
    BY <2>1, <2>2 DEF Object
  <2>4. pc' = "idle" /\ fresh' = FALSE /\ unseen' /\ UNCHANGED <<cache, cloud, lost>>
        /\ pc = "addFinalizer"
    BY <1>2 DEF AddFinalizer, UpdateObject, Return, resourceVars
  <2>5. CacheAgrees'
    BY <2>2, <2>3, <2>4 DEF LeakInv, CacheAgrees, WellFormed, Adopts
  <2>6. NoLeak'
    BY <2>2, <2>3, <2>4 DEF LeakInv, NoLeak, Recorded, InFlight, Exists, Standing
  <2> QED BY <2>4, <2>5, <2>6 DEF WorkerAgrees
<1> QED BY <1>1, <1>2 DEF AddFinalizer

LEMMA IgnoredLeak ==
    ASSUME LeakInv, DequeueIgnored \/ DequeueAgain, UNCHANGED resourceVars
    PROVE  CacheAgrees' /\ WorkerAgrees' /\ NoLeak'
BY UnchangedLeak DEF DequeueIgnored, DequeueAgain, objectVars, resourceVars

LEMMA DequeueReportingLeak ==
    ASSUME Modes, LeakInv, NEW reason \in Texts, NEW message \in Texts,
           DequeueReporting(reason, message), UNCHANGED resourceVars,
           cache.exists, ~Adopts(cache)
    PROVE  CacheAgrees' /\ WorkerAgrees' /\ NoLeak'
<1> DEFINE obj == SetErrorCondition(Observed(cache), reason, message, message)
<1>1. /\ Observed(cache) \in Object /\ Like(Observed(cache), cache)
      /\ Observed(cache).status.id = cache.status.id
  BY ObservedChange DEF LeakInv, ReconcilerTypeOK, RuntimeTypeOK
<1>2. obj \in Object /\ Like(obj, Observed(cache)) /\ obj.status.id = cache.status.id
  BY <1>1, ErrorChange
<1>3. Like(obj, cache)
  BY <1>1, <1>2 DEF Like
<1>4. CASE Dequeue(obj, "writeError")
  <2> HIDE DEF obj
  <2> QED BY <1>2, <1>3, <1>4, DequeueLeak
          DEF AdoptPoints, DeletePoints, FinalizerPoints, IdentityPoints, CreatePoints, ProgramPoints, StatusWrites
<1>5. CASE DequeueIgnored
  BY <1>5, IgnoredLeak
<1> QED BY <1>4, <1>5 DEF DequeueReporting

LEMMA ReconcileLeak ==
    ASSUME Modes, LeakInv, ReconcileAnyKind
    PROVE  CacheAgrees' /\ WorkerAgrees' /\ NoLeak'
<1> USE DEF AdoptPoints, DeletePoints, FinalizerPoints, IdentityPoints, CreatePoints
<1>0. {"delete", "removeFinalizer", "getExternal", "addFinalizer"} \subseteq ProgramPoints
  BY DEF ProgramPoints, StatusWrites
<1> cache \in Object
  BY DEF LeakInv, ReconcilerTypeOK, RuntimeTypeOK
<1>1. /\ Observed(cache) \in Object /\ Like(Observed(cache), cache)
      /\ Observed(cache).status.id = cache.status.id
  BY ObservedChange
<1>2. WellFormed(cache)
  BY DEF LeakInv, CacheAgrees
<1>4. CASE ReconcileNothing
  BY <1>4, IgnoredLeak DEF ReconcileNothing
<1>5. CASE ReconcileDelete
  <2>1. ~Adopts(cache)
    BY <1>2, <1>5 DEF ReconcileDelete, WellFormed
  <2> QED BY <1>1, <1>5, <2>1, <1>0, DequeueLeak DEF ReconcileDelete, Reconciles
<1>6. CASE ReconcileExternalReference
  BY <1>1, <1>6, <1>0, DequeueLeak DEF ReconcileExternalReference, Reconciles
<1>7. CASE ReconcileInvalidSpec
  BY <1>7, ReasonsAssumption, DequeueReportingLeak
     DEF ReconcileInvalidSpec, Reconciles, Reasons
<1>8. CASE ReconcileNoFinalizer
  BY <1>1, <1>8, <1>0, DequeueLeak DEF ReconcileNoFinalizer, Reconciles
<1>9. CASE AddFinalizer
  BY <1>9, AddFinalizerLeak
<1> QED
  BY <1>4, <1>5, <1>6, <1>7, <1>8, <1>9 DEF ReconcileAnyKind

LEMMA CreateOrSyncLeak ==
    ASSUME Modes, LeakInv, Provisions, CreateOrSync
    PROVE  CacheAgrees' /\ WorkerAgrees' /\ NoLeak'
<1> USE DEF AdoptPoints, DeletePoints, FinalizerPoints, IdentityPoints, CreatePoints
<1> DEFINE obj == SetProgressing(Observed(cache), "Creating")
<1>0. {"writeCreating", "get"} \subseteq ProgramPoints
  BY DEF ProgramPoints, StatusWrites
<1>1. /\ Observed(cache) \in Object /\ Like(Observed(cache), cache)
      /\ Observed(cache).status.id = cache.status.id
  BY ObservedChange DEF LeakInv, ReconcilerTypeOK, RuntimeTypeOK
<1>2. obj \in Object /\ Like(obj, Observed(cache)) /\ obj.status.id = cache.status.id
  BY <1>1, StandardChange DEF Reasons
<1>3. Like(obj, cache)
  BY <1>1, <1>2 DEF Like
<1>4. CASE cache.status.id = NoId
  <2> HIDE DEF obj
  <2>1. Dequeue(obj, "writeCreating") /\ UNCHANGED resourceVars /\ cache.exists
        /\ ~Adopts(cache) /\ cache.fin
    BY <1>4 DEF Provisions, CreateOrSync, Reconciles, obj
  <2> QED BY <1>2, <1>3, <1>4, <2>1, <1>0, DequeueLeak
<1>5. CASE cache.status.id # NoId
  BY <1>1, <1>5, <1>0, DequeueLeak DEF Provisions, CreateOrSync, Reconciles
<1> QED BY <1>4, <1>5

\* Every returned error, away from the one point where an identity is only in
\* the worker's memory.
LEMMA ErrorLeak ==
    ASSUME LeakInv, ReturnError, pc # "writeResourceId"
    PROVE  CacheAgrees' /\ WorkerAgrees' /\ NoLeak'
<1>1. InFlight = {} /\ UNCHANGED <<cloud, lost>>
  BY DEF InFlight, ReturnError
<1> QED BY <1>1, ReturnLeak DEF ReturnError, Exists, Standing

\* Where a call can fail whose error goes to the status.
ReportingPoints == {"getRegion", "listVolumeTypes", "create", "getCreated", "get", "update",
                    "refetch", "accept", "reject", "delete"}

LEMMA ReportErrorLeak ==
    ASSUME LeakInv, NEW reason \in Texts, NEW message \in Texts, NEW err \in Texts,
           ReportError(mem, reason, message, err), pc \in ReportingPoints,
           UNCHANGED objectVars, lost \subseteq lost',
           \A i \in OwnIds : Exists(i)' /\ ~Exists(i) => i \in lost'
    PROVE  CacheAgrees' /\ WorkerAgrees' /\ NoLeak'
<1> DEFINE obj == SetErrorCondition(mem, reason, message, err)
<1>1. Like(obj, mem) /\ obj.status.id = mem.status.id
  BY ErrorChange DEF LeakInv, ReconcilerTypeOK, RuntimeTypeOK
<1>2. CASE mem' = obj /\ pc' = "writeError" /\ fresh' = FALSE
  <2> HIDE DEF obj
  <2> QED BY <1>1, <1>2, StepLeak
          DEF objectVars, ReportingPoints, AdoptPoints, DeletePoints, FinalizerPoints, IdentityPoints,
              CreatePoints
<1>3. CASE Done
  BY <1>3, ReturnLeak DEF Done, InFlight, ReportingPoints
<1> QED BY <1>2, <1>3 DEF ReportError

\* A creation that is answered: the identity is only in the worker's memory.
LEMMA CreatedLeak ==
    ASSUME LeakInv, pc = "create", pc' = "writeResourceId",
           UNCHANGED <<api, cache, unseen, fresh, lost>>,
           NEW i \in OwnIds, Like(mem', mem), mem'.status.id = i,
           NEW cfg \in Cfgs, NEW phase \in Standing, CloudCreateIn(i, cfg, phase)
    PROVE  CacheAgrees' /\ WorkerAgrees' /\ NoLeak'
<1>1. CacheAgrees'
  BY DEF LeakInv, CacheAgrees, WellFormed, Adopts
<1>2. /\ ~Adopts(mem) /\ mem.fin /\ api.fin /\ api.status.id = NoId /\ WellFormed(mem)
      /\ ~Adopts(api)
  BY DEF LeakInv, WorkerAgrees, Adopts, AdoptPoints, FinalizerPoints, IdentityPoints, CreatePoints
<1>3. WellFormed(mem') /\ ~Adopts(mem') /\ mem'.fin
  BY <1>2 DEF WellFormed, Adopts, Like
<1>4. /\ cloud'[i].phase # "none"
      /\ \A j \in OwnIds : Exists(j)' => Exists(j) \/ j = i
  BY DEF CloudCreateIn, Exists, Standing, LeakInv, ReconcilerTypeOK, CloudTypeOK, Resource, Ids
<1>5. WorkerAgrees'
  BY <1>2, <1>3, <1>4, IdsAssumption
     DEF WorkerAgrees, Adopts, AdoptPoints, DeletePoints, FinalizerPoints, IdentityPoints, CreatePoints
<1>6. NoLeak'
  BY <1>4 DEF LeakInv, NoLeak, Recorded, InFlight
<1> QED BY <1>1, <1>5, <1>6

LEMMA CreateLeak ==
    ASSUME LeakInv, NEW cfg \in Cfgs, Create(cfg)
    PROVE  CacheAgrees' /\ WorkerAgrees' /\ NoLeak'
<1> USE DEF AdoptPoints, DeletePoints, FinalizerPoints, IdentityPoints, CreatePoints
<1> mem \in Object /\ mem.status \in Status
  BY DEF LeakInv, ReconcilerTypeOK, RuntimeTypeOK, Object
<1>1. CASE WriteCreating
  BY <1>1, PersistAndGoLeak DEF WriteCreating, PersistAndGo, Step, Like, resourceVars
<1>2. CASE CreateResource(cfg)
  <2>1. PICK i \in OwnIds :
          /\ Step("create", "writeResourceId",
                  [mem EXCEPT !.status.id = i, !.status.res = "pending", !.status.err = NoError])
          /\ CloudCreate(i, cfg)
          /\ UNCHANGED <<objectVars, fresh, budget, fetched, lost>>
    BY <1>2 DEF CreateResource
  <2>2. Like(mem', mem) /\ mem'.status.id = i
    BY <2>1 DEF Step, Like, Object, Status
  <2> QED BY <2>1, <2>2, CreatedLeak DEF Step, objectVars, CloudCreate, Standing
<1>3. CASE CreateResourceFails(cfg)
  <2>1. PICK e \in Errors : ReportError(mem, "FailedCreate", e, e)
    BY <1>3 DEF CreateResourceFails
  <2>2. e \in Texts /\ "FailedCreate" \in Texts
    BY ErrorsAssumption, ReasonsAssumption DEF Reasons
  <2>3. \A j \in OwnIds : Exists(j)' /\ ~Exists(j) => j \in lost'
    BY <1>3 DEF CreateResourceFails, CloudCreate, CloudCreateIn, Exists, Standing, LeakInv, ReconcilerTypeOK, CloudTypeOK, Resource
  <2>4. lost \subseteq lost' /\ pc = "create" /\ UNCHANGED objectVars
    BY <1>3 DEF CreateResourceFails
  <2> QED BY <2>1, <2>2, <2>3, <2>4, ReportErrorLeak DEF ReportingPoints
<1>4. CASE WriteResourceId
  BY <1>4, PersistAndGoLeak DEF WriteResourceId, PersistAndGo, Step, Like, resourceVars
<1>5. CASE WaitCreated
  <2>1. Like(SetAvailable(mem, "Created"), mem) /\ SetAvailable(mem, "Created") \in Object
        /\ SetAvailable(mem, "Created").status.id = mem.status.id
    BY StandardChange DEF Reasons
  <2>2. Like(mem', mem) /\ mem'.status.id = mem.status.id
    BY <1>5, <2>1 DEF WaitCreated, Step, Like, Object, Status
  <2> QED BY <1>5, <2>2, StepLeak DEF WaitCreated, Step, objectVars, resourceVars, Exists, Standing
<1>6. CASE WaitCreatedFails
  BY <1>6, ErrorLeak DEF WaitCreatedFails
<1>7. CASE WriteCreated
  BY <1>7, PersistAndReturnLeak DEF WriteCreated, Done
<1> QED BY <1>1, <1>2, <1>3, <1>4, <1>5, <1>6, <1>7 DEF Create

LEMMA SyncSpecLike ==
    ASSUME NEW needsUpdate, SyncSpec(mem, needsUpdate), mem \in Object
    PROVE  /\ Like(mem', mem) /\ mem'.status.id = mem.status.id
           /\ pc' \in {"writeUpdating", "writeSynced"}
BY StandardChange DEF SyncSpec, Reasons

LEMMA SyncLeak ==
    ASSUME LeakInv, NEW needsUpdate, NEW needsUpdateOnceWritten, NEW cfg \in Cfgs,
           Sync(needsUpdate, needsUpdateOnceWritten, cfg)
    PROVE  CacheAgrees' /\ WorkerAgrees' /\ NoLeak'
<1> USE DEF AdoptPoints, DeletePoints, FinalizerPoints, IdentityPoints, CreatePoints
<1> mem \in Object /\ mem.status \in Status
    /\ "Synced" \in Reasons /\ "NotFound" \in Reasons /\ "GetFailed" \in Reasons
    /\ Reasons \subseteq Texts /\ Errors \subseteq Texts
  BY ReasonsAssumption, ErrorsAssumption
     DEF LeakInv, ReconcilerTypeOK, RuntimeTypeOK, Object, Reasons
<1>1. CASE GetResource(needsUpdate)
  <2>1. /\ Like(mem', mem) /\ mem'.status.id = mem.status.id
        /\ pc' \in {"writeUpdating", "writeSynced", "writeResourceStatus"}
    <3>1. ASSUME NEW res
          PROVE  LET obj == [mem EXCEPT !.status.res = res, !.status.err = NoError]
                 IN  Like(obj, mem) /\ obj.status.id = mem.status.id
      BY DEF Like, Object, Status
    <3> QED BY <1>1, <3>1, SyncSpecLike DEF GetResource
  <2> QED BY <1>1, <2>1, StepLeak DEF GetResource, objectVars, Exists, Standing
<1>2. CASE GetNotFound
  <2>1. Like(mem', mem) /\ mem'.status.id = mem.status.id
    BY <1>2, StandardChange DEF GetNotFound, Step
  <2> QED BY <1>2, <2>1, StepLeak DEF GetNotFound, Step, objectVars, resourceVars, Exists, Standing
<1>3. CASE GetFails
  <2>1. PICK e \in Errors : ReportError(mem, "GetFailed", "GetFailed", e)
    BY <1>3 DEF GetFails
  <2>2. e \in Texts /\ "GetFailed" \in Texts
    OBVIOUS
  <2>3. pc = "get" /\ UNCHANGED <<objectVars, cloud, lost>>
    BY <1>3 DEF GetFails
  <2> QED BY <2>1, <2>2, <2>3, ReportErrorLeak DEF ReportingPoints, Exists, Standing
<1>4. CASE WriteNotFound
  <2>1. PICK e \in Errors : ReportError(mem, "NotFound", "NotFound", e)
    BY <1>4 DEF WriteNotFound
  <2>2. pc = "writeNotFound" /\ PersistStatus /\ UNCHANGED <<cloud, lost>>
    BY <1>4 DEF WriteNotFound
  <2>3. CASE Done
    BY <2>2, <2>3, PersistAndReturnLeak DEF Done
  <2>4. CASE /\ pc' = "writeError" /\ fresh' = FALSE
             /\ mem' = SetErrorCondition(mem, "NotFound", "NotFound", e)
    <3>1. Like(mem', mem) /\ mem'.status.id = mem.status.id
      BY <2>4, ErrorChange
    <3> QED BY <2>2, <2>4, <3>1, PersistAndGoLeak
  <2> QED BY <2>1, <2>3, <2>4 DEF ReportError
<1>5. CASE WriteResourceStatus(needsUpdateOnceWritten)
  BY <1>5, SyncSpecLike, PersistAndGoLeak DEF WriteResourceStatus
<1>6. CASE WriteUpdating
  BY <1>6, PersistAndGoLeak DEF WriteUpdating, PersistAndGo, Step, Like, resourceVars
<1>7. CASE UpdateResource(cfg)
  <2>1. Like(mem', mem) /\ mem'.status.id = mem.status.id
    BY <1>7 DEF UpdateResource, Step, Like, Object, Status
  <2>2. \A i \in OwnIds : Exists(i)' /\ ~Exists(i) => i \in lost'
    BY <1>7 DEF UpdateResource, CloudUpdate, Standing, Exists, LeakInv, ReconcilerTypeOK, CloudTypeOK, Resource
  <2> QED BY <1>7, <2>1, <2>2, StepLeak DEF UpdateResource, Step, objectVars
<1>8. CASE Refetch
  <2>1. Like(mem', mem) /\ mem'.status.id = mem.status.id
    BY <1>8 DEF Refetch, Step, Like, Object, Status
  <2> QED BY <1>8, <2>1, StepLeak DEF Refetch, Step, objectVars, resourceVars, Exists, Standing
<1>9. CASE WriteRefetched
  <2>1. Like(mem', mem) /\ mem'.status.id = mem.status.id
    BY <1>9, StandardChange DEF WriteRefetched, PersistAndGo, Step
  <2> QED BY <1>9, <2>1, PersistAndGoLeak DEF WriteRefetched, PersistAndGo, Step, resourceVars
<1>10. CASE WriteSynced
  BY <1>10, PersistAndReturnLeak DEF WriteSynced, Done
<1> QED
  BY <1>1, <1>2, <1>3, <1>4, <1>5, <1>6, <1>7, <1>8, <1>9, <1>10 DEF Sync

LEMMA WriteUpdatedLeak ==
    ASSUME LeakInv, NEW next \in {"waitUpdated", "refetch"}, WriteUpdated(next)
    PROVE  CacheAgrees' /\ WorkerAgrees' /\ NoLeak'
BY PersistAndGoLeak
   DEF WriteUpdated, PersistAndGo, Step, Like, resourceVars, AdoptPoints, DeletePoints,
       FinalizerPoints, IdentityPoints, CreatePoints

\* Adoption records the identity the spec names, never one of ours.
LEMMA AdoptLeak ==
    ASSUME LeakInv, Adopt
    PROVE  CacheAgrees' /\ WorkerAgrees' /\ NoLeak'
<1> USE DEF AdoptPoints, DeletePoints, FinalizerPoints, IdentityPoints, CreatePoints
<1> mem \in Object /\ mem.status \in Status
  BY DEF LeakInv, ReconcilerTypeOK, RuntimeTypeOK, Object
<1>0. ASSUME NEW obj \in Object
      PROVE  LET ready == [obj EXCEPT !.status.conds =
                               SetStatusCondition(@, "Ready", "True", "Synced", "")]
             IN  Like(ready, obj) /\ ready.status.id = obj.status.id
  BY DEF Like, Object, Status
<1>1. CASE GetExternal
  <2> DEFINE obj == [mem EXCEPT !.status.id = mem.spec.ref, !.status.err = NoError]
  <2>1. pc = "getExternal" /\ UNCHANGED <<api, cache, unseen, cloud, lost>> /\ UNCHANGED objectVars
    BY <1>1 DEF GetExternal, objectVars
  <2>2. cloud[mem.spec.ref].phase \in Phases
    BY <1>1, PhaseType DEF GetExternal, LeakInv
  <2>3. obj \in Object /\ Like(obj, mem) /\ obj.status.id = mem.spec.ref
    BY <2>2, AdoptedChange DEF LeakInv, Like, Object, Status
  <2>4. LET adopted == [obj EXCEPT !.status.res = cloud[mem.spec.ref].phase]
        IN  Like(adopted, obj) /\ adopted.status.id = obj.status.id
    BY <2>3 DEF Like, Object, Status
  <2>5. \/ Done
        \/ /\ fresh' = FALSE /\ pc' \in {"writeAdopted", "writeAdoptedReady"}
           /\ Like(mem', obj) /\ mem'.status.id = obj.status.id
    BY <1>0, <1>1, <2>3, <2>4 DEF GetExternal, AdoptedReady
  <2>6. CASE Done
    BY <2>1, <2>6, ReturnLeak DEF Done, InFlight, Exists, Standing
  <2>7. CASE /\ fresh' = FALSE /\ pc' \in {"writeAdopted", "writeAdoptedReady"}
             /\ Like(mem', obj) /\ mem'.status.id = obj.status.id
    <3>1. Adopts(mem) /\ ~mem.fin /\ mem.fin = api.fin /\ Adopts(api)
      BY <2>1 DEF LeakInv, WorkerAgrees, WellFormed, Adopts
    <3>2. mem.spec.ref \in ExtIds
      BY <3>1, SpecsAssumption DEF Adopts, Object
    <3>3. mem'.status.id \in ExtIds /\ mem'.fin = mem.fin /\ Adopts(mem') /\ mem'.spec.ref # NoId
      BY <2>3, <2>7, <3>1, <3>2 DEF Like, Adopts
    <3>4. WellFormed(mem')
      BY <3>1, <3>3 DEF WellFormed
    <3>5. WorkerAgrees'
      BY <2>1, <2>7, <3>1, <3>3, <3>4 DEF WorkerAgrees, Adopts
    <3>6. CacheAgrees'
      BY <2>1, <2>7 DEF LeakInv, CacheAgrees, WellFormed, Adopts
    <3>7. NoLeak'
      BY <2>1, <2>7 DEF LeakInv, NoLeak, Recorded, InFlight, Exists, Standing
    <3> QED BY <3>5, <3>6, <3>7
  <2> QED BY <2>5, <2>6, <2>7
<1>2. CASE GetExternalFails
  BY <1>2, ErrorLeak DEF GetExternalFails
<1>3. CASE WriteAdopted
  <2>1. pc = "writeAdopted" /\ PersistStatus /\ UNCHANGED <<cloud, lost>>
    BY <1>3 DEF WriteAdopted
  <2>2. CASE Done
    BY <2>1, <2>2, PersistAndReturnLeak DEF Done
  <2>3. CASE fresh' = FALSE /\ pc' = "writeAdoptedReady" /\ Like(mem', mem)
             /\ mem'.status.id = mem.status.id
    BY <2>1, <2>3, PersistAndGoLeak
  <2> QED BY <1>0, <1>3, <2>2, <2>3 DEF WriteAdopted, AdoptedReady
<1>4. CASE WriteAdoptedReady
  BY <1>4, PersistAndReturnLeak DEF WriteAdoptedReady, Done
<1> QED BY <1>1, <1>2, <1>3, <1>4 DEF Adopt

LEMMA DeleteLeak ==
    ASSUME LeakInv, Delete
    PROVE  CacheAgrees' /\ WorkerAgrees' /\ NoLeak'
<1> USE DEF AdoptPoints, DeletePoints, FinalizerPoints, IdentityPoints, CreatePoints
<1>1. CASE DeleteResource
  <2>1. \A i \in OwnIds : Exists(i)' /\ ~Exists(i) => i \in lost'
    BY <1>1 DEF DeleteResource, CloudDelete, Exists, Standing, LeakInv, ReconcilerTypeOK, CloudTypeOK, Resource
  <2> QED BY <1>1, <2>1, StepLeak DEF DeleteResource, Step, Like, objectVars
<1>2. CASE DeleteResourceFails
  BY <1>2, ErrorLeak DEF DeleteResourceFails
<1>3. CASE WaitDeleted
  BY <1>3, StepLeak DEF WaitDeleted, Step, Like, objectVars, resourceVars, Exists, Standing
<1>4. CASE WaitDeletedFails
  BY <1>4, ErrorLeak DEF WaitDeletedFails
<1>5. CASE RemoveFinalizer /\ UpdateObjectFails
  BY <1>5, UpdateFailsLeak DEF RemoveFinalizer
<1>6. CASE /\ RemoveFinalizer /\ Return(queue)
           /\ UpdateObject([Blank(api.uid) EXCEPT !.spec = api.spec])
  <2>1. pc = "removeFinalizer" /\ pc' = "idle" /\ fresh' = FALSE /\ unseen'
        /\ UNCHANGED <<cache, cloud, lost>>
    BY <1>6 DEF RemoveFinalizer, UpdateObject, Return, resourceVars
  <2>2. api.uid \in Nat /\ api.spec \in Specs
    BY DEF LeakInv, ReconcilerTypeOK, RuntimeTypeOK, Object
  <2>3. WellFormed(api') /\ api'.exists = FALSE /\ Adopts(api') = Adopts(api)
    BY <1>6, <2>2, BlankAgrees DEF UpdateObject, Adopts
  <2>4. CacheAgrees'
    BY <2>1, <2>3 DEF LeakInv, CacheAgrees, WellFormed, Adopts
  <2>5. mem.status.id = api.status.id /\ ~Exists(mem.status.id)
    BY <2>1 DEF LeakInv, WorkerAgrees
  <2>6. NoLeak'
    BY <2>1, <2>3, <2>5 DEF LeakInv, NoLeak, Recorded, InFlight, Exists, Standing
  <2> QED BY <2>1, <2>4, <2>6 DEF WorkerAgrees
<1> QED BY <1>1, <1>2, <1>3, <1>4, <1>5, <1>6 DEF Delete, RemoveFinalizer

LEMMA WriteErrorLeak ==
    ASSUME LeakInv, WriteError
    PROVE  CacheAgrees' /\ WorkerAgrees' /\ NoLeak'
BY PersistAndReturnLeak DEF WriteError

\* The only steps that forget an identity say so in lost.
LEMMA FailureLeak ==
    ASSUME LeakInv, StatusWriteFails \/ Crash
    PROVE  CacheAgrees' /\ WorkerAgrees' /\ NoLeak'
<1>1. UNCHANGED cloud /\ InFlight \subseteq lost' /\ lost \subseteq lost'
  BY DEF StatusWriteFails, Crash, LoseInFlight, InFlight
<1>2. CASE StatusWriteFails
  <2>1. Return(Requeued) /\ UNCHANGED objectVars
    BY <1>2 DEF StatusWriteFails, GiveUp
  <2> QED BY <1>1, <2>1, ReturnLeak DEF Exists, Standing
<1>3. CASE Crash
  <2>1. pc' = "idle" /\ fresh' = FALSE /\ cache' = api /\ unseen' = FALSE /\ UNCHANGED api
    BY <1>3 DEF Crash, Restart
  <2>2. CacheAgrees'
    BY <2>1 DEF LeakInv, CacheAgrees, WellFormed, Adopts
  <2>3. NoLeak'
    BY <1>1, <2>1 DEF LeakInv, NoLeak, Recorded, InFlight, Exists, Standing
  <2> QED BY <2>1, <2>2, <2>3 DEF WorkerAgrees
<1> QED BY <1>2, <1>3

LEMMA UserLeak ==
    ASSUME Modes, LeakInv, User, UNCHANGED resourceVars
    PROVE  CacheAgrees' /\ WorkerAgrees' /\ NoLeak'
<1> api \in Object
  BY DEF LeakInv, ReconcilerTypeOK, RuntimeTypeOK
<1>1. fresh' = FALSE /\ UNCHANGED <<cache, unseen, queue, pc, mem>> /\ UNCHANGED <<cloud, lost>>
  BY UserType DEF LeakInv, resourceVars
\* What a user does keeps all the worker relies on.
<1>2. ASSUME WellFormed(api'), Adopts(api') = Adopts(api), api'.fin = api.fin,
             api.fin => /\ api'.exists /\ api'.status.id = api.status.id
                        /\ api.deleting => api'.deleting
      PROVE  CacheAgrees' /\ WorkerAgrees' /\ NoLeak'
  <2>1. CacheAgrees'
    BY <1>1, <1>2 DEF LeakInv, CacheAgrees, WellFormed, Adopts
  <2>2. pc \in CreatePoints \cup DeletePoints => mem.fin
    BY DEF LeakInv, WorkerAgrees, FinalizerPoints, IdentityPoints, CreatePoints, DeletePoints
  <2>3. WorkerAgrees'
    BY <1>1, <1>2, <2>2 DEF LeakInv, WorkerAgrees, WellFormed, Adopts, Exists, Standing,
                            CreatePoints, DeletePoints
  <2>4. NoLeak'
    BY <1>1, <1>2 DEF LeakInv, NoLeak, Recorded, InFlight, Exists, Standing
  <2> QED BY <2>1, <2>3, <2>4
<1>3. WellFormed(api)
  BY DEF LeakInv, CacheAgrees
<1>4. ASSUME NEW spec \in Specs, UserEdit(spec)
      PROVE  CacheAgrees' /\ WorkerAgrees' /\ NoLeak'
  <2>1. api' = [api EXCEPT !.spec = spec, !.gen = @ + 1] /\ KeepsMode(spec) /\ api.exists
    BY <1>4 DEF UserEdit, UserWrites
  <2>2. /\ api'.spec = spec /\ api'.fin = api.fin /\ api'.exists = api.exists
        /\ api'.status = api.status /\ api'.deleting = api.deleting
    BY <2>1 DEF Object
  <2>3. Adopts(api') = Adopts(api)
    BY <2>1, <2>2 DEF KeepsMode, Modes, Adopts
  <2>4. WellFormed(api')
    BY <1>3, <2>2, <2>3 DEF WellFormed
  <2> QED BY <1>2, <2>1, <2>2, <2>3, <2>4
<1>5. ASSUME NEW spec \in Specs, UserCreate(spec)
      PROVE  CacheAgrees' /\ WorkerAgrees' /\ NoLeak'
  <2>1. api' = NewObject(api.uid + 1, spec) /\ KeepsMode(spec) /\ ~api.exists
    BY <1>5 DEF UserCreate, UserWrites
  <2>2. api'.spec = spec /\ api'.fin = FALSE /\ api'.exists /\ api'.status.id = NoId
    BY <2>1 DEF NewObject, Blank, EmptyStatus
  <2>3. Adopts(api') = Adopts(api)
    BY <2>1, <2>2 DEF KeepsMode, Modes, Adopts
  <2>4. api.fin = FALSE
    BY <1>3, <2>1 DEF WellFormed, Object
  <2>5. WellFormed(api')
    BY <2>2 DEF WellFormed
  <2> QED BY <1>2, <2>2, <2>3, <2>4, <2>5
<1>6. ASSUME UserDelete
      PROVE  CacheAgrees' /\ WorkerAgrees' /\ NoLeak'
  <2>1. CASE api.fin
    <3>1. api' = [api EXCEPT !.deleting = TRUE, !.gen = @ + 1]
      BY <1>6, <2>1 DEF UserDelete, UserWrites
    <3>2. /\ api'.spec = api.spec /\ api'.fin = api.fin /\ api'.exists = api.exists
          /\ api'.status = api.status /\ api'.deleting
      BY <3>1 DEF Object
    <3>3. WellFormed(api') /\ Adopts(api') = Adopts(api)
      BY <1>3, <3>2 DEF WellFormed, Adopts
    <3>4. api.exists
      BY <1>6 DEF UserDelete
    <3> QED BY <1>2, <3>2, <3>3, <3>4
  <2>2. CASE ~api.fin
    <3>1. api' = [Blank(api.uid) EXCEPT !.spec = api.spec]
      BY <1>6, <2>2 DEF UserDelete, UserWrites
    <3>2. api.uid \in Nat /\ api.spec \in Specs /\ api.fin = FALSE
      BY <2>2 DEF Object
    <3>3. WellFormed(api') /\ api'.fin = FALSE /\ Adopts(api') = Adopts(api)
      BY <3>1, <3>2, BlankAgrees DEF Adopts
    <3> QED BY <1>2, <3>2, <3>3
  <2> QED BY <2>1, <2>2
<1>7. ASSUME UserToggleSuspend
      PROVE  CacheAgrees' /\ WorkerAgrees' /\ NoLeak'
  <2>1. api' = [api EXCEPT !.suspended = ~@] /\ api.exists
    BY <1>7 DEF UserToggleSuspend, UserWrites
  <2>2. /\ api'.spec = api.spec /\ api'.fin = api.fin /\ api'.exists = api.exists
        /\ api'.status = api.status /\ api'.deleting = api.deleting
    BY <2>1 DEF Object
  <2>3. WellFormed(api') /\ Adopts(api') = Adopts(api)
    BY <1>3, <2>2 DEF WellFormed, Adopts
  <2> QED BY <1>2, <2>1, <2>2, <2>3
<1> QED BY <1>4, <1>5, <1>6, <1>7 DEF User

\* No resource comes into being, and none is forgotten to have been there.
OnlyRemoves == \A i \in Ids : /\ Exists(i)' => Exists(i)
                              /\ cloud'[i].phase = "none" => cloud[i].phase = "none"

\* Whatever the cloud does by itself.
LEMMA CloudLeak ==
    ASSUME LeakInv, UNCHANGED <<objectVars, pc, mem, fresh, lost>>, OnlyRemoves
    PROVE  CacheAgrees' /\ WorkerAgrees' /\ NoLeak'
<1> USE DEF OnlyRemoves
<1>1. CacheAgrees'
  BY DEF LeakInv, CacheAgrees, WellFormed, Adopts, objectVars
<1>2. Exists(mem.status.id)' => Exists(mem.status.id)
  BY DEF Exists
<1>3. pc = "writeResourceId" => mem.status.id \in Ids
  BY DEF LeakInv, WorkerAgrees, ReconcilerTypeOK, RuntimeTypeOK, Object, Status
<1>4. Exists(api.status.id)' => Exists(api.status.id)
  BY DEF Exists, objectVars
<1>5. WorkerAgrees'
  BY <1>2, <1>3, <1>4 DEF LeakInv, WorkerAgrees, WellFormed, Adopts, objectVars
<1>6. NoLeak'
  BY DEF LeakInv, NoLeak, Recorded, InFlight, objectVars, Ids
<1> QED BY <1>1, <1>5, <1>6

LEMMA EnvironmentLeak ==
    ASSUME Modes, LeakInv, Watch \/ Timer \/ Users \/ Cloud
    PROVE  CacheAgrees' /\ WorkerAgrees' /\ NoLeak'
<1>1. CASE Watch
  <2>1. /\ cache' = api /\ unseen' = FALSE
        /\ UNCHANGED <<api, pc, mem, fresh, cloud, lost>>
    BY <1>1 DEF Watch, CacheSync, resourceVars
  <2>2. CacheAgrees'
    BY <2>1 DEF LeakInv, CacheAgrees, WellFormed, Adopts
  <2>3. WorkerAgrees'
    BY <2>1 DEF LeakInv, WorkerAgrees, WellFormed, Adopts, Exists, Standing
  <2>4. NoLeak'
    BY <2>1 DEF LeakInv, NoLeak, Recorded, InFlight, Exists, Standing
  <2> QED BY <2>2, <2>3, <2>4
<1>2. CASE Timer
  BY <1>2, UnchangedLeak DEF Timer, TimerFires, objectVars, resourceVars
<1>3. CASE Users
  BY <1>3, UserLeak DEF Users
<1>4. CASE Cloud
  <2>1. OnlyRemoves
    BY <1>4 DEF OnlyRemoves, Cloud, CloudProgress, Provisioned, Removed, Exists, Standing,
                LeakInv, ReconcilerTypeOK, CloudTypeOK, Resource
  <2> QED BY <1>4, <2>1, CloudLeak DEF Cloud, runtimeVars, workerVars
<1> QED BY <1>1, <1>2, <1>3, <1>4

\* Never two besides the lost ones.
LEMMA LeakOne == LeakInv => OnePerCR
<1> SUFFICES ASSUME LeakInv, NEW i \in OwnIds \ lost, NEW j \in OwnIds \ lost,
                    Exists(i), Exists(j)
             PROVE  i = j
  BY DEF OnePerCR
<1>1. i \in Recorded \cup InFlight /\ j \in Recorded \cup InFlight
  BY DEF LeakInv, NoLeak
<1>2. InFlight = {} \/ Recorded \subseteq {NoId}
  BY DEF LeakInv, WorkerAgrees, InFlight, Recorded, FinalizerPoints, IdentityPoints, CreatePoints
<1> QED BY <1>1, <1>2, IdsAssumption DEF InFlight, Recorded

LEMMA OwnIdentity ==
    ASSUME LeakInv, pc \in {"update", "delete"}
    PROVE  mem.status.id \in OwnIds
BY DEF LeakInv, WorkerAgrees, WellFormed, IdentityPoints, AdoptPoints

-----------------------------------------------------------------------------
(* The calls that change the cloud, by the group they are in.              *)

LEMMA SharedCalls ==
    /\ ReconcileAnyKind \/ CreateOrSync \/ WriteError \/ StatusWriteFails \/ Adopt
         => UNCHANGED cloud
    /\ Watch \/ Timer \/ Users \/ Crash => UNCHANGED cloud
    /\ Delete => UNCHANGED cloud \/ DeleteResource
<1>1. ReconcileAnyKind \/ CreateOrSync \/ WriteError \/ StatusWriteFails \/ Adopt
        => UNCHANGED cloud
  BY DEF ReconcileAnyKind, ReconcileNothing, ReconcileDelete, ReconcileExternalReference,
         ReconcileInvalidSpec, ReconcileNoFinalizer, CreateOrSync, AddFinalizer, WriteError,
         StatusWriteFails, Adopt, GetExternal, GetExternalFails, ReturnError, WriteAdopted,
         WriteAdoptedReady, resourceVars
<1>2. Watch \/ Timer \/ Users \/ Crash => UNCHANGED cloud
  BY DEF Watch, Timer, Users, Crash, resourceVars
<1>3. Delete => UNCHANGED cloud \/ DeleteResource
  BY DEF Delete, DeleteResourceFails, WaitDeleted, WaitDeletedFails, RemoveFinalizer,
         ReturnError, resourceVars
<1> QED BY <1>1, <1>2, <1>3

LEMMA CreateCalls ==
    ASSUME NEW cfg, Create(cfg)
    PROVE  UNCHANGED cloud \/ \E i \in OwnIds : CloudCreate(i, cfg)
BY DEF Create, WriteCreating, CreateResource, CreateResourceFails, WriteResourceId, WaitCreated,
       WaitCreatedFails, WriteCreated, ReturnError, resourceVars

LEMMA SyncCalls ==
    ASSUME NEW needsUpdate, NEW needsUpdateOnceWritten, NEW cfg,
           Sync(needsUpdate, needsUpdateOnceWritten, cfg)
    PROVE  UNCHANGED cloud \/ UpdateResource(cfg)
BY DEF Sync, GetResource, GetNotFound, GetFails, WriteNotFound, WriteResourceStatus,
       WriteUpdating, Refetch, WriteRefetched, WriteSynced, ReturnError, resourceVars
-----------------------------------------------------------------------------
(* What a step does to the object, to Thalassa and to lost: all that the   *)
(* abstract specifications see of it.                                      *)

Removes == UNCHANGED <<api, lost>> /\ OnlyRemoves

Persists ==
    /\ pc \notin {"idle", "writeForgotten"}
    /\ PersistStatus
    /\ UNCHANGED <<cloud, lost>>

\* Answered, or carried out with the answer lost.
Creates(i) ==
    /\ pc = "create"
    /\ cloud[i].phase = "none"
    /\ cloud' = [cloud EXCEPT ![i] = cloud'[i]]
    /\ Exists(i)'
    /\ \/ lost' = lost /\ pc' = "writeResourceId" /\ mem'.status.id = i
       \/ lost' = lost \cup {i}
    /\ UNCHANGED api

Loses == LoseInFlight /\ UNCHANGED <<api, cloud>>

\* What the reconcilers have in common, beside WriteForgotten.
Effect ==
    \/ Removes \/ Persists \/ (\E i \in OwnIds : Creates(i)) \/ Loses
    \/ AddFinalizer \/ RemoveFinalizer \/ Users

-----------------------------------------------------------------------------
LEMMA OwnedFacts ==
    ASSUME LeakInv
    PROVE  /\ Owned \subseteq Recorded \cup InFlight
           /\ \A i, j \in Owned : i = j
           /\ pc \in CreatePoints => Recorded \subseteq {NoId}
           /\ Holding = "none" <=> Owned = {}
<1>1. Owned \subseteq Recorded \cup InFlight
  BY DEF LeakInv, NoLeak, Owned
<1>2. \A i, j \in Owned : i = j
  BY LeakOne DEF OnePerCR, Owned
<1>3. pc \in CreatePoints => Recorded \subseteq {NoId}
  BY DEF LeakInv, WorkerAgrees, Recorded, FinalizerPoints, IdentityPoints, CreatePoints
<1> QED BY <1>1, <1>2, <1>3 DEF Holding

\* Only an identity that is in flight is owned and not recorded.
LEMMA OwnedHere ==
    ASSUME LeakInv, pc # "writeResourceId"
    PROVE  Owned \subseteq Recorded
BY OwnedFacts DEF InFlight

LEMMA RemovesLifecycle ==
    ASSUME LeakInv, Removes
    PROVE  [Lifecycle!Next]_(Lifecycle!vars)
<1>1. Stage' = Stage /\ Recorded' = Recorded
  BY DEF Removes, Stage, Recorded
<1>2. Owned' \subseteq Owned /\ Strays' \subseteq Strays
  BY DEF Removes, OnlyRemoves, Owned, Strays, Ids, Exists
<1>3. CASE Owned' = Owned
  <2>1. Holding' = Holding
    BY <1>1, <1>3 DEF Holding
  <2> QED BY <1>1, <1>2, <2>1 DEF Lifecycle!Next, Lifecycle!RemoveStrays
<1>4. CASE Owned' = {}
  <2>1. Holding' = "none"
    BY <1>4 DEF Holding
  <2> QED BY <1>1, <1>2, <2>1 DEF Lifecycle!Next, Lifecycle!Remove
<1> QED BY <1>2, <1>3, <1>4, OwnedFacts

\* A status write changes nothing but what is recorded, and that once.
LEMMA PersistsFacts ==
    ASSUME LeakInv, Persists
    PROVE  /\ api.exists /\ api'.exists /\ api'.deleting = api.deleting
           /\ Adopts(api') = Adopts(api)
           /\ Owned' = Owned /\ Strays' = Strays
           /\ pc # "writeResourceId" => Recorded' = Recorded /\ Shown' = Shown
           /\ pc = "writeResourceId" => /\ ~Adopts(api) /\ api.status.id = NoId
                                        /\ api'.status.id \in OwnIds
                                        /\ Recorded' = {api'.status.id}
                                        /\ Owned \subseteq Recorded'
<1>1. /\ WellFormed(api') /\ Adopts(api') = Adopts(mem) /\ api'.fin = mem.fin
      /\ api'.exists /\ api'.deleting = api.deleting /\ api'.status.id = mem.status.id
      /\ \A i \in OwnIds : i \in Recorded \cup InFlight => i \in Recorded'
  BY PersistLeak DEF Persists
<1>2. api.exists /\ Owned' = Owned /\ Strays' = Strays
  BY DEF Persists, PersistStatus, Owned, Strays, Exists
<1>3. /\ Adopts(mem) = Adopts(api) /\ mem.fin = api.fin /\ WellFormed(api) /\ WellFormed(mem)
      /\ mem.fin /\ pc # "writeResourceId" => mem.status.id = api.status.id
  BY DEF LeakInv, WorkerAgrees, CacheAgrees, Persists
<1>4. CASE pc # "writeResourceId"
  <2>1. Recorded' = Recorded
    BY <1>1, <1>2, <1>3, <1>4 DEF Recorded
  <2>2. Shown' = Shown
    BY <1>1, <1>2, <1>3, <1>4 DEF Shown, WellFormed
  <2> QED BY <1>1, <1>2, <1>3, <1>4, <2>1, <2>2
<1>5. CASE pc = "writeResourceId"
  <2>1. /\ ~Adopts(mem) /\ mem.fin /\ mem.status.id # NoId /\ api.status.id = NoId
    BY <1>3, <1>5 DEF LeakInv, WorkerAgrees, WellFormed, FinalizerPoints, IdentityPoints, CreatePoints
  <2>2. mem.status.id \in OwnIds
    BY <1>3, <2>1 DEF WellFormed
  <2>3. Recorded' = {api'.status.id}
    BY <1>1, <2>1 DEF Recorded
  <2>4. Owned \subseteq Recorded'
    BY <1>1, OwnedFacts DEF Owned
  <2> QED BY <1>1, <1>2, <1>3, <1>5, <2>1, <2>2, <2>3, <2>4
<1> QED BY <1>4, <1>5

LEMMA PersistsLifecycle ==
    ASSUME LeakInv, Persists
    PROVE  [Lifecycle!Next]_(Lifecycle!vars)
<1>1. Stage' = Stage
  BY PersistsFacts DEF Stage
<1>2. CASE Holding' = Holding
  BY <1>1, <1>2, PersistsFacts DEF Lifecycle!vars
<1>3. CASE pc # "writeResourceId"
  <2>1. Holding' = Holding
    BY <1>3, PersistsFacts DEF Holding
  <2> QED BY <1>2, <2>1
<1>4. CASE pc = "writeResourceId" /\ Holding' # Holding
  <2>1. Owned # {} /\ Holding' = "recorded" /\ Holding = "unrecorded"
    BY <1>4, PersistsFacts DEF Holding
  <2> QED BY <1>1, <2>1, PersistsFacts DEF Lifecycle!Next, Lifecycle!Record
<1> QED BY <1>2, <1>3, <1>4

LEMMA CreatesLifecycle ==
    ASSUME LifecycleInv, NEW i \in OwnIds, Creates(i)
    PROVE  [Lifecycle!Next]_(Lifecycle!vars)
<1>1. LeakInv /\ HandedOut
  BY DEF LifecycleInv
<1>2. Owned = {} /\ Recorded = {NoId} /\ Stage # "absent"
  <2>1. mem.fin /\ mem.fin = api.fin /\ WellFormed(api) /\ api.status.id = NoId
    BY <1>1 DEF Creates, LeakInv, WorkerAgrees, CacheAgrees, FinalizerPoints, IdentityPoints, CreatePoints
  <2>2. api.exists /\ Recorded = {NoId}
    BY <2>1 DEF WellFormed, Recorded
  <2>3. Owned \subseteq {NoId}
    BY <1>1, <2>2, OwnedHere DEF Creates
  <2> QED BY <2>2, <2>3, IdsAssumption DEF Stage, Owned
<1>3. i \notin lost /\ Stage' = Stage /\ Recorded' = Recorded
  BY <1>1 DEF Creates, HandedOut, Stage, Recorded
<1>4. \A j \in OwnIds : j # i => (Exists(j)' <=> Exists(j))
  BY <1>1 DEF Creates, Exists, Ids, LeakInv, ReconcilerTypeOK, CloudTypeOK
<1>5. CASE lost' = lost
  <2>1. Owned' = {i} /\ Holding' = "unrecorded"
    BY <1>2, <1>3, <1>4, <1>5, IdsAssumption DEF Creates, Owned, Holding
  <2>2. Strays' = Strays
    <3>1. i \notin Strays /\ i \notin Strays'
      BY <1>3, <1>5 DEF Strays
    <3>2. \A j \in lost : j # i => (Exists(j)' <=> Exists(j))
      BY <1>1 DEF Creates, Exists, Ids, LeakInv, ReconcilerTypeOK, CloudTypeOK
    <3> QED BY <1>3, <1>5, <3>1, <3>2 DEF Strays
  <2>3. Holding = "none"
    BY <1>2 DEF Holding
  <2> QED BY <1>2, <1>3, <2>1, <2>2, <2>3 DEF Lifecycle!Next, Lifecycle!Provision
<1>6. CASE lost' = lost \cup {i}
  <2>1. Owned' = {} /\ Holding' = "none"
    BY <1>2, <1>4, <1>6 DEF Owned, Holding
  <2>2. Strays' = Strays \cup {i}
    <3>1. \A j \in lost : j # i => (Exists(j)' <=> Exists(j))
      BY <1>1 DEF Creates, Exists, Ids, LeakInv, ReconcilerTypeOK, CloudTypeOK
    <3> QED BY <1>3, <1>6, <3>1 DEF Creates, Strays
  <2>3. Holding = "none"
    BY <1>2 DEF Holding
  <2> QED BY <1>2, <1>3, <2>1, <2>2, <2>3 DEF Lifecycle!Next, Lifecycle!Forget
<1> QED BY <1>5, <1>6 DEF Creates

LEMMA LosesLifecycle ==
    ASSUME LeakInv, Loses
    PROVE  [Lifecycle!Next]_(Lifecycle!vars)
<1>1. Stage' = Stage /\ Recorded' = Recorded
  BY DEF Loses, Stage, Recorded
<1>2. CASE pc # "writeResourceId" \/ mem.status.id \in lost
  <2>1. UNCHANGED <<api, cloud, lost>>
    BY <1>2 DEF Loses, LoseInFlight
  <2> QED BY <2>1, RemovesLifecycle DEF Removes, OnlyRemoves, Exists
<1>3. CASE pc = "writeResourceId" /\ mem.status.id \notin lost
  <2> DEFINE i == mem.status.id
  <2>1. lost' = lost \cup {i} /\ UNCHANGED cloud
    BY <1>3 DEF Loses, LoseInFlight
  <2>2. /\ i \in OwnIds /\ Recorded = {NoId} /\ Stage # "absent"
    BY <1>3 DEF LeakInv, WorkerAgrees, CacheAgrees, WellFormed, FinalizerPoints, IdentityPoints, CreatePoints, AdoptPoints, Recorded,
                Stage
  <2>3. Owned \subseteq {i}
    BY <1>3, <2>2, OwnedFacts, IdsAssumption DEF InFlight, Owned
  <2>4. Owned' = {} /\ Holding' = "none"
    BY <2>1, <2>3 DEF Owned, Holding, Exists
  <2>5. CASE Exists(i)
    <3>1. Strays' = Strays \cup {i}
      BY <2>1, <2>5 DEF Strays, Exists
    <3>2. Holding # "recorded"
      BY <2>2, <2>3, IdsAssumption DEF Holding, Owned
    <3> QED BY <1>1, <2>2, <2>4, <3>1, <3>2 DEF Lifecycle!Next, Lifecycle!Forget
  <2>6. CASE ~Exists(i)
    <3>1. Strays' = Strays
      BY <2>1, <2>6 DEF Strays, Exists
    <3> QED BY <1>1, <2>4, <3>1 DEF Lifecycle!Next, Lifecycle!Remove
  <2> QED BY <2>5, <2>6
<1> QED BY <1>2, <1>3

\* A step that changes neither Thalassa nor what is lost.
LEMMA ObjectOnly ==
    ASSUME UNCHANGED <<cloud, lost>>
    PROVE  Owned' = Owned /\ Strays' = Strays
BY DEF Owned, Strays, Exists

\* An object without the finalizer owns nothing.
LEMMA WithoutFinalizer ==
    ASSUME LeakInv, ~api.fin
    PROVE  Owned = {} /\ api.status.id \notin OwnIds
<1>1. pc # "writeResourceId" /\ Recorded = {}
  BY DEF LeakInv, WorkerAgrees, FinalizerPoints, IdentityPoints, CreatePoints, Recorded
<1>2. api.status.id \notin OwnIds
  BY IdsAssumption DEF LeakInv, CacheAgrees, WellFormed
<1> QED BY <1>1, <1>2, OwnedHere

\* What the finalizer's two writes are seen as.
LEMMA FinalizerFacts ==
    ASSUME LeakInv, AddFinalizer \/ RemoveFinalizer
    PROVE  \/ Removes
           \/ /\ UNCHANGED <<cloud, lost>>
              /\ Owned = {}
              /\ \/ Stage' = Stage /\ Shown' = Shown
                 \/ Stage # "absent" /\ Stage' = "absent" /\ Shown' = "missing"
<1> api \in Object
  BY DEF LeakInv, ReconcilerTypeOK, RuntimeTypeOK
<1>1. UNCHANGED <<cloud, lost>>
  BY DEF AddFinalizer, RemoveFinalizer, resourceVars
<1>2. CASE UNCHANGED api
  BY <1>1, <1>2 DEF Removes, OnlyRemoves, Exists
<1>3. CASE AddFinalizer /\ ~UNCHANGED api
  <2>1. api' = [api EXCEPT !.fin = TRUE]
    BY <1>3 DEF AddFinalizer, UpdateObject, UpdateObjectFails, objectVars
  <2>2. ~api.fin
    BY <1>3, <2>1 DEF Object
  <2>3. Stage' = Stage /\ Shown' = Shown
    BY <2>1 DEF Stage, Shown, Adopts, Object
  <2> QED BY <1>1, <2>2, <2>3, WithoutFinalizer
<1>4. CASE RemoveFinalizer /\ ~UNCHANGED api
  <2>1. api' = [Blank(api.uid) EXCEPT !.spec = api.spec] /\ fresh /\ pc = "removeFinalizer"
    BY <1>4 DEF RemoveFinalizer, UpdateObject, UpdateObjectFails, objectVars
  <2>2. api.uid \in Nat /\ api.spec \in Specs
    BY DEF Object
  <2>3. api'.exists = FALSE
    BY <2>1, <2>2, BlankAgrees
  <2>4. api.exists /\ mem.fin /\ mem.fin = api.fin /\ mem.status.id = api.status.id
        /\ ~Exists(mem.status.id)
    BY <2>1 DEF LeakInv, CacheAgrees, WorkerAgrees, FinalizerPoints, DeletePoints
  <2>5. Owned = {}
    BY <2>1, <2>4, OwnedHere DEF Recorded, Owned
  <2> QED BY <1>1, <2>3, <2>4, <2>5 DEF Stage, Shown
<1> QED BY <1>2, <1>3, <1>4

LEMMA FinalizerLifecycle ==
    ASSUME LeakInv, AddFinalizer \/ RemoveFinalizer
    PROVE  [Lifecycle!Next]_(Lifecycle!vars)
<1>1. CASE Removes
  BY <1>1, RemovesLifecycle
<1>2. ASSUME UNCHANGED <<cloud, lost>>, Owned = {}
      PROVE  Holding = "none" /\ Holding' = "none" /\ Strays' = Strays
  BY <1>2, ObjectOnly DEF Holding
<1> QED
  BY <1>1, <1>2, FinalizerFacts DEF Lifecycle!Next, Lifecycle!Disappear, Lifecycle!vars

\* What users do: they never touch the status, and an object that disappears at
\* their request owns nothing.
LEMMA UsersFacts ==
    ASSUME Modes, LeakInv, Users
    PROVE  /\ UNCHANGED <<cloud, lost>>
           /\ \/ /\ Stage' = Stage \/ (Stage = "present" /\ Stage' = "deleting")
                 /\ Recorded' = Recorded /\ Shown' = Shown
              \/ /\ Owned = {}
                 /\ \/ Stage # "absent" /\ Stage' = "absent" /\ Shown' = "missing"
                    \/ Stage = "absent" /\ Stage' = "present"
                       /\ Shown = "missing" /\ Shown' = NoId
<1> api \in Object /\ WellFormed(api)
  BY DEF LeakInv, ReconcilerTypeOK, RuntimeTypeOK, CacheAgrees
<1>1. UNCHANGED <<cloud, lost>>
  BY DEF Users, resourceVars
<1>2. ASSUME NEW spec \in Specs, UserEdit(spec)
      PROVE  Stage' = Stage /\ Recorded' = Recorded /\ Shown' = Shown
  <2>1. api' = [api EXCEPT !.spec = spec, !.gen = @ + 1] /\ KeepsMode(spec)
    BY <1>2 DEF UserEdit, UserWrites
  <2>2. /\ api'.spec = spec /\ api'.fin = api.fin /\ api'.exists = api.exists
        /\ api'.status = api.status /\ api'.deleting = api.deleting
    BY <2>1 DEF Object
  <2> QED BY <2>1, <2>2 DEF Stage, Recorded, Shown, KeepsMode, Modes, Adopts
<1>3. ASSUME UserToggleSuspend
      PROVE  Stage' = Stage /\ Recorded' = Recorded /\ Shown' = Shown
  <2>1. api' = [api EXCEPT !.suspended = ~@]
    BY <1>3 DEF UserToggleSuspend, UserWrites
  <2> QED BY <2>1 DEF Stage, Recorded, Shown, Adopts, Object
<1>4. ASSUME NEW spec \in Specs, UserCreate(spec)
      PROVE  /\ Owned = {} /\ Stage = "absent" /\ Stage' = "present"
             /\ Shown = "missing" /\ Shown' = NoId
  <2>1. api' = NewObject(api.uid + 1, spec) /\ ~api.exists
    BY <1>4 DEF UserCreate, UserWrites
  <2>2. api'.exists /\ ~api'.deleting /\ api'.status.id = NoId
    BY <2>1 DEF NewObject, Blank, EmptyStatus
  <2>3. ~api.fin
    BY <2>1 DEF WellFormed
  <2> QED BY <2>1, <2>2, <2>3, WithoutFinalizer DEF Stage, Shown
<1>5. CASE UserDelete /\ api.fin
  <2>1. api' = [api EXCEPT !.deleting = TRUE, !.gen = @ + 1] /\ api.exists /\ ~api.deleting
    BY <1>5 DEF UserDelete, UserWrites
  <2>2. /\ api'.spec = api.spec /\ api'.fin = api.fin /\ api'.exists = api.exists
        /\ api'.status = api.status /\ api'.deleting
    BY <2>1 DEF Object
  <2>3. Stage = "present" /\ Stage' = "deleting" /\ Recorded' = Recorded /\ Shown' = Shown
    BY <2>1, <2>2 DEF Stage, Recorded, Shown, Adopts
  <2> QED BY <1>1, <2>3
<1>6. CASE UserDelete /\ ~api.fin
  <2>1. api' = [Blank(api.uid) EXCEPT !.spec = api.spec] /\ api.exists
    BY <1>6 DEF UserDelete, UserWrites
  <2>2. api'.exists = FALSE
    BY <2>1, BlankAgrees DEF Object
  <2> QED BY <1>1, <1>6, <2>1, <2>2, WithoutFinalizer DEF Stage, Shown
<1> QED BY <1>1, <1>2, <1>3, <1>4, <1>5, <1>6 DEF Users, User

LEMMA UsersLifecycle ==
    ASSUME Modes, LeakInv, Users
    PROVE  [Lifecycle!Next]_(Lifecycle!vars)
<1> DEFINE Goes  == Stage # "absent" /\ Stage' = "absent"
           Comes == Stage = "absent" /\ Stage' = "present"
           Stays == Stage' = Stage \/ (Stage = "present" /\ Stage' = "deleting")
<1>1. Owned' = Owned /\ Strays' = Strays
  BY UsersFacts, ObjectOnly
<1>2. CASE Recorded' = Recorded /\ Stays
  <2>1. Holding' = Holding
    BY <1>1, <1>2 DEF Holding
  <2> QED BY <1>1, <1>2, <2>1 DEF Lifecycle!Next, Lifecycle!MarkDeleted, Lifecycle!vars
<1>3. CASE Owned = {} /\ (Goes \/ Comes)
  <2>1. Holding = "none" /\ Holding' = "none"
    BY <1>1, <1>3 DEF Holding
  <2> QED
    BY <1>1, <1>3, <2>1 DEF Lifecycle!Next, Lifecycle!Disappear, Lifecycle!CreateAgain
<1>4. (Recorded' = Recorded /\ Stays) \/ (Owned = {} /\ (Goes \/ Comes))
  BY UsersFacts
<1> QED BY <1>2, <1>3, <1>4

-----------------------------------------------------------------------------
(* Every effect is a step of the lifecycle, and one of what others see.    *)

LEMMA EffectLifecycle ==
    ASSUME Modes, LifecycleInv, Effect
    PROVE  [Lifecycle!Next]_(Lifecycle!vars)
<1>1. LeakInv
  BY DEF LifecycleInv
<1>2. CASE Removes \/ Persists \/ Loses
  BY <1>1, <1>2, RemovesLifecycle, PersistsLifecycle, LosesLifecycle
<1>3. CASE \E i \in OwnIds : Creates(i)
  BY <1>3, CreatesLifecycle
<1>4. CASE AddFinalizer \/ RemoveFinalizer \/ Users
  BY <1>1, <1>4, FinalizerLifecycle, UsersLifecycle
<1> QED BY <1>2, <1>3, <1>4 DEF Effect

\* What has been lost stays handed out.
LEMMA EffectHandedOut ==
    ASSUME LifecycleInv, Effect
    PROVE  HandedOut'
<1> SUFFICES ASSUME NEW i \in OwnIds, i \in lost' PROVE cloud'[i].phase # "none"
  BY DEF HandedOut
<1>1. i \in lost => cloud[i].phase # "none"
  BY DEF LifecycleInv, HandedOut
<1>2. CASE UNCHANGED <<cloud, lost>>
  BY <1>1, <1>2
<1>3. CASE Removes
  BY <1>1, <1>3 DEF Removes, OnlyRemoves, Ids
<1>4. ASSUME NEW j \in OwnIds, Creates(j) PROVE cloud'[i].phase # "none"
  <2>1. Exists(j)' => cloud'[j].phase # "none"
    BY DEF Exists, Standing
  <2>2. j # i => cloud'[i] = cloud[i]
    BY <1>4 DEF Creates, LifecycleInv, LeakInv, ReconcilerTypeOK, CloudTypeOK, Ids
  <2> QED BY <1>1, <1>4, <2>1, <2>2 DEF Creates
<1>5. CASE Loses
  BY <1>1, <1>5 DEF Loses, LoseInFlight, LifecycleInv, LeakInv, WorkerAgrees
<1> QED
  BY <1>2, <1>3, <1>4, <1>5 DEF Effect, Persists, AddFinalizer, RemoveFinalizer, Users, resourceVars

LEMMA EffectReference ==
    ASSUME Modes, LeakInv, Effect
    PROVE  [Reference!Next]_Shown
<1>1. CASE UNCHANGED api
  BY <1>1 DEF Shown, Adopts
<1>2. CASE Persists
  <2>1. CASE pc = "writeResourceId"
    <3>1. Shown = NoId /\ Shown' \in OwnIds
      BY <1>2, <2>1, PersistsFacts DEF Shown
    <3> QED BY <3>1 DEF Reference!Next, Reference!Records
  <2> QED BY <1>2, <2>1, PersistsFacts
<1>3. CASE AddFinalizer \/ RemoveFinalizer
  BY <1>1, <1>3, FinalizerFacts DEF Removes, Reference!Next, Reference!Disappears
<1>4. CASE Users
  BY <1>4, UsersFacts DEF Reference!Next, Reference!Disappears, Reference!Appears
<1> QED BY <1>1, <1>2, <1>3, <1>4 DEF Effect, Removes, Creates, Loses

LEMMA InitLifecycle == ReconcilerInit => LifecycleInv /\ Lifecycle!Init /\ Reference!Init
<1> SUFFICES ASSUME ReconcilerInit PROVE LifecycleInv /\ Lifecycle!Init /\ Reference!Init
  OBVIOUS
<1>1. LeakInv /\ lost = {}
  BY InitLeak DEF ReconcilerInit
<1>2. PICK spec \in Specs : api = NewObject(1, spec)
  BY DEF ReconcilerInit, RuntimeInit
<1>3. api.exists /\ ~api.deleting /\ ~api.fin /\ api.status.id = NoId
  BY <1>2 DEF NewObject, Blank, EmptyStatus
<1>4. Owned = {} /\ Strays = {}
  BY <1>1, <1>3, WithoutFinalizer DEF Strays
<1> QED
  BY <1>1, <1>3, <1>4
     DEF LifecycleInv, HandedOut, Lifecycle!Init, Reference!Init, Stage, Holding, Shown

-----------------------------------------------------------------------------
(* Each shared action has one of the effects.                              *)

LEMMA QuietEffect ==
    ASSUME UNCHANGED <<api, cloud, lost>>
    PROVE  Effect
BY DEF Effect, Removes, OnlyRemoves, Exists

LEMMA ReconcileEffect ==
    ASSUME ReconcileAnyKind \/ CreateOrSync
    PROVE  Effect
<1>1. CASE AddFinalizer
  BY <1>1 DEF Effect
<1>2. CASE ~AddFinalizer
  BY <1>2, QuietEffect
     DEF ReconcileAnyKind, ReconcileNothing, ReconcileDelete, ReconcileExternalReference,
         ReconcileInvalidSpec, ReconcileNoFinalizer, CreateOrSync, DequeueReporting, Dequeue,
         DequeueIgnored, objectVars, resourceVars
<1> QED BY <1>1, <1>2

\* Creation, whatever phase the new resource is in.
LEMMA CreatedEffect ==
    ASSUME LeakInv, pc = "create", UNCHANGED api,
           NEW i \in OwnIds, NEW cfg, NEW phase \in Standing, CloudCreateIn(i, cfg, phase),
           \/ lost' = lost /\ pc' = "writeResourceId" /\ mem'.status.id = i
           \/ lost' = lost \cup {i}
    PROVE  Effect
<1>1. cloud \in [Ids -> Resource] /\ i \in Ids
  BY DEF LeakInv, ReconcilerTypeOK, CloudTypeOK, Ids
<1>2. Exists(i)' /\ cloud' = [cloud EXCEPT ![i] = cloud'[i]] /\ cloud[i].phase = "none"
  BY <1>1 DEF CloudCreateIn, Exists
<1> QED BY <1>2 DEF Effect, Creates

LEMMA CreateEffect ==
    ASSUME LeakInv, NEW cfg, Create(cfg)
    PROVE  Effect
<1>1. CASE WriteCreating \/ WriteResourceId \/ WriteCreated
  BY <1>1 DEF Effect, Persists, WriteCreating, WriteResourceId, WriteCreated, PersistAndGo, Step,
              resourceVars
<1>2. CASE CreateResource(cfg)
  <2>1. PICK i \in OwnIds :
          /\ Step("create", "writeResourceId",
                  [mem EXCEPT !.status.id = i, !.status.res = "pending", !.status.err = NoError])
          /\ CloudCreate(i, cfg)
          /\ UNCHANGED <<objectVars, fresh, budget, fetched, lost>>
    BY <1>2 DEF CreateResource
  <2>2. mem'.status.id = i
    BY <2>1 DEF Step, LeakInv, ReconcilerTypeOK, RuntimeTypeOK, Object, Status
  <2> QED BY <2>1, <2>2, CreatedEffect DEF Step, CloudCreate, Standing, objectVars
<1>3. CASE CreateResourceFails(cfg)
  BY <1>3, CreatedEffect, QuietEffect DEF CreateResourceFails, CloudCreate, Standing, objectVars
<1>4. CASE WaitCreated \/ WaitCreatedFails
  BY <1>4, QuietEffect DEF WaitCreated, WaitCreatedFails, ReturnError, objectVars, resourceVars
<1> QED BY <1>1, <1>2, <1>3, <1>4 DEF Create

LEMMA SyncEffect ==
    ASSUME LeakInv, NEW needsUpdate, NEW needsUpdateOnceWritten, NEW cfg \in Cfgs,
           Sync(needsUpdate, needsUpdateOnceWritten, cfg)
    PROVE  Effect
<1>1. CASE GetResource(needsUpdate) \/ GetNotFound \/ GetFails \/ Refetch
  BY <1>1, QuietEffect
     DEF GetResource, GetNotFound, GetFails, Refetch, objectVars, resourceVars
<1>2. CASE \/ WriteNotFound \/ WriteResourceStatus(needsUpdateOnceWritten) \/ WriteUpdating
           \/ WriteRefetched \/ WriteSynced
  BY <1>2 DEF Effect, Persists, WriteNotFound, WriteResourceStatus, WriteUpdating, WriteRefetched,
              WriteSynced, PersistAndGo, Step, resourceVars
<1>3. CASE UpdateResource(cfg)
  <2>1. OnlyRemoves
    BY <1>3 DEF UpdateResource, CloudUpdate, OnlyRemoves, Standing, Exists, LeakInv,
                ReconcilerTypeOK, CloudTypeOK, Resource
  <2> QED BY <1>3, <2>1 DEF UpdateResource, Effect, Removes, objectVars
<1> QED BY <1>1, <1>2, <1>3 DEF Sync

LEMMA WriteUpdatedEffect ==
    ASSUME NEW next, WriteUpdated(next)
    PROVE  Effect
BY DEF WriteUpdated, PersistAndGo, Step, Effect, Persists, resourceVars

LEMMA AdoptEffect ==
    ASSUME Adopt
    PROVE  Effect
<1>1. CASE GetExternal \/ GetExternalFails
  BY <1>1, QuietEffect DEF GetExternal, GetExternalFails, ReturnError, objectVars
<1>2. CASE WriteAdopted \/ WriteAdoptedReady
  BY <1>2 DEF WriteAdopted, WriteAdoptedReady, Effect, Persists
<1> QED BY <1>1, <1>2 DEF Adopt

LEMMA DeleteResourceEffect ==
    ASSUME LeakInv, DeleteResource
    PROVE  Effect
<1>1. OnlyRemoves
  BY DEF DeleteResource, CloudDelete, OnlyRemoves, Exists, LeakInv, ReconcilerTypeOK, CloudTypeOK,
         Resource
<1> QED BY <1>1 DEF DeleteResource, Effect, Removes, objectVars

LEMMA DeleteEffect ==
    ASSUME LeakInv, Delete
    PROVE  Effect
<1>1. CASE DeleteResource
  BY <1>1, DeleteResourceEffect
<1>2. CASE DeleteResourceFails \/ WaitDeleted \/ WaitDeletedFails
  BY <1>2, QuietEffect
     DEF DeleteResourceFails, WaitDeleted, WaitDeletedFails, ReturnError, objectVars, resourceVars
<1>3. CASE RemoveFinalizer
  BY <1>3 DEF Effect
<1> QED BY <1>1, <1>2, <1>3 DEF Delete

LEMMA FailureEffect ==
    ASSUME WriteError \/ ReturnError \/ StatusWriteFails \/ Crash
    PROVE  Effect
<1>1. CASE WriteError
  BY <1>1 DEF WriteError, Effect, Persists
<1>2. CASE ReturnError
  BY <1>2, QuietEffect DEF ReturnError, objectVars
<1>3. CASE StatusWriteFails \/ Crash
  BY <1>3 DEF StatusWriteFails, GiveUp, Crash, Restart, Effect, Loses, objectVars
<1> QED BY <1>1, <1>2, <1>3

LEMMA EnvironmentEffect ==
    ASSUME LeakInv, Watch \/ Timer \/ Users \/ Cloud
    PROVE  Effect
<1>1. CASE Watch \/ Timer
  BY <1>1, QuietEffect DEF Watch, Timer, CacheSync, TimerFires, objectVars, resourceVars
<1>2. CASE Users
  BY <1>2 DEF Effect
<1>3. CASE Cloud
  <2>1. OnlyRemoves
    BY <1>3 DEF OnlyRemoves, Cloud, CloudProgress, Provisioned, Removed, Exists, Standing,
                LeakInv, ReconcilerTypeOK, CloudTypeOK, Resource
  <2> QED BY <1>3, <2>1 DEF Cloud, Effect, Removes, runtimeVars, objectVars
<1> QED BY <1>1, <1>2, <1>3
===============================================================================
