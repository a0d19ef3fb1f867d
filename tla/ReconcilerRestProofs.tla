------------------------- MODULE ReconcilerRestProofs -------------------------
(***************************************************************************)
(* The reconciler comes to rest only when there is nothing left to do:     *)
(* each of its actions keeps the parts of the inductive invariant that the *)
(* kinds share (VersionInv and ErrorsAmong), and a reconcile that returns  *)
(* without asking to be called again has written what the resource is.     *)
(***************************************************************************)
EXTENDS ReconcilerProofs

-----------------------------------------------------------------------------
(* Interference is only ever used up.                                      *)

OnlySpends == \A k \in Interferences : budget'[k] <= budget[k]

LEMMA SpendOnly ==
    ASSUME budget \in [Interferences -> Nat], NEW kind \in Interferences,
           UNCHANGED budget \/ Spend(kind)
    PROVE  OnlySpends
BY DEF OnlySpends, Spend

\* What was calm enough after a step was so before it.
LEMMA CalmBefore ==
    ASSUME ReconcilerTypeOK, ReconcilerTypeOK', WithinBounds, OnlySpends
    PROVE  /\ WithinBounds'
           /\ Undrifted' => Undrifted
           /\ NeverSuspended' => NeverSuspended
           /\ OneFault' => OneFault
           /\ Calm' => Calm
           /\ budget'["faults"] = MaxFaults => budget["faults"] = MaxFaults
<1>1. /\ Bounds["faults"] = MaxFaults /\ Bounds["toggles"] = MaxToggles
      /\ Bounds["drifts"] = MaxDrifts /\ {"faults", "toggles", "drifts"} \subseteq Interferences
  BY DEF Bounds, Interferences
<1>2. \A k \in Interferences : budget[k] \in Nat /\ budget'[k] \in Nat /\ Bounds[k] \in Nat
  BY BoundsAssumption DEF ReconcilerTypeOK, RuntimeTypeOK, Bounds, Interferences
<1>3. \A k \in Interferences : budget[k] <= Bounds[k] /\ budget'[k] <= budget[k]
  BY DEF WithinBounds, OnlySpends
<1>4. \A k \in Interferences : budget'[k] <= Bounds[k]
  BY <1>2, <1>3
<1>5. WithinBounds'
  BY <1>4 DEF WithinBounds
<1>6. \A k \in Interferences : budget'[k] = Bounds[k] => budget[k] = Bounds[k]
  BY <1>2, <1>3
<1>7. (Undrifted' => Undrifted) /\ (NeverSuspended' => NeverSuspended)
      /\ (budget'["faults"] = MaxFaults => budget["faults"] = MaxFaults)
  BY <1>1, <1>6 DEF Undrifted, NeverSuspended
<1>8. OneFault' => OneFault
  BY <1>1, <1>2, <1>3, BoundsAssumption DEF OneFault
<1> QED BY <1>5, <1>7, <1>8 DEF Calm

\* The bounds themselves.
LEMMA CalmUnchanged ==
    ASSUME UNCHANGED budget
    PROVE  /\ Undrifted' = Undrifted /\ NeverSuspended' = NeverSuspended
           /\ OneFault' = OneFault
BY DEF Undrifted, NeverSuspended, OneFault

-----------------------------------------------------------------------------
(* What the changes to the in-memory object keep of the version it is.     *)

\* a is b but for the conditions and what Thalassa answered.
Copy(a, b) == Like(a, b) /\ a.status.obsGen = b.status.obsGen

SameError(a, b) == a.status.conds["Error"] = b.status.conds["Error"]

LEMMA StandardCopy ==
    ASSUME NEW obj \in Object, NEW reason
    PROVE  /\ Copy(SetAvailable(obj, reason), obj) /\ SameError(SetAvailable(obj, reason), obj)
           /\ Copy(SetDegraded(obj, reason), obj) /\ SameError(SetDegraded(obj, reason), obj)
           /\ Copy(SetProgressing(obj, reason), obj)
           /\ SameError(SetProgressing(obj, reason), obj)
           /\ IsTrue(SetAvailable(obj, reason).status.conds, "Ready")
<1>1. obj.status.conds \in Conditions
  BY DEF Object, Status
<1>2. /\ Available(obj.status.conds, reason)["Error"] = obj.status.conds["Error"]
      /\ Degraded(obj.status.conds, reason)["Error"] = obj.status.conds["Error"]
      /\ Progressing(obj.status.conds, reason)["Error"] = obj.status.conds["Error"]
      /\ Available(obj.status.conds, reason)["Ready"].status = "True"
  BY <1>1 DEF Available, Degraded, Progressing, SetStatusCondition, RemoveStatusCondition,
              Conditions, ConditionTypes
<1>3. \A c : /\ Like([obj EXCEPT !.status.conds = c], obj)
             /\ [obj EXCEPT !.status.conds = c].status.obsGen = obj.status.obsGen
             /\ [obj EXCEPT !.status.conds = c].status.conds = c
  BY DEF Object, Status, Like
<1> QED
  BY <1>2, <1>3 DEF SetAvailable, SetDegraded, SetProgressing, Copy, SameError, IsTrue

LEMMA ErrorCopy ==
    ASSUME NEW obj \in Object, NEW reason \in Texts, NEW message \in Texts, NEW err \in Texts
    PROVE  /\ Copy(SetErrorCondition(obj, reason, message, err), obj)
           /\ SetErrorCondition(obj, reason, message, err).status.conds["Error"].reason = reason
<1>1. obj.status.conds \in Conditions
  BY DEF Object, Status
<1>2. SetStatusCondition(obj.status.conds, "Error", "False", reason, message)["Error"].reason
        = reason
  BY <1>1 DEF SetStatusCondition, Conditions, ConditionTypes
<1> QED BY <1>2 DEF SetErrorCondition, Copy, Like, Object, Status

LEMMA ObservedCopy ==
    ASSUME NEW obj \in Object
    PROVE  /\ Observed(obj).status.obsGen = obj.gen /\ SameError(Observed(obj), obj)
           /\ Like(Observed(obj), obj)
BY DEF Observed, Object, Status, Like, SameError

-----------------------------------------------------------------------------
(* Versions: what the cache and the worker have of the object.             *)

LEMMA CacheQuiet ==
    ASSUME CacheVersion, UNCHANGED objectVars, NeverSuspended' => NeverSuspended
    PROVE  CacheVersion'
BY DEF CacheVersion, Earlier, objectVars

LEMMA CachePersist ==
    ASSUME ReconcilerTypeOK, CacheVersion, PersistStatus
    PROVE  /\ CacheVersion'
           /\ Like(api', api) /\ api'.status = mem.status /\ api'.exists
           /\ UNCHANGED cache /\ cache = api /\ unseen' = TRUE
<1>1. api \in Object /\ api' = [api EXCEPT !.status = mem.status]
  BY DEF PersistStatus, ReconcilerTypeOK, RuntimeTypeOK
<1>2. Like(api', api) /\ api'.status = mem.status
  BY <1>1 DEF Object, Like
<1>3. NeverSuspended' = NeverSuspended
  BY CalmUnchanged DEF PersistStatus
<1>4. UNCHANGED cache /\ cache = api /\ unseen' = TRUE /\ api.exists
  BY DEF PersistStatus, CacheIsCurrent
<1>5. CacheVersion'
  BY <1>2, <1>3, <1>4 DEF CacheVersion, Earlier, Like
<1> QED BY <1>2, <1>4, <1>5 DEF Like

\* A version stays a version when the object changes in its status at most.
LEMMA EarlierLike ==
    ASSUME NEW a, NEW b, Like(a, b), Like(api', api) \/ UNCHANGED api, Earlier(b)
    PROVE  /\ a.exists =>
                /\ a.uid <= api'.uid
                /\ api'.exists /\ a.uid = api'.uid =>
                       /\ a.gen <= api'.gen
                       /\ a.gen = api'.gen => a.spec = api'.spec /\ a.deleting = api'.deleting
BY DEF Earlier, Like

LEMMA DequeueVersion ==
    ASSUME ReconcilerTypeOK, CacheVersion, NEW obj, NEW at, Dequeue(obj, at),
           Like(obj, cache), obj.status.obsGen = cache.gen, cache.exists,
           at \notin DeletePoints => ~cache.deleting
    PROVE  CacheVersion' /\ WorkerVersion'
<1>1. UNCHANGED <<api, cache, unseen, budget>> /\ mem' = obj /\ pc' = at
  BY DEF Dequeue, objectVars
<1>2. CacheVersion'
  BY <1>1, CacheQuiet, CalmUnchanged DEF objectVars
<1>3. Earlier(mem)'
  BY <1>1, EarlierLike DEF Earlier, CacheVersion
<1> QED BY <1>1, <1>2, <1>3 DEF WorkerVersion, Like

\* A step of the worker that leaves the API server alone.
LEMMA StepVersion ==
    ASSUME CacheVersion, WorkerVersion, NeverSuspended' => NeverSuspended,
           pc # "idle", UNCHANGED objectVars, queue' = queue, Copy(mem', mem),
           pc \in DeletePoints \cup {"writeError"} => pc' \in DeletePoints \cup {"writeError"}
    PROVE  CacheVersion' /\ WorkerVersion'
<1>1. CacheVersion'
  BY CacheQuiet
<1>2. Earlier(mem)'
  BY EarlierLike DEF Earlier, WorkerVersion, Copy, objectVars
<1> QED BY <1>1, <1>2 DEF WorkerVersion, Copy, Like, objectVars

\* A status write that leads to another program point.
LEMMA PersistVersion ==
    ASSUME ReconcilerTypeOK, CacheVersion, WorkerVersion, PersistStatus,
           pc # "idle", queue' = queue, Copy(mem', mem),
           pc \notin DeletePoints \cup {"writeError"}
    PROVE  CacheVersion' /\ WorkerVersion'
<1>1. CacheVersion' /\ Like(api', api) /\ UNCHANGED cache
  BY CachePersist
<1>2. Earlier(mem)'
  BY <1>1, EarlierLike DEF Earlier, WorkerVersion, Copy
<1> QED BY <1>1, <1>2 DEF WorkerVersion, Copy, Like

\* What a reconcile that returns without a word leaves behind: the object has the
\* status that was written, and that status is one of its own generation.
LEMMA DoneVersion ==
    ASSUME ReconcilerTypeOK, CacheVersion, WorkerVersion, PersistStatus, Return(queue),
           pc \notin DeletePoints \cup {"idle", "writeError"}
    PROVE  /\ CacheVersion' /\ WorkerVersion'
           /\ Unattended' => /\ api'.status = mem.status
                             /\ api'.spec = mem.spec /\ ~api'.deleting
                             /\ api'.status.obsGen = api'.gen
<1>1. /\ CacheVersion' /\ Like(api', api) /\ UNCHANGED cache /\ cache = api
      /\ api'.status = mem.status /\ api'.exists
  BY CachePersist
<1>2. WorkerVersion'
  BY DEF WorkerVersion, Return
<1>3. ASSUME Unattended'
      PROVE  api'.spec = mem.spec /\ ~api'.deleting /\ mem.status.obsGen = api'.gen
  <2>1. queue = "empty"
    BY <1>3 DEF Unattended, Return
  <2>2. mem.uid = api.uid /\ mem.gen = api.gen /\ mem.exists /\ api.exists
    BY <1>1, <2>1 DEF WorkerVersion, Like
  <2>3. mem.spec = api.spec /\ mem.deleting = api.deleting
    BY <2>2 DEF WorkerVersion, Earlier
  <2> QED BY <1>1, <2>2, <2>3 DEF WorkerVersion, Like
<1> QED BY <1>1, <1>2, <1>3

\* Returning, or not beginning, whatever the queue is told.
LEMMA IdleVersion ==
    ASSUME CacheVersion, NeverSuspended' => NeverSuspended, UNCHANGED objectVars, pc' = "idle"
    PROVE  CacheVersion' /\ WorkerVersion'
BY CacheQuiet DEF WorkerVersion

LEMMA IdlePersistVersion ==
    ASSUME ReconcilerTypeOK, CacheVersion, PersistStatus, pc' = "idle"
    PROVE  CacheVersion' /\ WorkerVersion'
BY CachePersist DEF WorkerVersion

LEMMA AddFinalizerVersion ==
    ASSUME LeakInv, CacheVersion, UpdateObject([api EXCEPT !.fin = TRUE]), pc' = "idle"
    PROVE  CacheVersion' /\ WorkerVersion'
<1>1. api \in Object
  BY DEF LeakInv, ReconcilerTypeOK, RuntimeTypeOK
<1>2. /\ api'.exists = api.exists /\ api'.uid = api.uid /\ api'.gen = api.gen /\ api'.fin
      /\ api'.spec = api.spec /\ api'.deleting = api.deleting
      /\ api'.suspended = api.suspended
  BY <1>1 DEF UpdateObject, Object
<1>3. UNCHANGED <<cache, budget>> /\ unseen' = TRUE
  BY DEF UpdateObject
<1>4. NeverSuspended' = NeverSuspended
  BY <1>3, CalmUnchanged
<1> QED BY <1>2, <1>3, <1>4 DEF CacheVersion, Earlier, WorkerVersion

\* The object goes: nothing of it is left to be compared with.
LEMMA GoneVersion ==
    ASSUME ReconcilerTypeOK, CacheVersion,
           api' = [Blank(api.uid) EXCEPT !.spec = api.spec], UNCHANGED cache,
           NeverSuspended' => NeverSuspended
    PROVE  CacheVersion' /\ (WorkerVersion /\ UNCHANGED <<pc, mem, queue>> => WorkerVersion')
<1>1. /\ api'.exists = FALSE /\ api'.uid = api.uid /\ api'.deleting = FALSE
      /\ api'.suspended = FALSE
  BY DEF Blank
<1> QED BY <1>1 DEF CacheVersion, Earlier, WorkerVersion

\* The cache takes over what the API server has.
LEMMA CacheTaken ==
    ASSUME ReconcilerTypeOK, CacheVersion, cache' = api, UNCHANGED api,
           NeverSuspended' => NeverSuspended
    PROVE  CacheVersion'
BY DEF CacheVersion, Earlier, ReconcilerTypeOK, RuntimeTypeOK, Object

LEMMA WatchVersion ==
    ASSUME ReconcilerTypeOK, CacheVersion, WorkerVersion, CacheSync
    PROVE  CacheVersion' /\ WorkerVersion'
<1>1. /\ cache' = api /\ UNCHANGED <<api, pc, mem, budget>>
      /\ queue' = "empty" =>
             /\ queue = "empty"
             /\ api.exists => cache.exists /\ cache.uid = api.uid /\ cache.gen = api.gen
  BY DEF CacheSync
<1>2. CacheVersion'
  BY <1>1, CacheTaken, CalmUnchanged
<1>3. WorkerVersion'
  BY <1>1 DEF WorkerVersion, Earlier
<1> QED BY <1>2, <1>3

LEMMA UserVersion ==
    ASSUME ReconcilerTypeOK, ReconcilerTypeOK', WithinBounds, CacheVersion, WorkerVersion, User
    PROVE  CacheVersion' /\ WorkerVersion'
<1> api \in Object /\ cache \in Object /\ mem \in Object
    /\ budget \in [Interferences -> Nat] /\ "edits" \in Interferences
    /\ "toggles" \in Interferences
  BY DEF ReconcilerTypeOK, RuntimeTypeOK, Interferences
<1>1. OnlySpends
  BY SpendOnly DEF User, UserEdit, UserCreate, UserDelete, UserToggleSuspend
<1>2. NeverSuspended' => NeverSuspended
  BY <1>1, CalmBefore
<1>3. UNCHANGED <<cache, unseen, queue, pc, mem>>
  BY DEF User, UserEdit, UserCreate, UserDelete, UserToggleSuspend, UserWrites
<1>4. ASSUME NEW spec \in Specs, UserEdit(spec) PROVE CacheVersion' /\ WorkerVersion'
  <2>1. api' = [api EXCEPT !.spec = spec, !.gen = api.gen + 1]
    BY <1>4 DEF UserEdit, UserWrites
  <2>2. /\ api'.exists = api.exists /\ api'.uid = api.uid /\ api'.gen = api.gen + 1
        /\ api'.fin = api.fin /\ api'.deleting = api.deleting
        /\ api'.suspended = api.suspended /\ api'.status = api.status /\ api.exists
    BY <1>4, <2>1 DEF Object, UserEdit
  <2>3. api.gen \in Nat /\ cache.gen \in Nat /\ mem.gen \in Nat
    BY DEF Object
  <2> QED BY <1>2, <1>3, <2>2, <2>3 DEF CacheVersion, Earlier, WorkerVersion
<1>5. ASSUME NEW spec \in Specs, UserCreate(spec) PROVE CacheVersion' /\ WorkerVersion'
  <2>1. api' = NewObject(api.uid + 1, spec)
    BY <1>5 DEF UserCreate, UserWrites
  <2>2. api'.uid = api.uid + 1 /\ api'.deleting = FALSE /\ api'.suspended = FALSE
    BY <2>1 DEF NewObject, Blank
  <2>3. api.uid \in Nat /\ cache.uid \in Nat /\ mem.uid \in Nat
    BY DEF Object
  <2> QED BY <1>2, <1>3, <2>2, <2>3 DEF CacheVersion, Earlier, WorkerVersion
<1>6. CASE UserDelete
  <2>1. CASE api.fin
    <3>1. api' = [api EXCEPT !.deleting = TRUE, !.gen = api.gen + 1]
      BY <1>6, <2>1 DEF UserDelete, UserWrites
    <3>2. /\ api'.exists = api.exists /\ api'.uid = api.uid /\ api'.gen = api.gen + 1
          /\ api'.fin = api.fin /\ api'.suspended = api.suspended
          /\ api'.status = api.status /\ api.exists
      BY <1>6, <3>1 DEF Object, UserDelete
    <3>3. api.gen \in Nat /\ cache.gen \in Nat /\ mem.gen \in Nat
      BY DEF Object
    <3> QED BY <1>2, <1>3, <2>1, <3>2, <3>3 DEF CacheVersion, Earlier, WorkerVersion
  <2>2. CASE ~api.fin
    BY <1>2, <1>3, <1>6, <2>2, GoneVersion DEF UserDelete, UserWrites
  <2> QED BY <2>1, <2>2
<1>7. CASE UserToggleSuspend
  <2>1. budget'["toggles"] = budget["toggles"] - 1
    BY <1>7 DEF UserToggleSuspend, Spend
  <2>2. Bounds["toggles"] = MaxToggles /\ budget["toggles"] <= MaxToggles
    BY DEF Bounds, WithinBounds
  <2>3. ~NeverSuspended'
    BY <2>1, <2>2, BoundsAssumption DEF NeverSuspended
  <2>4. /\ api'.exists = api.exists /\ api'.uid = api.uid /\ api'.gen = api.gen
        /\ api'.fin = api.fin /\ api'.deleting = api.deleting /\ api'.spec = api.spec
        /\ api'.status = api.status
    BY <1>7 DEF UserToggleSuspend, UserWrites, Object
  <2> QED BY <1>3, <2>3, <2>4 DEF CacheVersion, Earlier, WorkerVersion
<1> QED BY <1>4, <1>5, <1>6, <1>7 DEF User

-----------------------------------------------------------------------------
(* What has been provisioned stays, unless it drifts.                      *)

NoneFalls == \A i \in Ids : Intact(i) => Intact(i)'

LEMMA CloudStands == ASSUME UNCHANGED cloud PROVE NoneFalls /\ \A i : Intact(i)' = Intact(i)
BY DEF NoneFalls, Intact, Standing

LEMMA StepKept ==
    ASSUME Kept, Undrifted' => Undrifted, UNCHANGED objectVars, NoneFalls,
           pc' \in WorkPoints =>
               \/ pc \in WorkPoints /\ mem'.status.id = mem.status.id
               \/ mem'.status.id = NoId
               \/ Undrifted => Intact(mem.status.id)',
           pc' \in DeletePoints => pc \in DeletePoints,
           Undrifted => pc' \notin {"writeNotFound", "writeForgotten"}
    PROVE  Kept'
<1> SUFFICES ASSUME Undrifted' PROVE Kept'
  BY DEF Kept
<1>1. \A i : Intact(i) => Intact(i)'
  BY DEF NoneFalls, Intact
<1>2. pc' \in WorkPoints => mem'.status.id = NoId \/ (Intact(mem.status.id))'
  BY <1>1 DEF Kept
<1>3. api.exists /\ api.fin /\ api.status.id # NoId =>
          (Intact(api.status.id))' \/ (api.deleting /\ cache.deleting)
  BY <1>1 DEF Kept, objectVars
<1> QED BY <1>2, <1>3 DEF Kept, objectVars

\* The one step that takes something down.
DeleteFalls == \A i \in Ids \ {mem.status.id} : Intact(i) => Intact(i)'

LEMMA DeleteKept ==
    ASSUME LeakInv, Kept, Undrifted' => Undrifted, UNCHANGED objectVars, DeleteFalls,
           pc = "delete", pc' \in {"waitDeleted", "removeFinalizer"}
    PROVE  Kept'
<1> SUFFICES ASSUME Undrifted' PROVE Kept'
  BY DEF Kept
<1>1. api.deleting /\ cache.deleting
  BY DEF LeakInv, WorkerAgrees, Kept, DeletePoints
<1> QED BY <1>1 DEF Kept, objectVars, WorkPoints, IdentityPoints, DeletePoints

LEMMA DequeueKept ==
    ASSUME Modes, LeakInv, Kept, NEW obj, NEW at, Dequeue(obj, at), UNCHANGED cloud,
           Like(obj, cache), obj.status.id = cache.status.id,
           at \in WorkPoints => cache.fin /\ ~cache.deleting,
           at \in DeletePoints => cache.deleting,
           at \notin {"writeNotFound", "writeForgotten"}
    PROVE  Kept'
<1> SUFFICES ASSUME Undrifted' PROVE Kept'
  BY DEF Kept
<1>1. UNCHANGED <<api, cache, unseen, budget>> /\ mem' = obj /\ pc' = at /\ ~unseen
  BY DEF Dequeue, objectVars, CanDequeue, Modes
<1>2. Undrifted
  BY <1>1, CalmUnchanged
<1>3. cache.fin = api.fin /\ (cache.fin => cache.status.id = api.status.id)
      /\ (api.fin => api.exists)
  BY <1>1 DEF LeakInv, CacheAgrees, WellFormed
<1>4. at \in WorkPoints => obj.status.id = NoId \/ Intact(obj.status.id)
  BY <1>2, <1>3 DEF Kept
<1> QED BY <1>1, <1>2, <1>4, CloudStands DEF Kept

LEMMA PersistKept ==
    ASSUME LeakInv, Kept, PersistStatus, UNCHANGED cloud, pc # "idle",
           pc' \in WorkPoints => pc \in WorkPoints /\ mem'.status.id = mem.status.id,
           pc' \notin DeletePoints \cup {"writeNotFound", "writeForgotten"}
    PROVE  Kept'
<1> SUFFICES ASSUME Undrifted' PROVE Kept'
  BY DEF Kept
<1>1. Undrifted
  BY CalmUnchanged DEF PersistStatus
<1>2. Like(api', api) /\ api'.status = mem.status /\ UNCHANGED cache
  <2>1. api \in Object /\ api' = [api EXCEPT !.status = mem.status] /\ UNCHANGED cache
    BY DEF PersistStatus, LeakInv, ReconcilerTypeOK, RuntimeTypeOK
  <2> QED BY <2>1 DEF Object, Like
<1>3. api.fin => \/ pc = "writeResourceId" /\ pc \in WorkPoints
                 \/ mem.status.id = api.status.id
  BY <1>1 DEF LeakInv, WorkerAgrees, WorkPoints, Kept
<1>4. api'.exists /\ api'.fin /\ api'.status.id # NoId =>
          Intact(api'.status.id) \/ (api'.deleting /\ cache'.deleting)
  BY <1>1, <1>2, <1>3 DEF Kept, Like
<1>5. pc' \in WorkPoints => mem'.status.id = NoId \/ Intact(mem'.status.id)
  BY <1>1 DEF Kept
<1> QED BY <1>4, <1>5, CloudStands DEF Kept

LEMMA AddFinalizerKept ==
    ASSUME LeakInv, Kept, UpdateObject([api EXCEPT !.fin = TRUE]), UNCHANGED cloud,
           pc = "addFinalizer", pc' = "idle"
    PROVE  Kept'
<1> SUFFICES ASSUME Undrifted' PROVE Kept'
  BY DEF Kept
<1>1. Undrifted /\ UNCHANGED cache
  BY CalmUnchanged DEF UpdateObject
<1>2. api \in Object /\ (~api.fin => api.status.id = NoId)
  BY DEF LeakInv, ReconcilerTypeOK, RuntimeTypeOK, CacheAgrees, WorkerAgrees, WellFormed,
         AdoptPoints
<1>3. /\ api'.exists = api.exists /\ api'.status = api.status
      /\ api'.deleting = api.deleting
  BY <1>2 DEF UpdateObject, Object
<1> QED BY <1>1, <1>2, <1>3, CloudStands
        DEF Kept, WorkPoints, IdentityPoints, DeletePoints

LEMMA GoneKept ==
    ASSUME Kept, Undrifted' => Undrifted,
           api' = [Blank(api.uid) EXCEPT !.spec = api.spec], UNCHANGED <<cache, cloud>>,
           pc' = "idle" \/ UNCHANGED <<pc, mem>>
    PROVE  Kept'
<1>1. api'.exists = FALSE
  BY DEF Blank
<1> QED BY <1>1, CloudStands DEF Kept, WorkPoints, IdentityPoints, DeletePoints

LEMMA CacheTakenKept ==
    ASSUME LeakInv, Kept, Undrifted' => Undrifted, cache' = api, UNCHANGED <<api, cloud>>,
           pc' = "idle" \/ UNCHANGED <<pc, mem>>
    PROVE  Kept'
<1> SUFFICES ASSUME Undrifted' PROVE Kept'
  BY DEF Kept
<1>1. pc \in DeletePoints => api.deleting
  BY DEF LeakInv, WorkerAgrees, DeletePoints
<1> QED BY <1>1, CloudStands DEF Kept, WorkPoints, IdentityPoints, DeletePoints

LEMMA UserKept ==
    ASSUME LeakInv, Kept, Undrifted' => Undrifted, User, UNCHANGED cloud
    PROVE  Kept'
<1> api \in Object
  BY DEF LeakInv, ReconcilerTypeOK, RuntimeTypeOK
<1>1. UNCHANGED <<cache, pc, mem>>
  BY DEF User, UserEdit, UserCreate, UserDelete, UserToggleSuspend, UserWrites
<1>2. CASE api' = [Blank(api.uid) EXCEPT !.spec = api.spec]
  BY <1>1, <1>2, GoneKept
<1>3. CASE /\ api'.exists = api.exists /\ api'.fin = api.fin /\ api'.status = api.status
           /\ api.deleting => api'.deleting
  BY <1>1, <1>3, CloudStands DEF Kept
<1>4. CASE api'.fin = FALSE
  BY <1>1, <1>4, CloudStands DEF Kept
<1>5. ASSUME NEW spec \in Specs, UserEdit(spec) PROVE Kept'
  BY <1>3, <1>5 DEF UserEdit, UserWrites, Object
<1>6. ASSUME NEW spec \in Specs, UserCreate(spec) PROVE Kept'
  BY <1>4, <1>6 DEF UserCreate, UserWrites, NewObject, Blank
<1>7. CASE UserDelete
  <2>1. CASE api.fin
    BY <1>3, <1>7, <2>1 DEF UserDelete, UserWrites, Object
  <2> QED BY <1>2, <1>7, <2>1 DEF UserDelete, UserWrites
<1>8. CASE UserToggleSuspend
  BY <1>3, <1>8 DEF UserToggleSuspend, UserWrites, Object
<1> QED BY <1>5, <1>6, <1>7, <1>8 DEF User

-----------------------------------------------------------------------------
(* The Error condition before the first fault.                             *)

ErrorIn(obj, reasons) == obj.status.conds["Error"].reason \in reasons

LEMMA BlankError ==
    ASSUME NEW uid, NEW reasons, "" \in reasons
    PROVE  ErrorIn(Blank(uid), reasons)
BY DEF ErrorIn, Blank, EmptyStatus, NoConditions, ConditionTypes, Absent

LEMMA StepErrors ==
    ASSUME NEW reasons, ErrorsAmong(reasons), Undrifted' => Undrifted,
           budget'["faults"] = MaxFaults => budget["faults"] = MaxFaults,
           Undrifted /\ budget'["faults"] = MaxFaults =>
               \A obj \in {api', cache', mem'} :
                   ErrorIn(obj, reasons) \/ \E old \in {api, cache, mem} : SameError(obj, old)
    PROVE  ErrorsAmong(reasons)'
BY DEF ErrorsAmong, ErrorIn, SameError

-----------------------------------------------------------------------------
(* The shapes a step has, and what each means for the invariant.           *)

Undisturbed == \A i \in Ids : Intact(i) => Intact(i)' /\ cloud'[i].cfg = cloud[i].cfg

\* The last write of a reconcile that has nothing more to do.
WritesLast ==
    /\ pc \in LastWrites \/ (pc = "writeResourceId" /\ IsTrue(mem.status.conds, "Ready"))
    /\ UNCHANGED cloud
    /\ api'.status = mem.status /\ api'.spec = mem.spec /\ ~api'.deleting
    /\ api'.status.obsGen = api'.gen

\* How a step can end at rest.
Finishes ==
    \/ Adopts(api') \/ ~api'.spec.valid
    \/ WritesLast
    \/ Unattended /\ UNCHANGED api /\ Undisturbed

\* The reasons with which the reconcilers report a call that fails.
CallFailed == {"FailedCreate", "GetFailed", "UpdateFailed", "FailedUpdate",
               "GetFailed after create", "GetFailed after update", "RegionNotFound",
               "FailedListVolumeTypes"}

Blameless(reasons) == reasons \cap CallFailed = {}

RestStep(reasons) ==
    /\ OnlySpends
    /\ VersionInv'
    /\ ErrorsAmong(reasons)'
    /\ Blameless(reasons) /\ Calm' /\ Unattended' => Finishes

\* Before the step.
Ready(reasons) == Modes /\ LeakInv /\ LeakInv' /\ VersionInv /\ ErrorsAmong(reasons) /\ "" \in reasons

LEMMA ReadyCalm ==
    ASSUME NEW reasons, Ready(reasons), OnlySpends
    PROVE  /\ WithinBounds' /\ (Undrifted' => Undrifted) /\ (Calm' => Calm)
           /\ NeverSuspended' => NeverSuspended
           /\ budget'["faults"] = MaxFaults => budget["faults"] = MaxFaults
BY CalmBefore DEF Ready, VersionInv, LeakInv

LEMMA SameBudget ==
    ASSUME ReconcilerTypeOK, UNCHANGED budget
    PROVE  OnlySpends
BY SpendOnly DEF ReconcilerTypeOK, RuntimeTypeOK, Interferences

\* The worker takes the object from the queue.
LEMMA RestDequeue ==
    ASSUME NEW reasons, Ready(reasons), NEW obj, NEW at, Dequeue(obj, at), UNCHANGED cloud,
           Like(obj, cache), obj.status.obsGen = cache.gen, obj.status.id = cache.status.id,
           SameError(obj, cache) \/ ErrorIn(obj, reasons), cache.exists,
           at \notin DeletePoints => ~cache.deleting,
           at \in WorkPoints => cache.fin,
           at \in DeletePoints => cache.deleting,
           at \notin {"idle", "writeNotFound", "writeForgotten"}
    PROVE  RestStep(reasons)
<1>1. UNCHANGED <<api, cache, budget>> /\ mem' = obj /\ pc' = at
  BY DEF Dequeue, objectVars
<1>2. ReconcilerTypeOK /\ Modes /\ LeakInv /\ VersionInv /\ ErrorsAmong(reasons)
  BY DEF Ready, LeakInv
<1>3. OnlySpends
  BY <1>1, <1>2, SameBudget
<1>4. WithinBounds'
  BY <1>3, ReadyCalm
<1>5. CacheVersion' /\ WorkerVersion'
  BY <1>2, DequeueVersion DEF VersionInv
<1>6. Kept'
  <2>1. at \in WorkPoints => cache.fin /\ ~cache.deleting
    BY DEF WorkPoints, DeletePoints
  <2> QED BY <1>2, <2>1, DequeueKept DEF VersionInv
<1>7. ErrorsAmong(reasons)'
  BY <1>1, <1>2, <1>3, ReadyCalm, StepErrors DEF SameError
<1>8. ~Unattended'
  BY <1>1 DEF Unattended
<1> QED BY <1>3, <1>4, <1>5, <1>6, <1>7, <1>8 DEF RestStep, VersionInv

\* It returns before it does anything.
LEMMA IgnoredKeeps ==
    ASSUME NEW reasons, Ready(reasons), DequeueIgnored \/ DequeueAgain, UNCHANGED cloud
    PROVE  /\ VersionInv' /\ ErrorsAmong(reasons)' /\ (Calm' => Calm) /\ UNCHANGED api
           /\ OnlySpends
<1>1. UNCHANGED objectVars /\ UNCHANGED <<pc, mem, budget>> /\ pc = "idle"
  BY DEF DequeueIgnored, DequeueAgain, CanDequeue
<1>2. ReconcilerTypeOK /\ VersionInv /\ ErrorsAmong(reasons)
  BY DEF Ready, LeakInv
<1>3. OnlySpends
  BY <1>1, <1>2, SameBudget
<1>4. WithinBounds' /\ (Calm' => Calm) /\ (NeverSuspended' => NeverSuspended)
      /\ (Undrifted' => Undrifted)
  BY <1>3, ReadyCalm
<1>5. CacheVersion' /\ WorkerVersion'
  BY <1>1, <1>2, <1>4, IdleVersion DEF VersionInv
<1>6. Kept'
  BY <1>1, <1>2, <1>4, StepKept, CloudStands DEF VersionInv, WorkPoints, IdentityPoints, DeletePoints
<1>7. ErrorsAmong(reasons)'
  BY <1>1, <1>2, <1>3, ReadyCalm, StepErrors DEF SameError, objectVars
<1> QED BY <1>1, <1>3, <1>4, <1>5, <1>6, <1>7 DEF VersionInv, objectVars

LEMMA RestIgnored ==
    ASSUME NEW reasons, Ready(reasons), DequeueIgnored, UNCHANGED cloud,
           Calm /\ api.exists /\ cache.exists /\ cache.uid = api.uid /\ cache.gen = api.gen
               => ~api.spec.valid
    PROVE  RestStep(reasons)
<1>1. VersionInv' /\ ErrorsAmong(reasons)' /\ (Calm' => Calm) /\ UNCHANGED api
      /\ OnlySpends
  BY IgnoredKeeps
<1>2. UNCHANGED cache
  BY DEF DequeueIgnored, objectVars
<1>3. Calm' /\ Unattended' => Finishes
  BY <1>1, <1>2 DEF Unattended, Finishes
<1> QED BY <1>1, <1>3 DEF RestStep

LEMMA RestAgain ==
    ASSUME NEW reasons, Ready(reasons), DequeueAgain, UNCHANGED cloud
    PROVE  RestStep(reasons)
<1>1. VersionInv' /\ ErrorsAmong(reasons)' /\ OnlySpends
  BY IgnoredKeeps
<1>2. ~Unattended'
  BY DEF DequeueAgain, Unattended
<1> QED BY <1>1, <1>2 DEF RestStep

\* A call that leaves the API server alone, on the way to the next one.
LEMMA RestCall ==
    ASSUME NEW reasons, Ready(reasons), OnlySpends,
           pc # "idle", pc' # "idle", UNCHANGED objectVars, queue' = queue,
           Copy(mem', mem),
           \/ SameError(mem', mem) \/ ErrorIn(mem', reasons)
           \/ budget'["faults"] # MaxFaults \/ ~Undrifted,
           pc \in DeletePoints \cup {"writeError"} => pc' \in DeletePoints \cup {"writeError"},
           pc' \in DeletePoints => pc \in DeletePoints,
           NoneFalls \/ (DeleteFalls /\ pc = "delete" /\ pc' \in {"waitDeleted", "removeFinalizer"}),
           pc' \in WorkPoints =>
               \/ pc \in WorkPoints /\ mem'.status.id = mem.status.id
               \/ mem'.status.id = NoId
               \/ Undrifted => Intact(mem.status.id)',
           Undrifted => pc' \notin {"writeNotFound", "writeForgotten"}
    PROVE  RestStep(reasons)
<1>1. LeakInv /\ VersionInv /\ ErrorsAmong(reasons)
  BY DEF Ready
<1>2. WithinBounds' /\ (NeverSuspended' => NeverSuspended) /\ (Undrifted' => Undrifted)
  BY ReadyCalm
<1>3. CacheVersion' /\ WorkerVersion'
  BY <1>1, <1>2, StepVersion DEF VersionInv
<1>4. Kept'
  <2>1. CASE NoneFalls
    BY <1>1, <1>2, <2>1, StepKept DEF VersionInv
  <2>2. CASE DeleteFalls /\ pc = "delete" /\ pc' \in {"waitDeleted", "removeFinalizer"}
    BY <1>1, <1>2, <2>2, DeleteKept DEF VersionInv
  <2> QED BY <2>1, <2>2
<1>5. ErrorsAmong(reasons)'
  BY <1>1, <1>2, ReadyCalm, StepErrors DEF SameError, objectVars
<1>6. ~Unattended'
  BY DEF Unattended
<1> QED BY <1>2, <1>3, <1>4, <1>5, <1>6 DEF RestStep, VersionInv

\* An error, or a conflict, that goes back to the queue.
LEMMA RestReturn ==
    ASSUME NEW reasons, Ready(reasons), OnlySpends, UNCHANGED objectVars, UNCHANGED cloud,
           Return(Requeued)
    PROVE  RestStep(reasons)
<1>1. LeakInv /\ VersionInv /\ ErrorsAmong(reasons) /\ "" \in reasons
  BY DEF Ready
<1>2. WithinBounds' /\ (NeverSuspended' => NeverSuspended) /\ (Undrifted' => Undrifted)
  BY ReadyCalm
<1>3. pc' = "idle" /\ mem' = Blank(0) /\ queue' # "empty"
  BY DEF Return, Requeued
<1>4. CacheVersion' /\ WorkerVersion'
  BY <1>1, <1>2, <1>3, IdleVersion DEF VersionInv
<1>5. Kept'
  BY <1>1, <1>2, <1>3, StepKept, CloudStands DEF VersionInv, WorkPoints, IdentityPoints, DeletePoints
<1>6. ErrorsAmong(reasons)'
  BY <1>1, <1>2, <1>3, ReadyCalm, StepErrors, BlankError DEF SameError, objectVars
<1>7. ~Unattended'
  BY <1>3 DEF Unattended
<1> QED BY <1>2, <1>4, <1>5, <1>6, <1>7 DEF RestStep, VersionInv

LEMMA PersistErrors ==
    ASSUME NEW reasons, Ready(reasons), PersistStatus,
           SameError(mem', mem) \/ ErrorIn(mem', reasons)
    PROVE  ErrorsAmong(reasons)'
<1>1. ReconcilerTypeOK /\ VersionInv /\ ErrorsAmong(reasons) /\ "" \in reasons
  BY DEF Ready, LeakInv
<1>2. api'.status = mem.status /\ UNCHANGED <<cache, budget>>
  BY <1>1, CachePersist DEF VersionInv, PersistStatus
<1>3. SameError(api', mem) /\ SameError(cache', cache)
  BY <1>2 DEF SameError
<1>4. (Undrifted' => Undrifted) /\ budget' = budget
  BY <1>2, CalmUnchanged
<1> QED BY <1>1, <1>3, <1>4, StepErrors

\* A status write on the way to the next call.
LEMMA RestPersist ==
    ASSUME NEW reasons, Ready(reasons), PersistStatus, UNCHANGED cloud, queue' = queue,
           pc # "idle", pc' # "idle", Copy(mem', mem),
           SameError(mem', mem) \/ ErrorIn(mem', reasons),
           pc \notin DeletePoints \cup {"writeError"},
           pc' \in WorkPoints => pc \in WorkPoints /\ mem'.status.id = mem.status.id,
           pc' \notin DeletePoints \cup {"writeNotFound", "writeForgotten"}
    PROVE  RestStep(reasons)
<1>1. LeakInv /\ ReconcilerTypeOK /\ VersionInv
  BY DEF Ready, LeakInv
<1>2. OnlySpends
  BY <1>1, SameBudget DEF PersistStatus
<1>3. WithinBounds'
  BY <1>2, ReadyCalm
<1>4. CacheVersion' /\ WorkerVersion' /\ Kept'
  BY <1>1, PersistVersion, PersistKept DEF VersionInv
<1>5. ErrorsAmong(reasons)'
  BY PersistErrors
<1>6. ~Unattended'
  BY DEF Unattended
<1> QED BY <1>2, <1>3, <1>4, <1>5, <1>6 DEF RestStep, VersionInv

\* The last write of a reconcile.
LEMMA RestDone ==
    ASSUME NEW reasons, Ready(reasons), PersistStatus, UNCHANGED cloud, Return(queue),
           \/ pc \in LastWrites
           \/ pc = "writeResourceId" /\ IsTrue(mem.status.conds, "Ready")
           \/ pc \in AdoptPoints /\ Adopts(mem)
    PROVE  RestStep(reasons)
<1>1. LeakInv /\ ReconcilerTypeOK /\ VersionInv /\ "" \in reasons
  BY DEF Ready, LeakInv
<1>2. OnlySpends
  BY <1>1, SameBudget DEF PersistStatus
<1>3. WithinBounds'
  BY <1>2, ReadyCalm
<1>4. pc \notin DeletePoints \cup {"idle", "writeError"} /\ pc' = "idle" /\ mem' = Blank(0)
  BY DEF DeletePoints, AdoptPoints, LastWrites, Return
<1>5. /\ CacheVersion' /\ WorkerVersion'
      /\ Unattended' => /\ api'.status = mem.status
                        /\ api'.spec = mem.spec /\ ~api'.deleting
                        /\ api'.status.obsGen = api'.gen
  BY <1>1, <1>4, DoneVersion DEF VersionInv
<1>6. Kept'
  BY <1>1, <1>4, PersistKept DEF VersionInv, WorkPoints, IdentityPoints, DeletePoints
<1>7. ErrorsAmong(reasons)'
  BY <1>1, <1>4, PersistErrors, BlankError
<1>8. Unattended' => Finishes
  BY <1>5 DEF Finishes, WritesLast, Adopts
<1> QED BY <1>2, <1>3, <1>5, <1>6, <1>7, <1>8 DEF RestStep, VersionInv

\* The write of the Error condition, after which the object is looked at again.
LEMMA RestPersistRequeued ==
    ASSUME NEW reasons, Ready(reasons), PersistStatus, UNCHANGED cloud, Return(Requeued),
           pc # "idle"
    PROVE  RestStep(reasons)
<1>1. LeakInv /\ ReconcilerTypeOK /\ VersionInv /\ "" \in reasons
  BY DEF Ready, LeakInv
<1>2. OnlySpends
  BY <1>1, SameBudget DEF PersistStatus
<1>3. WithinBounds'
  BY <1>2, ReadyCalm
<1>4. pc' = "idle" /\ mem' = Blank(0) /\ queue' # "empty"
  BY DEF Return, Requeued
<1>5. CacheVersion' /\ WorkerVersion'
  BY <1>1, <1>4, IdlePersistVersion DEF VersionInv
<1>6. Kept'
  BY <1>1, <1>4, PersistKept DEF VersionInv, WorkPoints, IdentityPoints, DeletePoints
<1>7. ErrorsAmong(reasons)'
  BY <1>1, <1>4, PersistErrors, BlankError
<1>8. ~Unattended'
  BY <1>4 DEF Unattended
<1> QED BY <1>2, <1>3, <1>5, <1>6, <1>7, <1>8 DEF RestStep, VersionInv

LEMMA ChangesError ==
    ASSUME NEW conds \in Conditions, NEW reason, NEW message, conds["Error"].reason # reason
    PROVE  StatusConditionChanges(conds, "Error", "False", reason, message)
BY DEF StatusConditionChanges, SetStatusCondition, Conditions, ConditionTypes

\* The first fault is never one the Error condition shows already.
LEMMA FaultShows ==
    ASSUME NEW reasons, Ready(reasons), Spend("faults"), NEW reason \in CallFailed
    PROVE  /\ Blameless(reasons) /\ Calm' => mem.status.conds["Error"].reason # reason
           /\ budget'["faults"] # MaxFaults
           /\ OnlySpends
<1>1. budget \in [Interferences -> Nat] /\ "faults" \in Interferences /\ WithinBounds
      /\ ErrorsAmong(reasons)
  BY DEF Ready, LeakInv, ReconcilerTypeOK, RuntimeTypeOK, Interferences, VersionInv
<1>2. OnlySpends
  BY <1>1, SpendOnly
<1>3. budget'["faults"] = budget["faults"] - 1 /\ budget["faults"] \in Nat
      /\ budget["faults"] <= MaxFaults
  BY <1>1 DEF Spend, WithinBounds, Bounds
<1>4. Calm' => budget["faults"] = MaxFaults /\ Undrifted
  BY <1>2, <1>3, ReadyCalm, BoundsAssumption DEF Calm, OneFault
<1>5. Calm' => mem.status.conds["Error"].reason \in reasons
  BY <1>1, <1>4 DEF ErrorsAmong
<1> QED BY <1>2, <1>3, <1>5, BoundsAssumption DEF Blameless

\* An error that is written to the status.
LEMMA ReportWrittenRest ==
    ASSUME NEW reasons, Ready(reasons), OnlySpends, UNCHANGED objectVars, NoneFalls,
           NEW reason \in Texts, NEW message \in Texts, NEW err \in Texts,
           ReportError(mem, reason, message, err),
           pc # "idle", pc' # "idle",
           reason \in reasons \/ budget'["faults"] # MaxFaults \/ ~Undrifted
    PROVE  RestStep(reasons)
<1> DEFINE obj == SetErrorCondition(mem, reason, message, err)
<1>1. mem \in Object
  BY DEF Ready, LeakInv, ReconcilerTypeOK, RuntimeTypeOK
<1>2. Copy(obj, mem)
  BY <1>1, ErrorCopy
<1>3. obj.status.conds["Error"].reason = reason
  BY <1>1, ErrorCopy
<1>4. mem' = obj /\ pc' = "writeError" /\ UNCHANGED queue
  BY DEF ReportError, Done, Return
<1> HIDE DEF obj
<1>5. ErrorIn(mem', reasons) \/ budget'["faults"] # MaxFaults \/ ~Undrifted
  BY <1>3, <1>4 DEF ErrorIn
<1> QED BY <1>2, <1>4, <1>5, RestCall DEF WorkPoints, IdentityPoints, DeletePoints

\* One that the status shows already ends the reconcile.
LEMMA ReportAgainKeeps ==
    ASSUME NEW reasons, Ready(reasons), OnlySpends, UNCHANGED objectVars, NoneFalls, Done
    PROVE  VersionInv' /\ ErrorsAmong(reasons)'
<1>1. pc' = "idle" /\ mem' = Blank(0)
  BY DEF Done, Return
<1>2. WithinBounds' /\ (NeverSuspended' => NeverSuspended) /\ (Undrifted' => Undrifted)
  BY ReadyCalm
<1>3. CacheVersion' /\ WorkerVersion'
  BY <1>1, <1>2, IdleVersion DEF VersionInv, Ready
<1>4. Kept'
  BY <1>1, <1>2, StepKept DEF VersionInv, Ready, WorkPoints, IdentityPoints, DeletePoints
<1>5. ErrorsAmong(reasons)'
  BY <1>1, <1>2, ReadyCalm, StepErrors, BlankError DEF Ready, SameError, objectVars
<1> QED BY <1>2, <1>3, <1>4, <1>5 DEF VersionInv

LEMMA RestReport ==
    ASSUME NEW reasons, Ready(reasons), OnlySpends, UNCHANGED objectVars, NoneFalls,
           NEW reason \in Texts, NEW message \in Texts, NEW err \in Texts,
           ReportError(mem, reason, message, err),
           pc # "idle",
           Blameless(reasons) /\ Calm' => mem.status.conds["Error"].reason # reason,
           reason \in reasons \/ budget'["faults"] # MaxFaults \/ ~Undrifted
    PROVE  RestStep(reasons)
<1>1. mem.status.conds \in Conditions
  BY DEF Ready, LeakInv, ReconcilerTypeOK, RuntimeTypeOK, Object, Status
<1>2. CASE pc' # "idle"
  BY <1>2, ReportWrittenRest
<1>3. CASE pc' = "idle"
  <2>1. ~StatusConditionChanges(mem.status.conds, "Error", "False", reason, message) /\ Done
    BY <1>3 DEF ReportError
  <2>2. ~(Blameless(reasons) /\ Calm')
    BY <1>1, <2>1, ChangesError
  <2> QED BY <2>1, <2>2, ReportAgainKeeps DEF RestStep
<1> QED BY <1>2, <1>3

\* A call that fails and is reported.
LEMMA RestFault ==
    ASSUME NEW reasons, Ready(reasons), UNCHANGED objectVars, NoneFalls,
           NEW reason \in Texts, NEW message \in Texts, NEW err \in Texts,
           ReportError(mem, reason, message, err),
           Spend("faults"), reason \in CallFailed, pc # "idle"
    PROVE  RestStep(reasons)
BY FaultShows, RestReport

-----------------------------------------------------------------------------
(* One lemma per group of actions.                                         *)

LEMMA UpdateFailsRest ==
    ASSUME NEW reasons, Ready(reasons), UpdateObjectFails, UNCHANGED resourceVars
    PROVE  RestStep(reasons)
<1>1. OnlySpends
  BY SpendOnly DEF UpdateObjectFails, Ready, LeakInv, ReconcilerTypeOK, RuntimeTypeOK, Interferences
<1> QED BY <1>1, RestReturn DEF UpdateObjectFails, resourceVars

LEMMA AddFinalizerRest ==
    ASSUME NEW reasons, Ready(reasons), AddFinalizer
    PROVE  RestStep(reasons)
<1>1. CASE UpdateObjectFails
  BY <1>1, UpdateFailsRest DEF AddFinalizer
<1>2. CASE UpdateObject([api EXCEPT !.fin = TRUE]) /\ Return(Requeued)
  <2>1. LeakInv /\ ReconcilerTypeOK /\ VersionInv /\ ErrorsAmong(reasons) /\ "" \in reasons
    BY DEF Ready, LeakInv
  <2>2. /\ pc = "addFinalizer" /\ pc' = "idle" /\ mem' = Blank(0) /\ queue' # "empty"
        /\ UNCHANGED <<cloud, cache, budget>>
    BY <1>2 DEF AddFinalizer, UpdateObject, Return, Requeued, resourceVars
  <2>3. OnlySpends
    BY <2>1, <2>2, SameBudget
  <2>4. WithinBounds' /\ (Undrifted' => Undrifted)
    BY <2>3, ReadyCalm
  <2>5. CacheVersion' /\ WorkerVersion'
    BY <1>2, <2>1, <2>2, AddFinalizerVersion DEF VersionInv
  <2>6. Kept'
    BY <1>2, <2>1, <2>2, AddFinalizerKept DEF VersionInv
  <2>7. SameError(api', api) /\ SameError(cache', cache)
    BY <1>2, <2>1, <2>2 DEF UpdateObject, SameError, ReconcilerTypeOK, RuntimeTypeOK, Object
  <2>8. ErrorsAmong(reasons)'
    BY <2>1, <2>2, <2>4, <2>7, StepErrors, BlankError
  <2>9. ~Unattended'
    BY <2>2 DEF Unattended
  <2> QED BY <2>3, <2>4, <2>5, <2>6, <2>8, <2>9 DEF RestStep, VersionInv
<1> QED BY <1>1, <1>2 DEF AddFinalizer

LEMMA RemoveFinalizerRest ==
    ASSUME NEW reasons, Ready(reasons), RemoveFinalizer
    PROVE  RestStep(reasons)
<1>1. CASE UpdateObjectFails
  BY <1>1, UpdateFailsRest DEF RemoveFinalizer
<1>2. CASE UpdateObject([Blank(api.uid) EXCEPT !.spec = api.spec]) /\ Return(queue)
  <2>1. LeakInv /\ ReconcilerTypeOK /\ VersionInv /\ ErrorsAmong(reasons) /\ "" \in reasons
    BY DEF Ready, LeakInv
  <2>2. /\ pc' = "idle" /\ mem' = Blank(0) /\ UNCHANGED <<cloud, cache, budget>>
        /\ api' = [Blank(api.uid) EXCEPT !.spec = api.spec]
    BY <1>2 DEF RemoveFinalizer, UpdateObject, Return, resourceVars
  <2>3. OnlySpends
    BY <2>1, <2>2, SameBudget
  <2>4. WithinBounds' /\ (Undrifted' => Undrifted) /\ (NeverSuspended' => NeverSuspended)
    BY <2>3, ReadyCalm
  <2>5. CacheVersion' /\ WorkerVersion'
    BY <2>1, <2>2, <2>4, GoneVersion DEF VersionInv, WorkerVersion
  <2>6. Kept'
    BY <2>1, <2>2, <2>4, GoneKept DEF VersionInv
  <2>7. api'.status = EmptyStatus /\ api'.exists = FALSE
    BY <2>2 DEF Blank
  <2>8. ErrorsAmong(reasons)'
    <3>1. SameError(api', Blank(0)) /\ ErrorIn(Blank(0), reasons)
      BY <2>1, <2>7, BlankError DEF SameError, Blank
    <3>2. ErrorIn(api', reasons) /\ ErrorIn(mem', reasons) /\ SameError(cache', cache)
      BY <2>2, <3>1 DEF SameError, ErrorIn
    <3> QED BY <2>1, <2>2, <2>4, <3>2, StepErrors
  <2>9. ~Unattended'
    BY <2>7 DEF Unattended
  <2> QED BY <2>3, <2>4, <2>5, <2>6, <2>8, <2>9 DEF RestStep, VersionInv
<1> QED BY <1>1, <1>2 DEF RemoveFinalizer

\* An error found in the object itself.
LEMMA ReportingRest ==
    ASSUME NEW reasons, Ready(reasons), NEW reason \in Texts, NEW message \in Texts,
           reason \in reasons, Dequeue(SetErrorCondition(Observed(cache), reason, message, message),
                                       "writeError"),
           cache.exists, ~cache.deleting, UNCHANGED cloud
    PROVE  RestStep(reasons)
<1> DEFINE obj == SetErrorCondition(Observed(cache), reason, message, message)
<1>1. cache \in Object
  BY DEF Ready, LeakInv, ReconcilerTypeOK, RuntimeTypeOK
<1>2. /\ Observed(cache) \in Object /\ Observed(cache).status.obsGen = cache.gen
      /\ Like(Observed(cache), cache) /\ Observed(cache).status.id = cache.status.id
  BY <1>1, ObservedCopy, ObservedChange
<1>3. Copy(obj, Observed(cache))
  BY <1>2, ErrorCopy
<1>4. obj.status.conds["Error"].reason = reason
  BY <1>2, ErrorCopy
<1>5. obj.status.id = cache.status.id
  BY <1>2, ErrorChange
<1>6. Like(obj, cache) /\ obj.status.obsGen = cache.gen /\ ErrorIn(obj, reasons)
  BY <1>2, <1>3, <1>4 DEF Copy, Like, ErrorIn
<1> HIDE DEF obj
<1> QED BY <1>5, <1>6, RestDequeue DEF obj, WorkPoints, IdentityPoints, DeletePoints

LEMMA ReconcileRest ==
    ASSUME NEW reasons, Ready(reasons), ReconcileAnyKind, "InvalidSpec" \in reasons
    PROVE  RestStep(reasons)
<1>1. /\ cache \in Object /\ CacheVersion /\ WellFormed(cache)
      /\ "InvalidSpec" \in Texts
  BY ReasonsAssumption
     DEF Ready, LeakInv, ReconcilerTypeOK, RuntimeTypeOK, VersionInv, CacheAgrees, Reasons
<1>2. /\ Observed(cache) \in Object /\ Observed(cache).status.obsGen = cache.gen
      /\ Like(Observed(cache), cache) /\ Observed(cache).status.id = cache.status.id
      /\ SameError(Observed(cache), cache)
  BY <1>1, ObservedCopy, ObservedChange
<1>3. CASE ReconcileNothing
  <2>1. Calm => ~cache.suspended
    BY <1>1 DEF Calm, CacheVersion
  <2>2. cache.deleting => cache.fin
    BY <1>1 DEF CacheVersion
  <2> QED BY <1>3, <2>1, <2>2, RestIgnored DEF ReconcileNothing, resourceVars
<1>4. CASE ReconcileDelete
  BY <1>2, <1>4, RestDequeue DEF ReconcileDelete, Reconciles, resourceVars, DeletePoints
<1>5. CASE ReconcileExternalReference
  BY <1>2, <1>5, RestDequeue
     DEF ReconcileExternalReference, Reconciles, resourceVars, DeletePoints, WorkPoints, IdentityPoints
<1>6. CASE ReconcileInvalidSpec
  <2>1. cache.exists /\ ~cache.deleting /\ ~cache.spec.valid /\ UNCHANGED cloud
    BY <1>6 DEF ReconcileInvalidSpec, Reconciles, resourceVars
  <2>2. api.exists /\ cache.uid = api.uid /\ cache.gen = api.gen => ~api.spec.valid
    BY <1>1, <2>1 DEF CacheVersion, Earlier
  <2>3. CASE DequeueIgnored
    BY <2>1, <2>2, <2>3, RestIgnored
  <2> QED BY <1>1, <1>6, <2>1, <2>3, ReportingRest DEF ReconcileInvalidSpec, DequeueReporting
<1>7. CASE ReconcileNoFinalizer
  BY <1>2, <1>7, RestDequeue
     DEF ReconcileNoFinalizer, Reconciles, resourceVars, DeletePoints, WorkPoints, IdentityPoints
<1>8. CASE AddFinalizer
  BY <1>8, AddFinalizerRest
<1> QED BY <1>3, <1>4, <1>5, <1>6, <1>7, <1>8 DEF ReconcileAnyKind

LEMMA CreateOrSyncRest ==
    ASSUME NEW reasons, Ready(reasons), Provisions, CreateOrSync
    PROVE  RestStep(reasons)
<1>1. cache \in Object /\ cache.exists /\ ~cache.deleting /\ cache.fin
  BY DEF Ready, LeakInv, ReconcilerTypeOK, RuntimeTypeOK, Provisions, Reconciles
<1>2. /\ Observed(cache) \in Object /\ Observed(cache).status.obsGen = cache.gen
      /\ Like(Observed(cache), cache) /\ Observed(cache).status.id = cache.status.id
      /\ SameError(Observed(cache), cache)
  BY <1>1, ObservedCopy, ObservedChange
<1>3. CASE cache.status.id = NoId
  <2> DEFINE obj == SetProgressing(Observed(cache), "Creating")
  <2>1. Copy(obj, Observed(cache))
    BY <1>2, StandardCopy
  <2>2. SameError(obj, Observed(cache))
    BY <1>2, StandardCopy
  <2>3. obj.status.id = cache.status.id
    BY <1>2, StandardChange DEF Reasons
  <2>4. Like(obj, cache) /\ obj.status.obsGen = cache.gen /\ SameError(obj, cache)
    BY <1>2, <2>1, <2>2 DEF Copy, Like, SameError
  <2>5. Dequeue(obj, "writeCreating") /\ UNCHANGED cloud
    BY <1>3 DEF CreateOrSync, resourceVars
  <2> HIDE DEF obj
  <2> QED BY <1>1, <2>3, <2>4, <2>5, RestDequeue DEF DeletePoints, WorkPoints, IdentityPoints
<1>4. CASE cache.status.id # NoId
  BY <1>1, <1>2, <1>4, RestDequeue DEF CreateOrSync, resourceVars, DeletePoints
<1> QED BY <1>3, <1>4

LEMMA ReturnErrorRest ==
    ASSUME NEW reasons, Ready(reasons), ReturnError, UNCHANGED budget \/ Spend("faults")
    PROVE  RestStep(reasons)
<1>1. OnlySpends
  BY SpendOnly DEF Ready, LeakInv, ReconcilerTypeOK, RuntimeTypeOK, Interferences
<1> QED BY <1>1, RestReturn DEF ReturnError

\* The resource the worker's copy records is there, unless something drifted.
LEMMA WorkIntact ==
    ASSUME NEW reasons, Ready(reasons), Undrifted,
           pc \in (IdentityPoints \ DeletePoints) \cup {"writeResourceId"}
    PROVE  Intact(mem.status.id) /\ Exists(mem.status.id)
<1>1. pc \in WorkPoints /\ pc # "idle" /\ mem.status.id # NoId
  BY DEF Ready, LeakInv, WorkerAgrees, WorkPoints, IdentityPoints
<1> QED BY <1>1 DEF Ready, VersionInv, Kept, Intact, Exists

\* An update, or the second Get behind it, that fails or finds nothing any more.
LEMMA RestLateError ==
    ASSUME NEW reasons, Ready(reasons), UpdateError \/ RefetchError,
           UNCHANGED objectVars, UNCHANGED cloud,
           NEW reason \in Texts, NEW message \in Texts, NEW err \in Texts,
           ReportError(mem, reason, message, err), reason \in CallFailed
    PROVE  RestStep(reasons)
<1>1. NoneFalls /\ pc # "idle"
  BY CloudStands DEF UpdateError, RefetchError
<1>2. CASE Spend("faults")
  BY <1>1, <1>2, RestFault
<1>3. CASE /\ cloud[mem.status.id].phase \notin Standing \/ ~Exists(mem.status.id)
           /\ UNCHANGED budget
  <2>1. ~Undrifted
    BY <1>3, WorkIntact DEF UpdateError, RefetchError, IdentityPoints, DeletePoints, Intact
  <2>2. OnlySpends
    BY <1>3, SameBudget DEF Ready, LeakInv
  <2>3. ~Calm'
    BY <2>1, <2>2, ReadyCalm DEF Calm
  <2> QED BY <1>1, <2>1, <2>2, <2>3, RestReport
<1> QED BY <1>2, <1>3 DEF UpdateError, RefetchError

LEMMA CreationStands ==
    ASSUME NEW i \in OwnIds, NEW cfg, NEW phase \in Standing, CloudCreateIn(i, cfg, phase),
           CloudTypeOK
    PROVE  /\ NoneFalls /\ Intact(i)' /\ cloud'[i].cfg = cfg
           /\ \A j \in Ids : Intact(j) => cloud'[j] = cloud[j]
BY DEF CloudCreateIn, NoneFalls, Intact, Standing, CloudTypeOK, Ids

LEMMA CreateRest ==
    ASSUME NEW reasons, Ready(reasons), NEW cfg \in Cfgs, Create(cfg)
    PROVE  RestStep(reasons)
<1> USE DEF WorkPoints, IdentityPoints, DeletePoints
<1>0. /\ mem \in Object /\ mem.status \in Status /\ CloudTypeOK /\ ReconcilerTypeOK
      /\ budget \in [Interferences -> Nat]
  BY DEF Ready, LeakInv, ReconcilerTypeOK, RuntimeTypeOK, Object
<1>1. CASE WriteCreating
  BY <1>0, <1>1, RestPersist
     DEF WriteCreating, PersistAndGo, Step, resourceVars, Copy, Like, SameError
<1>2. CASE CreateResource(cfg)
  <2>1. PICK i \in OwnIds :
          /\ Step("create", "writeResourceId",
                  [mem EXCEPT !.status.id = i, !.status.res = "pending", !.status.err = NoError])
          /\ CloudCreate(i, cfg)
          /\ UNCHANGED <<objectVars, fresh, budget, fetched, lost>>
    BY <1>2 DEF CreateResource
  <2>2. Copy(mem', mem) /\ SameError(mem', mem) /\ mem'.status.id = i
    BY <1>0, <2>1 DEF Step, Copy, Like, SameError, Object, Status
  <2>3. NoneFalls /\ Intact(i)'
    BY <1>0, <2>1, CreationStands DEF CloudCreate, Standing
  <2>4. Intact(mem.status.id)'
    BY <2>2, <2>3 DEF Intact
  <2>5. OnlySpends
    BY <1>0, <2>1, SameBudget
  <2> QED BY <2>1, <2>2, <2>3, <2>4, <2>5, RestCall DEF Step
<1>3. CASE CreateResourceFails(cfg)
  <2>1. PICK e \in Errors : ReportError(mem, "FailedCreate", e, e)
    BY <1>3 DEF CreateResourceFails
  <2>2. e \in Texts /\ "FailedCreate" \in Texts
    BY ErrorsAssumption, ReasonsAssumption DEF Reasons
  <2>3. NoneFalls
    <3>1. CASE UNCHANGED cloud
      BY <3>1, CloudStands
    <3>2. ASSUME NEW i \in OwnIds, CloudCreate(i, cfg) PROVE NoneFalls
      BY <1>0, <3>2, CreationStands DEF CloudCreate, Standing
    <3> QED BY <1>3, <3>1, <3>2 DEF CreateResourceFails
  <2> QED BY <1>3, <2>1, <2>2, <2>3, RestFault DEF CreateResourceFails, CallFailed
<1>4. CASE WriteResourceId
  BY <1>0, <1>4, RestPersist
     DEF WriteResourceId, PersistAndGo, Step, resourceVars, Copy, Like, SameError
<1>5. CASE WaitCreated
  <2> DEFINE obj == SetAvailable(mem, "Created")
  <2>1. Copy(obj, mem)
    BY <1>0, StandardCopy
  <2>2. SameError(obj, mem)
    BY <1>0, StandardCopy
  <2>3. obj \in Object /\ obj.status.id = mem.status.id
    BY <1>0, StandardChange DEF Reasons
  <2>4. mem' = [obj EXCEPT !.status.err = NoError]
    BY <1>5 DEF WaitCreated, Step
  <2> HIDE DEF obj
  <2>5. Copy(mem', mem) /\ SameError(mem', mem) /\ mem'.status.id = mem.status.id
    BY <2>1, <2>2, <2>3, <2>4 DEF Copy, Like, SameError, Object, Status
  <2>6. NoneFalls /\ OnlySpends
    BY <1>0, <1>5, CloudStands, SameBudget DEF WaitCreated, resourceVars
  <2> QED BY <1>5, <2>5, <2>6, RestCall DEF WaitCreated, Step
<1>6. CASE WaitCreatedFails
  BY <1>6, ReturnErrorRest DEF WaitCreatedFails
<1>7. CASE WriteCreated
  BY <1>7, RestDone DEF WriteCreated, Done, LastWrites
<1> QED BY <1>1, <1>2, <1>3, <1>4, <1>5, <1>6, <1>7 DEF Create

LEMMA WriteNotFoundRest ==
    ASSUME NEW reasons, Ready(reasons), WriteNotFound
    PROVE  RestStep(reasons)
<1>1. /\ mem \in Object /\ ReconcilerTypeOK /\ VersionInv
      /\ pc = "writeNotFound" /\ PersistStatus
  BY DEF Ready, LeakInv, ReconcilerTypeOK, RuntimeTypeOK, WriteNotFound
<1>2. ~Undrifted /\ ~Undrifted' /\ ~Calm'
  BY <1>1, CalmUnchanged DEF VersionInv, Kept, PersistStatus, Calm
<1>3. OnlySpends
  BY <1>1, SameBudget DEF PersistStatus
<1>7. WithinBounds'
  BY <1>3, ReadyCalm
<1>4. PICK e \in Errors : ReportError(mem, "NotFound", "NotFound", e)
  BY DEF WriteNotFound
<1>5. e \in Texts /\ "NotFound" \in Texts
  BY ErrorsAssumption, ReasonsAssumption DEF Reasons
<1>6. CacheVersion' /\ WorkerVersion'
  <2>1. CASE Done
    BY <1>1, <2>1, IdlePersistVersion DEF Done, Return, VersionInv
  <2>2. CASE mem' = SetErrorCondition(mem, "NotFound", "NotFound", e) /\ UNCHANGED queue
    <3>1. Copy(mem', mem)
      BY <1>1, <1>5, <2>2, ErrorCopy
    <3> QED BY <1>1, <2>2, <3>1, PersistVersion DEF VersionInv, DeletePoints
  <2> QED BY <1>4, <2>1, <2>2 DEF ReportError
<1> QED BY <1>2, <1>3, <1>6, <1>7 DEF RestStep, VersionInv, Kept, ErrorsAmong

\* What follows the comparison with the spec, on the way to the next write.
LEMMA SyncSpecCopy ==
    ASSUME NEW obj \in Object, NEW needsUpdate, SyncSpec(obj, needsUpdate)
    PROVE  /\ Copy(mem', obj) /\ SameError(mem', obj) /\ mem'.status.id = obj.status.id
           /\ pc' \in {"writeUpdating", "writeSynced"}
           /\ pc' = "writeSynced" => ~needsUpdate /\ IsTrue(mem'.status.conds, "Ready")
<1>1. CASE mem' = SetProgressing(obj, "Updating") /\ pc' = "writeUpdating"
  <2>1. Copy(mem', obj)
    BY <1>1, StandardCopy
  <2>2. SameError(mem', obj)
    BY <1>1, StandardCopy
  <2> QED BY <1>1, <2>1, <2>2, StandardChange DEF Reasons
<1>2. CASE mem' = SetAvailable(obj, "Synced") /\ pc' = "writeSynced" /\ ~needsUpdate
  <2>1. Copy(mem', obj)
    BY <1>2, StandardCopy
  <2>2. SameError(mem', obj)
    BY <1>2, StandardCopy
  <2>3. IsTrue(mem'.status.conds, "Ready")
    BY <1>2, StandardCopy
  <2> QED BY <1>2, <2>1, <2>2, <2>3, StandardChange DEF Reasons
<1> QED BY <1>1, <1>2 DEF SyncSpec

LEMMA UpdateStands ==
    ASSUME NEW i, NEW cfg, CloudUpdate(i, cfg), CloudTypeOK
    PROVE  NoneFalls /\ cloud'[i].cfg = cfg
BY DEF CloudUpdate, NoneFalls, Intact, Standing, CloudTypeOK

LEMMA SyncRest ==
    ASSUME NEW reasons, Ready(reasons), NEW needsUpdate, NEW needsUpdateOnceWritten,
           NEW cfg \in Cfgs, Sync(needsUpdate, needsUpdateOnceWritten, cfg)
    PROVE  RestStep(reasons)
<1> USE DEF WorkPoints, IdentityPoints, DeletePoints
<1>0. /\ mem \in Object /\ mem.status \in Status /\ CloudTypeOK /\ ReconcilerTypeOK
      /\ budget \in [Interferences -> Nat]
  BY DEF Ready, LeakInv, ReconcilerTypeOK, RuntimeTypeOK, Object
<1>1. CASE GetResource(needsUpdate)
  <2>1. NoneFalls /\ OnlySpends /\ pc = "get" /\ UNCHANGED <<objectVars, queue>>
    BY <1>0, <1>1, CloudStands, SameBudget DEF GetResource
  <2>2. CASE SyncSpec(mem, needsUpdate)
    <3>1. /\ Copy(mem', mem) /\ SameError(mem', mem) /\ mem'.status.id = mem.status.id
          /\ pc' \in {"writeUpdating", "writeSynced"}
      BY <1>0, <2>2, SyncSpecCopy
    <3> QED BY <2>1, <3>1, RestCall
  <2>3. CASE /\ pc' = "writeResourceStatus"
             /\ mem' = [mem EXCEPT !.status.res = cloud[mem.status.id].phase,
                                   !.status.err = NoError]
    <3>1. Copy(mem', mem) /\ SameError(mem', mem) /\ mem'.status.id = mem.status.id
      BY <1>0, <2>3 DEF Copy, Like, SameError, Object, Status
    <3> QED BY <2>1, <2>3, <3>1, RestCall
  <2> QED BY <1>1, <2>2, <2>3 DEF GetResource
<1>2. CASE GetNotFound
  <2>1. NoneFalls /\ OnlySpends
    BY <1>0, <1>2, CloudStands, SameBudget DEF GetNotFound, resourceVars
  <2>2. Copy(mem', mem)
    BY <1>0, <1>2, StandardCopy DEF GetNotFound, Step
  <2>3. SameError(mem', mem)
    BY <1>0, <1>2, StandardCopy DEF GetNotFound, Step
  <2>4. ~Undrifted
    BY <1>2, WorkIntact DEF GetNotFound, Step
  <2> QED BY <1>2, <2>1, <2>2, <2>3, <2>4, RestCall DEF GetNotFound, Step
<1>3. CASE GetFails
  <2>1. PICK e \in Errors : ReportError(mem, "GetFailed", "GetFailed", e)
    BY <1>3 DEF GetFails
  <2>2. e \in Texts /\ "GetFailed" \in Texts
    BY ErrorsAssumption, ReasonsAssumption DEF Reasons
  <2>3. NoneFalls
    BY <1>3, CloudStands DEF GetFails
  <2> QED BY <1>3, <2>1, <2>2, <2>3, RestFault DEF GetFails, CallFailed
<1>4. CASE WriteNotFound
  BY <1>4, WriteNotFoundRest
<1>5. CASE WriteResourceStatus(needsUpdateOnceWritten)
  <2>1. /\ Copy(mem', mem) /\ SameError(mem', mem) /\ mem'.status.id = mem.status.id
        /\ pc' \in {"writeUpdating", "writeSynced"}
    BY <1>0, <1>5, SyncSpecCopy DEF WriteResourceStatus
  <2> QED BY <1>5, <2>1, RestPersist DEF WriteResourceStatus
<1>6. CASE WriteUpdating
  BY <1>0, <1>6, RestPersist
     DEF WriteUpdating, PersistAndGo, Step, resourceVars, Copy, Like, SameError
<1>7. CASE UpdateResource(cfg)
  <2>1. NoneFalls /\ OnlySpends
    BY <1>0, <1>7, UpdateStands, SameBudget DEF UpdateResource
  <2>2. mem' = [mem EXCEPT !.status.res = cloud'[mem.status.id].phase, !.status.err = NoError]
        /\ pc = "update" /\ pc' = "writeUpdated" /\ UNCHANGED <<objectVars, queue>>
    BY <1>7 DEF UpdateResource, Step
  <2>3. Copy(mem', mem) /\ SameError(mem', mem) /\ mem'.status.id = mem.status.id
    BY <1>0, <2>2 DEF Copy, Like, SameError, Object, Status
  <2> QED BY <2>1, <2>2, <2>3, RestCall
<1>8. CASE Refetch
  <2>1. NoneFalls /\ OnlySpends
    BY <1>0, <1>8, CloudStands, SameBudget DEF Refetch, resourceVars
  <2>2. Copy(mem', mem) /\ SameError(mem', mem) /\ mem'.status.id = mem.status.id
    BY <1>0, <1>8 DEF Refetch, Step, Copy, Like, SameError, Object, Status
  <2> QED BY <1>8, <2>1, <2>2, RestCall DEF Refetch, Step
<1>9. CASE WriteRefetched
  <2>1. Copy(mem', mem)
    BY <1>0, <1>9, StandardCopy DEF WriteRefetched, PersistAndGo, Step
  <2>2. SameError(mem', mem)
    BY <1>0, <1>9, StandardCopy DEF WriteRefetched, PersistAndGo, Step
  <2>3. mem'.status.id = mem.status.id
    BY <1>0, <1>9, StandardChange DEF WriteRefetched, PersistAndGo, Step, Reasons
  <2> QED BY <1>9, <2>1, <2>2, <2>3, RestPersist
          DEF WriteRefetched, PersistAndGo, Step, resourceVars
<1>10. CASE WriteSynced
  BY <1>10, RestDone DEF WriteSynced, Done, LastWrites
<1> QED
  BY <1>1, <1>2, <1>3, <1>4, <1>5, <1>6, <1>7, <1>8, <1>9, <1>10 DEF Sync

LEMMA WriteUpdatedRest ==
    ASSUME NEW reasons, Ready(reasons), NEW next \in {"waitUpdated", "refetch"},
           WriteUpdated(next)
    PROVE  RestStep(reasons)
BY RestPersist DEF WriteUpdated, PersistAndGo, Step, resourceVars, Copy, Like, SameError,
       WorkPoints, IdentityPoints, DeletePoints

\* A reconcile of an adopted resource that finds nothing to write.
LEMMA RestAdopted ==
    ASSUME NEW reasons, Ready(reasons), Return(queue), pc \in AdoptPoints,
           UNCHANGED objectVars, UNCHANGED <<cloud, budget>>
    PROVE  RestStep(reasons)
<1>1. LeakInv /\ ReconcilerTypeOK /\ VersionInv /\ ErrorsAmong(reasons) /\ "" \in reasons
  BY DEF Ready, LeakInv
<1>2. OnlySpends
  BY <1>1, SameBudget
<1>3. WithinBounds' /\ (NeverSuspended' => NeverSuspended) /\ (Undrifted' => Undrifted)
  BY <1>2, ReadyCalm
<1>4. pc' = "idle" /\ mem' = Blank(0)
  BY DEF Return
<1>5. CacheVersion' /\ WorkerVersion'
  BY <1>1, <1>3, <1>4, IdleVersion DEF VersionInv
<1>6. Kept'
  BY <1>1, <1>3, <1>4, StepKept, CloudStands DEF VersionInv, WorkPoints, IdentityPoints, DeletePoints
<1>7. ErrorsAmong(reasons)'
  BY <1>1, <1>2, <1>3, <1>4, ReadyCalm, StepErrors, BlankError DEF SameError, objectVars
<1>8. Finishes
  BY <1>1 DEF Finishes, LeakInv, WorkerAgrees, AdoptPoints, Adopts, objectVars
<1> QED BY <1>2, <1>3, <1>5, <1>6, <1>7, <1>8 DEF RestStep, VersionInv

LEMMA ReadyCopy ==
    ASSUME NEW obj \in Object
    PROVE  LET ready == [obj EXCEPT !.status.conds =
                             SetStatusCondition(@, "Ready", "True", "Synced", "")]
           IN  Copy(ready, obj) /\ SameError(ready, obj)
BY DEF SetStatusCondition, Conditions, ConditionTypes, Copy, Like, SameError, Object, Status

LEMMA AdoptRest ==
    ASSUME NEW reasons, Ready(reasons), Adopt
    PROVE  RestStep(reasons)
<1> USE DEF WorkPoints, IdentityPoints, DeletePoints
<1>0. /\ mem \in Object /\ mem.status \in Status /\ CloudTypeOK /\ ReconcilerTypeOK /\ LeakInv
      /\ budget \in [Interferences -> Nat]
  BY DEF Ready, LeakInv, ReconcilerTypeOK, RuntimeTypeOK, Object
<1>1. CASE GetExternal
  <2> DEFINE obj == [mem EXCEPT !.status.id = mem.spec.ref, !.status.err = NoError]
             new == [obj EXCEPT !.status.res = cloud[mem.spec.ref].phase]
  <2>1. NoneFalls /\ OnlySpends /\ pc = "getExternal" /\ UNCHANGED objectVars
        /\ UNCHANGED <<cloud, budget>>
    BY <1>0, <1>1, CloudStands, SameBudget DEF GetExternal
  <2>2. cloud[mem.spec.ref].phase \in Phases
    BY <1>0, <1>1, PhaseType DEF GetExternal
  <2>3. obj \in Object
    BY <1>0, <2>2, AdoptedChange
  <2>4. Copy(obj, mem) /\ SameError(obj, mem) /\ Copy(new, mem) /\ SameError(new, mem)
    BY <1>0 DEF Copy, Like, SameError, Object, Status
  <2>5. CASE pc' = "writeAdopted" /\ mem' = new /\ UNCHANGED queue
    <3> HIDE DEF new
    <3> QED BY <2>1, <2>4, <2>5, RestCall
  <2>6. CASE AdoptedReady(obj)
    <3> HIDE DEF obj
    <3>1. CASE Done
      BY <2>1, <3>1, RestAdopted DEF Done, AdoptPoints
    <3>2. CASE /\ pc' = "writeAdoptedReady" /\ UNCHANGED queue
               /\ mem' = [obj EXCEPT !.status.conds =
                              SetStatusCondition(@, "Ready", "True", "Synced", "")]
      <4>1. Copy(mem', obj) /\ SameError(mem', obj)
        BY <2>3, <3>2, ReadyCopy
      <4>2. Copy(mem', mem) /\ SameError(mem', mem)
        BY <2>4, <4>1 DEF Copy, Like, SameError
      <4> QED BY <2>1, <3>2, <4>2, RestCall
    <3> QED BY <2>6, <3>1, <3>2 DEF AdoptedReady
  <2> QED BY <1>1, <2>5, <2>6 DEF GetExternal
<1>2. CASE GetExternalFails
  BY <1>2, ReturnErrorRest DEF GetExternalFails
<1>3. CASE WriteAdopted
  <2>1. Adopts(mem) /\ pc = "writeAdopted" /\ PersistStatus /\ UNCHANGED cloud
    BY <1>0, <1>3 DEF WriteAdopted, LeakInv, WorkerAgrees, AdoptPoints
  <2>2. CASE Done
    BY <2>1, <2>2, RestDone DEF Done, AdoptPoints
  <2>3. CASE /\ pc' = "writeAdoptedReady" /\ UNCHANGED queue
             /\ mem' = [mem EXCEPT !.status.conds =
                            SetStatusCondition(@, "Ready", "True", "Synced", "")]
    <3>1. Copy(mem', mem) /\ SameError(mem', mem)
      BY <1>0, <2>3, ReadyCopy
    <3> QED BY <2>1, <2>3, <3>1, RestPersist
  <2> QED BY <1>3, <2>2, <2>3 DEF WriteAdopted, AdoptedReady
<1>4. CASE WriteAdoptedReady
  BY <1>0, <1>4, RestDone DEF WriteAdoptedReady, Done, LeakInv, WorkerAgrees, AdoptPoints
<1> QED BY <1>1, <1>2, <1>3, <1>4 DEF Adopt

LEMMA DeleteRest ==
    ASSUME NEW reasons, Ready(reasons), Delete
    PROVE  RestStep(reasons)
<1> USE DEF WorkPoints, IdentityPoints, DeletePoints
<1>0. /\ mem \in Object /\ CloudTypeOK /\ ReconcilerTypeOK
      /\ budget \in [Interferences -> Nat]
  BY DEF Ready, LeakInv, ReconcilerTypeOK, RuntimeTypeOK
<1>1. Copy(mem, mem) /\ SameError(mem, mem)
  BY DEF Copy, Like, SameError
<1>2. CASE DeleteResource
  <2>1. DeleteFalls
    BY <1>0, <1>2 DEF DeleteResource, CloudDelete, DeleteFalls, Intact, Standing, CloudTypeOK
  <2>2. OnlySpends
    BY <1>0, <1>2, SameBudget DEF DeleteResource
  <2> QED BY <1>1, <1>2, <2>1, <2>2, RestCall DEF DeleteResource, Step
<1>3. CASE DeleteResourceFails
  BY <1>3, ReturnErrorRest DEF DeleteResourceFails
<1>4. CASE WaitDeleted
  <2>1. NoneFalls /\ OnlySpends
    BY <1>0, <1>4, CloudStands, SameBudget DEF WaitDeleted, resourceVars
  <2> QED BY <1>1, <1>4, <2>1, RestCall DEF WaitDeleted, Step
<1>5. CASE WaitDeletedFails
  BY <1>5, ReturnErrorRest DEF WaitDeletedFails
<1>6. CASE RemoveFinalizer
  BY <1>6, RemoveFinalizerRest
<1> QED BY <1>2, <1>3, <1>4, <1>5, <1>6 DEF Delete

LEMMA FailureRest ==
    ASSUME NEW reasons, Ready(reasons), WriteError \/ StatusWriteFails \/ Crash
    PROVE  RestStep(reasons)
<1>0. /\ ReconcilerTypeOK /\ LeakInv /\ budget \in [Interferences -> Nat]
      /\ VersionInv /\ ErrorsAmong(reasons) /\ "" \in reasons
  BY DEF Ready, LeakInv, ReconcilerTypeOK, RuntimeTypeOK
<1>1. CASE WriteError
  BY <1>1, RestPersistRequeued DEF WriteError
<1>2. CASE StatusWriteFails
  <2>1. OnlySpends
    BY <1>0, <1>2, SpendOnly DEF StatusWriteFails, GiveUp, Interferences
  <2> QED BY <1>2, <2>1, RestReturn DEF StatusWriteFails, GiveUp
<1>3. CASE Crash
  <2>1. OnlySpends
    BY <1>0, <1>3, SpendOnly DEF Crash, Restart, Interferences
  <2>2. WithinBounds' /\ (NeverSuspended' => NeverSuspended) /\ (Undrifted' => Undrifted)
    BY <2>1, ReadyCalm
  <2>3. /\ cache' = api /\ UNCHANGED <<api, cloud>> /\ pc' = "idle" /\ mem' = Blank(0)
        /\ queue' = IF api.exists THEN "ready" ELSE "empty"
    BY <1>3 DEF Crash, Restart
  <2>4. CacheVersion'
    BY <1>0, <2>2, <2>3, CacheTaken DEF VersionInv
  <2>5. Kept'
    BY <1>0, <2>2, <2>3, CacheTakenKept DEF VersionInv
  <2>6. ErrorsAmong(reasons)'
    BY <1>0, <2>1, <2>2, <2>3, ReadyCalm, StepErrors, BlankError DEF SameError
  <2>7. ~Unattended'
    BY <2>3 DEF Unattended
  <2> QED BY <2>1, <2>2, <2>3, <2>4, <2>5, <2>6, <2>7 DEF RestStep, VersionInv, WorkerVersion
<1> QED BY <1>1, <1>2, <1>3

-----------------------------------------------------------------------------
(* What goes on around the worker.                                         *)

\* What leaves the worker and the object alone, and takes nothing down.
LEMMA RestAround ==
    ASSUME NEW reasons, Ready(reasons), UNCHANGED <<objectVars, workerVars>>, OnlySpends,
           Undisturbed
    PROVE  RestStep(reasons)
<1>1. LeakInv /\ ReconcilerTypeOK /\ VersionInv /\ ErrorsAmong(reasons)
  BY DEF Ready, LeakInv
<1>2. UNCHANGED <<api, cache, unseen, queue, pc, mem>> /\ UNCHANGED objectVars
  BY DEF objectVars, workerVars
<1>3. WithinBounds' /\ (NeverSuspended' => NeverSuspended) /\ (Undrifted' => Undrifted)
  BY ReadyCalm
<1>4. CacheVersion'
  BY <1>1, <1>2, <1>3, CacheQuiet DEF VersionInv
<1>5. WorkerVersion'
  BY <1>1, <1>2 DEF VersionInv, WorkerVersion, Earlier
<1>6. NoneFalls
  BY DEF Undisturbed, NoneFalls
<1>7. Kept'
  BY <1>1, <1>2, <1>3, <1>6, StepKept DEF VersionInv, Kept
<1>8. ErrorsAmong(reasons)'
  BY <1>1, <1>2, ReadyCalm, StepErrors DEF SameError
<1>9. Unattended' => Finishes
  BY <1>2 DEF Unattended, Finishes
<1> QED BY <1>3, <1>4, <1>5, <1>7, <1>8, <1>9 DEF RestStep, VersionInv

\* The cloud goes on provisioning and removing.
LEMMA RestCloud ==
    ASSUME NEW reasons, Ready(reasons), UNCHANGED runtimeVars, Undisturbed
    PROVE  RestStep(reasons)
<1>1. OnlySpends
  BY SameBudget DEF Ready, LeakInv, runtimeVars
<1> QED BY <1>1, RestAround DEF runtimeVars

LEMMA DriftShows ==
    ASSUME NEW reasons, Ready(reasons), Spend("drifts")
    PROVE  ~Undrifted'
<1>1. budget'["drifts"] = budget["drifts"] - 1 /\ budget["drifts"] \in Nat
      /\ budget["drifts"] <= MaxDrifts
  BY DEF Ready, LeakInv, ReconcilerTypeOK, RuntimeTypeOK, Spend, VersionInv, WithinBounds, Bounds,
         Interferences
<1> QED BY <1>1, BoundsAssumption DEF Undrifted

\* Once something has drifted the invariant says no more than whose version is whose.
LEMMA RestDrift ==
    ASSUME NEW reasons, Ready(reasons), UNCHANGED <<objectVars, workerVars>>, Spend("drifts")
    PROVE  RestStep(reasons)
<1>1. LeakInv /\ ReconcilerTypeOK /\ VersionInv /\ budget \in [Interferences -> Nat]
  BY DEF Ready, LeakInv, ReconcilerTypeOK, RuntimeTypeOK
<1>2. UNCHANGED <<api, cache, unseen, queue, pc, mem>> /\ UNCHANGED objectVars
  BY DEF objectVars, workerVars
<1>3. OnlySpends
  BY <1>1, SpendOnly DEF Interferences
<1>4. WithinBounds' /\ (NeverSuspended' => NeverSuspended)
  BY <1>3, ReadyCalm
<1>6. ~Undrifted' /\ ~Calm'
  BY DriftShows DEF Calm
<1>7. CacheVersion'
  BY <1>1, <1>2, <1>4, CacheQuiet DEF VersionInv
<1>8. WorkerVersion'
  BY <1>1, <1>2 DEF VersionInv, WorkerVersion, Earlier
<1> QED BY <1>3, <1>4, <1>6, <1>7, <1>8 DEF RestStep, VersionInv, Kept, ErrorsAmong

LEMMA WatchRest ==
    ASSUME NEW reasons, Ready(reasons), Watch
    PROVE  RestStep(reasons)
<1>1. LeakInv /\ ReconcilerTypeOK /\ VersionInv /\ ErrorsAmong(reasons) /\ CacheSync
      /\ UNCHANGED cloud
  BY DEF Ready, LeakInv, Watch, resourceVars
<1>2. /\ cache' = api /\ UNCHANGED <<api, pc, mem, budget>>
      /\ queue' = "empty" =>
             /\ queue = "empty"
             /\ api.exists => cache.exists /\ cache.uid = api.uid /\ cache.gen = api.gen
  BY <1>1 DEF CacheSync
<1>3. OnlySpends
  BY <1>1, <1>2, SameBudget
<1>4. WithinBounds' /\ (Undrifted' => Undrifted)
  BY <1>3, ReadyCalm
<1>5. CacheVersion' /\ WorkerVersion'
  BY <1>1, WatchVersion DEF VersionInv
<1>6. Kept'
  BY <1>1, <1>2, <1>4, CacheTakenKept DEF VersionInv
<1>7. ErrorsAmong(reasons)'
  BY <1>1, <1>2, <1>3, ReadyCalm, StepErrors DEF SameError
<1>8. Unattended' => Unattended
  BY <1>2 DEF Unattended
<1>9. Undisturbed
  BY <1>1 DEF Undisturbed, Intact, Standing
<1> QED BY <1>3, <1>2, <1>4, <1>5, <1>6, <1>7, <1>8, <1>9 DEF RestStep, VersionInv, Finishes

LEMMA TimerRest ==
    ASSUME NEW reasons, Ready(reasons), Timer
    PROVE  RestStep(reasons)
<1>1. LeakInv /\ ReconcilerTypeOK /\ VersionInv /\ ErrorsAmong(reasons)
  BY DEF Ready, LeakInv
<1>2. /\ UNCHANGED <<api, cache, unseen, pc, mem, budget, cloud>> /\ UNCHANGED objectVars
      /\ queue' = "ready"
  BY DEF Timer, TimerFires, resourceVars, objectVars
<1>3. OnlySpends
  BY <1>1, <1>2, SameBudget
<1>4. WithinBounds' /\ (NeverSuspended' => NeverSuspended) /\ (Undrifted' => Undrifted)
  BY <1>3, ReadyCalm
<1>5. CacheVersion'
  BY <1>1, <1>2, <1>4, CacheQuiet DEF VersionInv
<1>6. WorkerVersion'
  BY <1>1, <1>2 DEF VersionInv, WorkerVersion, Earlier
<1>7. Kept'
  BY <1>1, <1>2, <1>4, CloudStands, StepKept DEF VersionInv, Kept
<1>8. ErrorsAmong(reasons)'
  BY <1>1, <1>2, <1>3, ReadyCalm, StepErrors DEF SameError
<1> QED BY <1>3, <1>2, <1>4, <1>5, <1>6, <1>7, <1>8 DEF RestStep, VersionInv, Unattended

\* What a user writes has the Error condition of the object it replaces, or none.
LEMMA UserError ==
    ASSUME ReconcilerTypeOK, User, NEW reasons, "" \in reasons
    PROVE  SameError(api', api) \/ ErrorIn(api', reasons)
<1>1. api \in Object
  BY DEF ReconcilerTypeOK, RuntimeTypeOK
<1>2. CASE api'.status = api.status
  BY <1>2 DEF SameError
<1>3. CASE api'.status = EmptyStatus
  <2>1. ErrorIn(Blank(0), reasons)
    BY BlankError
  <2> QED BY <1>3, <2>1 DEF ErrorIn, Blank
<1> QED BY <1>1, <1>2, <1>3
        DEF User, UserEdit, UserCreate, UserDelete, UserToggleSuspend, UserWrites, NewObject,
            Blank, Object

\* Whatever a user does is seen: the event filter lets new generations through.
LEMMA UserNoticed ==
    ASSUME ReconcilerTypeOK, ReconcilerTypeOK', WithinBounds, CacheVersion, User
    PROVE  ~(Calm' /\ Unattended')
<1> api \in Object /\ cache \in Object /\ budget \in [Interferences -> Nat]
    /\ "toggles" \in Interferences
  BY DEF ReconcilerTypeOK, RuntimeTypeOK, Interferences
<1>1. UNCHANGED cache
  BY DEF User, UserEdit, UserCreate, UserDelete, UserToggleSuspend, UserWrites
<1>2. api.gen \in Nat /\ cache.gen \in Nat /\ api.uid \in Nat /\ cache.uid \in Nat
  BY DEF Object
<1>3. CASE api'.exists /\ api.exists /\ api'.uid = api.uid /\ api'.gen = api.gen + 1
  BY <1>1, <1>2, <1>3 DEF CacheVersion, Earlier, Unattended
<1>4. ASSUME NEW spec \in Specs, UserEdit(spec) PROVE ~Unattended' \/ ~Calm'
  BY <1>3, <1>4 DEF UserEdit, UserWrites, Object
<1>5. ASSUME NEW spec \in Specs, UserCreate(spec) PROVE ~Unattended' \/ ~Calm'
  <2>1. api'.uid = api.uid + 1
    BY <1>5 DEF UserCreate, UserWrites, NewObject, Blank
  <2> QED BY <1>1, <1>2, <2>1 DEF CacheVersion, Earlier, Unattended
<1>6. CASE UserDelete
  <2>1. CASE api.fin
    BY <1>3, <1>6, <2>1 DEF UserDelete, UserWrites, Object
  <2>2. CASE ~api.fin
    BY <1>6, <2>2 DEF UserDelete, UserWrites, Blank, Unattended
  <2> QED BY <2>1, <2>2
<1>7. CASE UserToggleSuspend
  <2>1. budget'["toggles"] = budget["toggles"] - 1
    BY <1>7 DEF UserToggleSuspend, Spend
  <2>2. Bounds["toggles"] = MaxToggles /\ budget["toggles"] <= MaxToggles
    BY DEF Bounds, WithinBounds
  <2>3. ~NeverSuspended'
    BY <2>1, <2>2, BoundsAssumption DEF NeverSuspended
  <2> QED BY <2>3 DEF Calm
<1> QED BY <1>4, <1>5, <1>6, <1>7 DEF User

LEMMA UsersRest ==
    ASSUME NEW reasons, Ready(reasons), Users
    PROVE  RestStep(reasons)
<1>1. /\ LeakInv /\ ReconcilerTypeOK /\ ReconcilerTypeOK' /\ VersionInv /\ ErrorsAmong(reasons)
      /\ "" \in reasons /\ User /\ UNCHANGED cloud /\ budget \in [Interferences -> Nat]
  BY DEF Ready, LeakInv, Users, resourceVars, ReconcilerTypeOK, RuntimeTypeOK
<1>2. UNCHANGED <<cache, mem>>
  BY <1>1 DEF User, UserEdit, UserCreate, UserDelete, UserToggleSuspend, UserWrites
<1>3. OnlySpends
  BY <1>1, SpendOnly
     DEF User, UserEdit, UserCreate, UserDelete, UserToggleSuspend, Interferences
<1>4. WithinBounds' /\ (Undrifted' => Undrifted)
  BY <1>3, ReadyCalm
<1>5. CacheVersion' /\ WorkerVersion'
  BY <1>1, UserVersion DEF VersionInv
<1>6. Kept'
  BY <1>1, <1>4, UserKept DEF VersionInv
<1>7. ErrorsAmong(reasons)'
  BY <1>1, <1>2, <1>3, UserError, ReadyCalm, StepErrors DEF SameError
<1>8. ~(Calm' /\ Unattended')
  BY <1>1, UserNoticed DEF VersionInv
<1> QED BY <1>3, <1>4, <1>5, <1>6, <1>7, <1>8 DEF RestStep, VersionInv

LEMMA CloudUndisturbed ==
    ASSUME CloudTypeOK, CloudProgress
    PROVE  Undisturbed
<1>1. PICK i \in Ids : Provisioned(i) \/ Removed(i)
  BY DEF CloudProgress
<1>2. cloud \in [Ids -> Resource]
  BY DEF CloudTypeOK
<1>3. ASSUME NEW j \in Ids, Intact(j)
      PROVE  cloud'[j].phase \in Standing /\ cloud'[j].cfg = cloud[j].cfg
  <2>1. CASE Provisioned(i)
    BY <1>2, <1>3, <2>1 DEF Provisioned, Intact, Standing, Resource
  <2>2. CASE Removed(i)
    BY <1>2, <1>3, <2>2 DEF Removed, Intact, Standing, Resource
  <2> QED BY <1>1, <2>1, <2>2
<1> QED BY <1>3 DEF Undisturbed, Intact, Standing

LEMMA EnvironmentRest ==
    ASSUME NEW reasons, Ready(reasons), Watch \/ Timer \/ Users \/ Cloud
    PROVE  RestStep(reasons)
<1>1. CASE Watch \/ Timer \/ Users
  BY <1>1, WatchRest, TimerRest, UsersRest
<1>2. CASE Cloud
  BY <1>2, CloudUndisturbed, RestCloud DEF Cloud, Ready, LeakInv, ReconcilerTypeOK
<1> QED BY <1>1, <1>2

LEMMA InitBounds == ASSUME budget = Bounds PROVE WithinBounds
<1>1. \A k \in Interferences : Bounds[k] \in Nat
  BY BoundsAssumption DEF Bounds, Interferences
<1> QED BY <1>1 DEF WithinBounds

LEMMA InitRest ==
    ASSUME ReconcilerInit, NEW reasons, "" \in reasons
    PROVE  VersionInv /\ ErrorsAmong(reasons) /\ ~Unattended
<1>1. PICK spec \in Specs : api = NewObject(1, spec)
  BY DEF ReconcilerInit, RuntimeInit
<1>2. /\ cache = Blank(0) /\ mem = Blank(0) /\ unseen = FALSE /\ pc = "idle" /\ budget = Bounds
  BY DEF ReconcilerInit, RuntimeInit
<1>3. /\ cache.exists = FALSE /\ cache.deleting = FALSE /\ cache.suspended = FALSE
      /\ api.deleting = FALSE /\ api.suspended = FALSE /\ api.fin = FALSE
      /\ api.status = EmptyStatus /\ Blank(0).status = EmptyStatus
  BY <1>1, <1>2 DEF Blank, NewObject
<1>4. WithinBounds
  BY <1>2, InitBounds
<1>5. CacheVersion /\ WorkerVersion
  BY <1>2, <1>3 DEF CacheVersion, Earlier, WorkerVersion
<1>6. Kept
  BY <1>2, <1>3 DEF Kept, WorkPoints, IdentityPoints, DeletePoints
<1>7. ErrorIn(Blank(0), reasons)
  BY BlankError
<1>8. ErrorsAmong(reasons)
  BY <1>2, <1>3, <1>7 DEF ErrorIn, ErrorsAmong
<1> QED BY <1>3, <1>4, <1>5, <1>6, <1>8 DEF VersionInv, Unattended

-----------------------------------------------------------------------------
(* What has been applied stays applied until the last write.               *)

LEMMA AppliedNowhere ==
    ASSUME NEW agree, pc' \notin AppliedPoints \cup {"writeResourceStatus"}
    PROVE  Applied(agree)'
BY DEF Applied, AppliedPoints

\* Where a resource is at work on, it is there.
LEMMA AppliedIntact ==
    ASSUME NEW reasons, Ready(reasons), Undrifted,
           pc \in AppliedPoints \cup {"writeResourceStatus"}
    PROVE  Intact(mem.status.id) /\ Exists(mem.status.id)
BY WorkIntact DEF AppliedPoints, LastWrites, IdentityPoints, DeletePoints

LEMMA AppliedKept ==
    ASSUME NEW reasons, Ready(reasons), OnlySpends, Undisturbed,
           NEW before, NEW after, Applied(before), before \subseteq after,
           pc' \in AppliedPoints \cup {"writeResourceStatus"} =>
               mem'.status.id = mem.status.id /\ mem'.spec = mem.spec,
           pc' \in AppliedPoints => pc \in AppliedPoints,
           pc' = "writeResourceStatus" => pc = "writeResourceStatus" /\ fetched' = fetched,
           Undrifted /\ pc' \in LastWrites => IsTrue(mem'.status.conds, "Ready")
    PROVE  Applied(after)'
<1> SUFFICES ASSUME Undrifted' PROVE Applied(after)'
  BY DEF Applied
<1>1. Undrifted
  BY ReadyCalm
<1>2. ASSUME pc' \in AppliedPoints \cup {"writeResourceStatus"}
      PROVE  cloud'[mem'.status.id].cfg = cloud[mem.status.id].cfg
  <2>1. Intact(mem.status.id)
    BY <1>1, <1>2, AppliedIntact
  <2> QED BY <1>2, <2>1 DEF Undisturbed, Intact
<1>3. pc' \in AppliedPoints => <<mem'.spec, cloud'[mem'.status.id].cfg>> \in after
  BY <1>1, <1>2 DEF Applied
<1>4. pc' = "writeResourceStatus" => fetched'.cfg = cloud'[mem'.status.id].cfg
  BY <1>1, <1>2 DEF Applied
<1> QED BY <1>1, <1>3, <1>4 DEF Applied

LEMMA CloudUntouched == ASSUME UNCHANGED cloud PROVE Undisturbed
BY DEF Undisturbed, Intact, Standing

LEMMA CreateApplied ==
    ASSUME NEW reasons, Ready(reasons), NEW agree, Applied(agree), NEW cfg \in Cfgs,
           pc = "create" => <<mem.spec, cfg>> \in agree, Create(cfg)
    PROVE  Applied(agree)'
<1> USE DEF AppliedPoints, LastWrites
<1>0. mem \in Object /\ mem.status \in Status /\ CloudTypeOK /\ ReconcilerTypeOK
  BY DEF Ready, LeakInv, ReconcilerTypeOK, RuntimeTypeOK, Object
<1>1. CASE WriteCreating \/ CreateResourceFails(cfg) \/ WaitCreatedFails \/ WriteCreated
  BY <1>1, AppliedNowhere
     DEF WriteCreating, PersistAndGo, Step, CreateResourceFails, ReportError, Done, Return,
         WaitCreatedFails, ReturnError, WriteCreated
<1>2. CASE CreateResource(cfg)
  <2>1. PICK i \in OwnIds :
          /\ mem' = [mem EXCEPT !.status.id = i, !.status.res = "pending", !.status.err = NoError]
          /\ CloudCreate(i, cfg) /\ pc = "create" /\ pc' = "writeResourceId"
    BY <1>2 DEF CreateResource, Step
  <2>2. mem'.status.id = i /\ mem'.spec = mem.spec
    BY <1>0, <2>1 DEF Object, Status
  <2>3. cloud'[i].cfg = cfg
    BY <1>0, <2>1, CreationStands DEF CloudCreate, Standing
  <2> QED BY <2>1, <2>2, <2>3 DEF Applied
<1>3. CASE WriteResourceId
  <2>1. OnlySpends /\ Undisturbed
    BY <1>0, <1>3, SameBudget, CloudUntouched
       DEF WriteResourceId, PersistAndGo, PersistStatus, resourceVars
  <2> QED BY <1>3, <2>1, AppliedKept DEF WriteResourceId, PersistAndGo, Step
<1>4. CASE WaitCreated
  <2> DEFINE obj == SetAvailable(mem, "Created")
  <2>1. OnlySpends /\ Undisturbed
    BY <1>0, <1>4, SameBudget, CloudUntouched DEF WaitCreated, resourceVars
  <2>2. Copy(obj, mem)
    BY <1>0, StandardCopy
  <2>3. IsTrue(obj.status.conds, "Ready")
    BY <1>0, StandardCopy
  <2>4. obj \in Object /\ obj.status.id = mem.status.id
    BY <1>0, StandardChange DEF Reasons
  <2>5. mem' = [obj EXCEPT !.status.err = NoError]
    BY <1>4 DEF WaitCreated, Step
  <2> HIDE DEF obj
  <2>6. /\ mem'.spec = mem.spec /\ mem'.status.id = mem.status.id
        /\ IsTrue(mem'.status.conds, "Ready")
    BY <2>2, <2>3, <2>4, <2>5 DEF Copy, Like, IsTrue, Object, Status
  <2> QED BY <1>4, <2>1, <2>6, AppliedKept DEF WaitCreated, Step
<1> QED BY <1>1, <1>2, <1>3, <1>4 DEF Create

LEMMA SyncApplied ==
    ASSUME NEW reasons, Ready(reasons), NEW agree, Applied(agree),
           NEW needsUpdate, NEW needsUpdateOnceWritten, NEW cfg \in Cfgs,
           pc = "get" /\ ~needsUpdate => <<mem.spec, cloud[mem.status.id].cfg>> \in agree,
           pc = "writeResourceStatus" /\ ~needsUpdateOnceWritten =>
               <<mem.spec, fetched.cfg>> \in agree,
           pc = "update" => <<mem.spec, cfg>> \in agree,
           Sync(needsUpdate, needsUpdateOnceWritten, cfg)
    PROVE  Applied(agree)'
<1> USE DEF AppliedPoints, LastWrites
<1>0. mem \in Object /\ mem.status \in Status /\ CloudTypeOK /\ ReconcilerTypeOK
  BY DEF Ready, LeakInv, ReconcilerTypeOK, RuntimeTypeOK, Object
<1>1. CASE GetNotFound \/ GetFails \/ WriteNotFound \/ WriteUpdating \/ WriteSynced
  BY <1>1, AppliedNowhere
     DEF GetNotFound, GetFails, WriteNotFound, WriteUpdating, PersistAndGo, Step, WriteSynced,
         ReportError, Done, Return
<1>2. CASE GetResource(needsUpdate)
  <2>1. UNCHANGED cloud /\ pc = "get"
    BY <1>2 DEF GetResource
  <2>2. CASE SyncSpec(mem, needsUpdate)
    <3>1. /\ Copy(mem', mem) /\ mem'.status.id = mem.status.id
          /\ pc' \in {"writeUpdating", "writeSynced"}
          /\ pc' = "writeSynced" => ~needsUpdate /\ IsTrue(mem'.status.conds, "Ready")
      BY <1>0, <2>2, SyncSpecCopy
    <3> QED BY <2>1, <3>1 DEF Applied, Copy, Like
  <2>3. CASE /\ pc' = "writeResourceStatus" /\ fetched' = cloud[mem.status.id]
             /\ mem' = [mem EXCEPT !.status.res = cloud[mem.status.id].phase,
                                   !.status.err = NoError]
    <3>1. mem'.status.id = mem.status.id
      BY <1>0, <2>3 DEF Object, Status
    <3> QED BY <2>1, <2>3, <3>1 DEF Applied
  <2> QED BY <1>2, <2>2, <2>3 DEF GetResource
<1>3. CASE WriteResourceStatus(needsUpdateOnceWritten)
  <2>1. SyncSpec(mem, needsUpdateOnceWritten) /\ UNCHANGED <<cloud, budget>>
        /\ pc = "writeResourceStatus"
    BY <1>3 DEF WriteResourceStatus, PersistStatus
  <2>2. /\ Copy(mem', mem) /\ mem'.status.id = mem.status.id
        /\ pc' \in {"writeUpdating", "writeSynced"}
        /\ pc' = "writeSynced" =>
               ~needsUpdateOnceWritten /\ IsTrue(mem'.status.conds, "Ready")
    BY <1>0, <2>1, SyncSpecCopy
  <2>3. Undrifted' = Undrifted
    BY <2>1, CalmUnchanged
  <2> QED BY <2>1, <2>2, <2>3 DEF Applied, Copy, Like
<1>4. CASE UpdateResource(cfg)
  <2>1. /\ mem' = [mem EXCEPT !.status.res = cloud'[mem.status.id].phase,
                              !.status.err = NoError]
        /\ pc = "update" /\ pc' = "writeUpdated" /\ CloudUpdate(mem.status.id, cfg)
    BY <1>4 DEF UpdateResource, Step
  <2>2. mem'.status.id = mem.status.id /\ mem'.spec = mem.spec
    BY <1>0, <2>1 DEF Object, Status
  <2>3. cloud'[mem.status.id].cfg = cfg
    BY <1>0, <2>1, UpdateStands
  <2> QED BY <2>1, <2>2, <2>3 DEF Applied
<1>5. CASE Refetch
  <2>1. OnlySpends /\ Undisturbed
    BY <1>0, <1>5, SameBudget, CloudUntouched DEF Refetch, resourceVars
  <2>2. mem'.status.id = mem.status.id /\ mem'.spec = mem.spec
    BY <1>0, <1>5 DEF Refetch, Step, Object, Status
  <2> QED BY <1>5, <2>1, <2>2, AppliedKept DEF Refetch, Step
<1>6. CASE WriteRefetched
  <2>1. OnlySpends /\ Undisturbed
    BY <1>0, <1>6, SameBudget, CloudUntouched
       DEF WriteRefetched, PersistAndGo, PersistStatus, resourceVars
  <2>2. Copy(mem', mem)
    BY <1>0, <1>6, StandardCopy DEF WriteRefetched, PersistAndGo, Step
  <2>3. IsTrue(mem'.status.conds, "Ready")
    BY <1>0, <1>6, StandardCopy DEF WriteRefetched, PersistAndGo, Step
  <2>4. mem'.status.id = mem.status.id
    BY <1>0, <1>6, StandardChange DEF WriteRefetched, PersistAndGo, Step, Reasons
  <2> QED BY <1>6, <2>1, <2>2, <2>3, <2>4, AppliedKept
          DEF WriteRefetched, PersistAndGo, Step, Copy, Like
<1> QED BY <1>1, <1>2, <1>3, <1>4, <1>5, <1>6 DEF Sync

LEMMA WriteUpdatedApplied ==
    ASSUME NEW reasons, Ready(reasons), NEW agree, Applied(agree),
           NEW next \in {"waitUpdated", "refetch"}, WriteUpdated(next)
    PROVE  Applied(agree)'
<1>1. OnlySpends /\ Undisturbed
  BY SameBudget, CloudUntouched
     DEF WriteUpdated, PersistAndGo, PersistStatus, resourceVars, Ready, LeakInv
<1> QED BY <1>1, AppliedKept DEF WriteUpdated, PersistAndGo, Step, AppliedPoints, LastWrites

\* The steps that are on the way neither to nor from an update.
LEMMA SharedApplied ==
    ASSUME NEW agree,
           \/ ReconcileAnyKind \/ CreateOrSync \/ Adopt \/ Delete
           \/ WriteError \/ StatusWriteFails \/ Crash
    PROVE  Applied(agree)'
<1> USE DEF AppliedPoints, LastWrites
<1>1. CASE ReconcileAnyKind \/ CreateOrSync
  BY <1>1, AppliedNowhere
     DEF ReconcileAnyKind, ReconcileNothing, ReconcileDelete, ReconcileExternalReference,
         ReconcileInvalidSpec, ReconcileNoFinalizer, AddFinalizer, CreateOrSync, Dequeue,
         DequeueIgnored, DequeueReporting, CanDequeue, Return, UpdateObjectFails
<1>2. CASE Adopt
  BY <1>2, AppliedNowhere
     DEF Adopt, GetExternal, GetExternalFails, WriteAdopted, WriteAdoptedReady, AdoptedReady,
         Done, Return, ReturnError
<1>3. CASE Delete
  BY <1>3, AppliedNowhere
     DEF Delete, DeleteResource, DeleteResourceFails, WaitDeleted, WaitDeletedFails,
         RemoveFinalizer, Step, Return, ReturnError, UpdateObjectFails
<1>4. CASE WriteError \/ StatusWriteFails \/ Crash
  BY <1>4, AppliedNowhere DEF WriteError, StatusWriteFails, GiveUp, Crash, Restart, Return
<1> QED BY <1>1, <1>2, <1>3, <1>4

LEMMA EnvironmentApplied ==
    ASSUME NEW reasons, Ready(reasons), NEW before, NEW after, Applied(before),
           before \subseteq after, UNCHANGED <<pc, mem, fetched>>, OnlySpends, Undisturbed
    PROVE  Applied(after)'
BY AppliedKept DEF Applied

\* So a reconcile that has nothing more to do leaves the resource as the CR says.
LEMMA RestsSettled ==
    ASSUME NEW reasons, Ready(reasons), RestStep(reasons), Blameless(reasons),
           NEW before, NEW after, Applied(before), before \subseteq after,
           Calm /\ Unattended /\ ~Adopts(api) /\ api.spec.valid
               => ~api.deleting /\ Settled(before),
           Calm', Unattended', ~Adopts(api'), api'.spec.valid
    PROVE  ~api'.deleting /\ Settled(after)'
<1>1. Calm /\ Undrifted /\ Finishes
  BY ReadyCalm DEF RestStep, Calm
<1>2. CASE WritesLast
  <2>1. pc \in AppliedPoints /\ IsTrue(mem.status.conds, "Ready") /\ UNCHANGED cloud
    BY <1>1, <1>2 DEF WritesLast, Applied, AppliedPoints
  <2>2. Exists(mem.status.id) /\ <<mem.spec, cloud[mem.status.id].cfg>> \in before
    BY <1>1, <2>1, AppliedIntact DEF Applied
  <2>3. Exists(api.status.id)'
    BY <1>2, <2>1, <2>2 DEF Exists, WritesLast
  <2> QED BY <1>2, <2>1, <2>2, <2>3 DEF WritesLast, Settled, IsTrue
<1>3. CASE Unattended /\ UNCHANGED api /\ Undisturbed
  <2>1. ~api.deleting /\ Settled(before)
    BY <1>1, <1>3
  <2>2. api.exists /\ api.fin /\ api.status.id # NoId
    BY <1>3, <2>1, IdsAssumption
       DEF Unattended, Settled, Exists, Ids, Ready, LeakInv, CacheAgrees, WellFormed
  <2>3. Intact(api.status.id)
    BY <1>1, <2>1, <2>2 DEF Ready, VersionInv, Kept
  <2>4. Exists(api.status.id)' /\ cloud'[api.status.id].cfg = cloud[api.status.id].cfg
    BY <1>3, <2>3 DEF Undisturbed, Intact, Exists
  <2> QED BY <1>3, <2>1, <2>4 DEF Settled, Exists
<1> QED BY <1>1, <1>2, <1>3 DEF Finishes
===============================================================================
