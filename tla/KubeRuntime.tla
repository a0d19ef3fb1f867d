------------------------------ MODULE KubeRuntime ------------------------------
(***************************************************************************)
(* What a controller runs on: one custom resource as the API server stores *)
(* it, the informer cache the controller reads it from, the work queue,    *)
(* the one worker that runs Reconcile, and the users of the cluster.       *)
(*                                                                         *)
(* A reconcile is a walk over program points.  Its in-memory copy of the   *)
(* object is mem; it reaches the API server in two ways only:              *)
(*   - updateStatusWithRetry: a fresh Get from the cache, the in-memory    *)
(*     status copied over the whole status, Status().Update, retried five  *)
(*     times whatever the error (PersistStatus / GiveUp);                  *)
(*   - Update of the object read at the start, for the finalizer           *)
(*     (UpdateObject), refused when the object has changed since.          *)
(* The API server refuses a write whose resourceVersion is not the current *)
(* one, so a status write succeeds only when the cache has caught up.      *)
(***************************************************************************)
EXTENDS Thalassa, Conditions

CONSTANTS
    Specs,        \* the specs a user writes: spec.resourceId, whether the fields
                  \* a provisioned resource needs are there, and the kind's own
    Errors,       \* error texts
    StableMode,   \* users never move a name between provisioned and adopted
    ReadOwnWrites,\* a reconcile starts only from a cache with its last write
    MaxEdits, MaxToggles, MaxFaults, MaxCrashes, MaxDrifts,
    MaxMishaps    \* bound of the last three together

ASSUME SpecsAssumption ==
    /\ Specs # {}
    /\ \A s \in Specs : s.ref \in ExtIds \cup {NoId} /\ s.valid \in BOOLEAN

ASSUME ErrorsAssumption == Errors \subseteq Texts

ASSUME SwitchesAssumption == StableMode \in BOOLEAN /\ ReadOwnWrites \in BOOLEAN

ASSUME BoundsAssumption ==
    /\ MaxEdits \in Nat /\ MaxToggles \in Nat
    /\ MaxFaults \in Nat /\ MaxCrashes \in Nat /\ MaxDrifts \in Nat /\ MaxMishaps \in Nat

VARIABLES
    api,      \* the object the API server stores
    cache,    \* the object as the informer cache last saw it
    unseen,   \* the controller's last write is not in the cache yet
    queue,    \* the object's entry in the work queue
    pc,       \* where the worker is
    mem,      \* the worker's copy of the object
    fresh,    \* mem's resourceVersion is still the API server's
    budget    \* how often users, faults and crashes may still interfere

objectVars == <<api, cache, unseen>>
workerVars == <<queue, pc, mem, fresh>>
runtimeVars == <<objectVars, workerVars, budget>>

NoError == ""

Status == [id : Ids \cup {NoId},                \* status.resourceId
           res : Phases \cup {""},              \* status.resourceStatus
           err : Texts,                         \* status.lastReconcileError
           obsGen : Nat,                        \* status.observedGeneration
           conds : Conditions]

EmptyStatus == [id |-> NoId, res |-> "", err |-> NoError, obsGen |-> 0,
                conds |-> NoConditions]

Object == [exists : BOOLEAN, uid : Nat, gen : Nat, deleting : BOOLEAN,
           fin : BOOLEAN, suspended : BOOLEAN, spec : Specs, status : Status]

\* No object; uid is that of the last one that had the name.
Blank(uid) == [exists |-> FALSE, uid |-> uid, gen |-> 0, deleting |-> FALSE,
               fin |-> FALSE, suspended |-> FALSE,
               spec |-> CHOOSE s \in Specs : TRUE, status |-> EmptyStatus]

NewObject(uid, spec) == [Blank(uid) EXCEPT !.exists = TRUE, !.gen = 1, !.spec = spec]

\* spec.resourceId selects adoption.
Adopts(obj) == obj.spec.ref # NoId

Interferences == {"edits", "toggles", "faults", "crashes", "drifts"}

Bounds == [k \in Interferences |-> CASE k = "edits" -> MaxEdits
                                     [] k = "toggles" -> MaxToggles
                                     [] k = "faults" -> MaxFaults
                                     [] k = "crashes" -> MaxCrashes
                                     [] k = "drifts" -> MaxDrifts]

RuntimeTypeOK ==
    /\ api \in Object
    /\ cache \in Object
    /\ unseen \in BOOLEAN
    /\ queue \in {"empty", "waiting", "ready"}
    /\ mem \in Object
    /\ fresh \in BOOLEAN
    /\ budget \in [Interferences -> Nat]

\* The object has just been created and no event has arrived yet.
RuntimeInit ==
    /\ \E spec \in Specs : api = NewObject(1, spec)
    /\ cache = Blank(0)
    /\ unseen = FALSE
    /\ queue = "empty"
    /\ pc = "idle"
    /\ mem = Blank(0)
    /\ fresh = FALSE
    /\ budget = Bounds

Mishaps ==
    (MaxFaults - budget["faults"]) + (MaxCrashes - budget["crashes"]) + (MaxDrifts - budget["drifts"])

Spend(kind) ==
    /\ budget[kind] > 0
    /\ kind \in {"faults", "crashes", "drifts"} => Mishaps < MaxMishaps
    /\ budget' = [budget EXCEPT ![kind] = @ - 1]

-----------------------------------------------------------------------------
(* The work queue and the informer.                                        *)

\* Result{RequeueAfter: d} or an error: the entry becomes due later, unless an
\* event made it due meanwhile.
Requeued == IF queue = "empty" THEN "waiting" ELSE queue

\* The shortest delay is a second, and the informer lags for less; an event has
\* no delay, so the reconcile it starts may precede the view of the last write.
TimerFires ==
    /\ queue = "waiting"
    /\ ~unseen
    /\ queue' = "ready"
    /\ UNCHANGED <<objectVars, pc, mem, fresh, budget>>

CacheIsCurrent == cache = api /\ ~unseen

\* Mutant: only creations pass the event filter.
CacheSyncCreationsOnly ==
    /\ ~CacheIsCurrent
    /\ cache' = api
    /\ unseen' = FALSE
    /\ queue' = IF api.exists /\ (~cache.exists \/ cache.uid # api.uid) THEN "ready" ELSE queue
    /\ UNCHANGED <<api, pc, mem, fresh, budget>>

\* Mutant: no event filter, the controller's own status writes wake it.
CacheSyncUnfiltered ==
    /\ ~CacheIsCurrent
    /\ cache' = api
    /\ unseen' = FALSE
    /\ queue' = IF api.exists THEN "ready" ELSE queue
    /\ UNCHANGED <<api, pc, mem, fresh, budget>>

\* A watch event.  The event filter lets through creations and changes of
\* metadata.generation only: status, annotation and finalizer changes enqueue
\* nothing, nor does the object's disappearance.
CacheSync ==
    /\ ~CacheIsCurrent
    /\ cache' = api
    /\ unseen' = FALSE
    /\ queue' = IF api.exists /\ (~cache.exists \/ cache.uid # api.uid \/ cache.gen # api.gen)
                THEN "ready" ELSE queue
    /\ UNCHANGED <<api, pc, mem, fresh, budget>>

-----------------------------------------------------------------------------
(* The worker.                                                             *)

\* The Get Reconcile starts with may run from this state.
CanDequeue ==
    /\ pc = "idle"
    /\ queue = "ready"
    /\ ReadOwnWrites => ~unseen

Dequeue(obj, at) ==
    /\ CanDequeue
    /\ queue' = "empty"
    /\ mem' = obj
    /\ pc' = at
    /\ fresh' = CacheIsCurrent
    /\ UNCHANGED <<objectVars, budget>>

\* Reconcile returns before it does anything.
DequeueIgnored ==
    /\ CanDequeue
    /\ queue' = "empty"
    /\ UNCHANGED <<objectVars, pc, mem, fresh, budget>>

\* Reconcile returns before it writes anything and asks to be called again.
DequeueAgain ==
    /\ CanDequeue
    /\ queue' = "waiting"
    /\ UNCHANGED <<objectVars, pc, mem, fresh, budget>>

Step(from, to, obj) ==
    /\ pc = from
    /\ pc' = to
    /\ mem' = obj
    /\ UNCHANGED queue

\* Reconcile returns; requeue is what it asks of the queue.
Return(requeue) ==
    /\ pc' = "idle"
    /\ mem' = Blank(0)
    /\ fresh' = FALSE
    /\ queue' = requeue

\* One updateStatusWithRetry that succeeds.  Every write counts: it carries a
\* new lastReconcileTime even when the rest is unchanged.
PersistStatus ==
    /\ api.exists
    /\ CacheIsCurrent
    /\ api' = [api EXCEPT !.status = mem.status]
    /\ unseen' = TRUE
    /\ UNCHANGED <<cache, budget>>

\* A status write between two program points.
PersistAndGo(from, to, obj) ==
    /\ Step(from, to, obj)
    /\ fresh' = FALSE
    /\ PersistStatus

\* One updateStatusWithRetry that returns an error: the object is gone, the API
\* server fails, or the cache lags for longer than the five attempts take.
GiveUp ==
    /\ \/ ~api.exists /\ UNCHANGED budget
       \/ Spend("faults")
    /\ Return(Requeued)
    /\ UNCHANGED objectVars

\* Update of the object read at the start; obj is what the API server has next.
UpdateObject(obj) ==
    /\ fresh
    /\ api' = obj
    /\ unseen' = TRUE
    /\ UNCHANGED <<cache, budget>>

\* Mutant: the error is logged and nil returned.
UpdateObjectFailsSilently ==
    /\ \/ ~fresh /\ UNCHANGED budget
       \/ Spend("faults")
    /\ Return(queue)
    /\ UNCHANGED objectVars

\* The update conflicts, or the API server fails.
UpdateObjectFails ==
    /\ \/ ~fresh /\ UNCHANGED budget
       \/ Spend("faults")
    /\ Return(Requeued)
    /\ UNCHANGED objectVars

\* The process stops and a new one lists the objects before it starts.
Restart ==
    /\ Spend("crashes")
    /\ cache' = api
    /\ unseen' = FALSE
    /\ pc' = "idle"
    /\ mem' = Blank(0)
    /\ fresh' = FALSE
    /\ queue' = IF api.exists THEN "ready" ELSE "empty"
    /\ UNCHANGED api

-----------------------------------------------------------------------------
(* Users.                                                                  *)

KeepsMode(spec) == StableMode => ((spec.ref = NoId) = (api.spec.ref = NoId))

UserWrites(obj) ==
    /\ api' = obj
    /\ fresh' = FALSE
    /\ UNCHANGED <<cache, unseen, queue, pc, mem>>

UserEdit(spec) ==
    /\ api.exists
    /\ spec # api.spec
    /\ KeepsMode(spec)
    /\ Spend("edits")
    /\ UserWrites([api EXCEPT !.spec = spec, !.gen = @ + 1])

\* With a finalizer the API server only marks the object.
UserDelete ==
    /\ api.exists
    /\ ~api.deleting
    /\ Spend("edits")
    /\ UserWrites(IF api.fin THEN [api EXCEPT !.deleting = TRUE, !.gen = @ + 1]
                  ELSE [Blank(api.uid) EXCEPT !.spec = api.spec])

\* An object of the same name is created again.
UserCreate(spec) ==
    /\ ~api.exists
    /\ KeepsMode(spec)
    /\ Spend("edits")
    /\ UserWrites(NewObject(api.uid + 1, spec))

\* The suspend annotation is set or removed: no new generation.
UserToggleSuspend ==
    /\ api.exists
    /\ Spend("toggles")
    /\ UserWrites([api EXCEPT !.suspended = ~@])

User == \/ \E spec \in Specs : UserEdit(spec) \/ UserCreate(spec)
        \/ UserDelete
        \/ UserToggleSuspend
===============================================================================
