------------------------ MODULE StorageControllerProofs ------------------------
(***************************************************************************)
(* Theorems about StorageController, for its four kinds and any lists of   *)
(* references: the types, and under Modes that no volume, snapshot, policy *)
(* or instance is forgotten, that there are never two, that the            *)
(* reconcilers implement their abstract specifications, and that they come *)
(* to rest only in sync, with the error cleared.                           *)
(***************************************************************************)
EXTENDS StorageController, DependentReconcilerProofs

-----------------------------------------------------------------------------
(* The shape of each action of the worker.                                 *)

LEMMA StorageTexts ==
    /\ Errors \subseteq Texts
    /\ {"RegionNotFound", "FailedListVolumeTypes", "FailedFindVolumeType", "FailedUpdate",
        "DeleteFailed", "Created", "Creating", "Updating", "Reconciled"} \subseteq Texts
BY ErrorsAssumption, ReasonsAssumption, StorageReasonsAssumption, TextsAssumption DEF Reasons

LEMMA RegionShape ==
    ASSUME TypeOK, GetCloudRegionIdentity \/ GetCloudRegionIdentityFails
    PROVE  Shape
<1> ReconcilerTypeOK /\ mem \in Object /\ fetched \in Resource
  BY MemFacts DEF TypeOK, ReconcilerTypeOK
<1>1. CASE GetCloudRegionIdentity
  <2>1. Variant(mem', mem) /\ pc = "getRegion"
        /\ \/ pc' = "writeCreating" /\ mem.status.id = NoId
           \/ pc' = "get" /\ mem.status.id # NoId
    BY <1>1, VariantSame, VariantReported, StorageTexts DEF GetCloudRegionIdentity
  <2>2. Onward
    BY <2>1 DEF Onward, IdentityPoints, CreatePoints, DeletePoints, NeedRefs
  <2>3. UNCHANGED <<objectVars, queue, fresh, budget, cloud, fetched, lost>>
    BY <1>1 DEF GetCloudRegionIdentity, resourceVars
  <2> QED
    BY <2>1, <2>2, <2>3, Answered DEF CallPoints, FinalizerPoints, IdentityPoints, CreatePoints
<1>2. CASE GetCloudRegionIdentityFails
  BY <1>2, StorageTexts, Reported DEF GetCloudRegionIdentityFails, ReportingPoints
<1> QED BY <1>1, <1>2

LEMMA CreateVolumeShape ==
    ASSUME TypeOK, CreateBlockVolume
    PROVE  Shape
<1> ReconcilerTypeOK /\ mem \in Object /\ fetched \in Resource
  BY MemFacts DEF TypeOK, ReconcilerTypeOK
<1>1. CASE WriteCreatingVolume
  BY <1>1, VariantSame
     DEF WriteCreatingVolume, PersistAndGo, Step, resourceVars, Shape, Writes, NeedRefs
<1>2. CASE ListVolumeTypes
  BY <1>2, VariantSame, Answered
     DEF ListVolumeTypes, Step, resourceVars, Onward, CallPoints, FinalizerPoints, CreatePoints,
         IdentityPoints, DeletePoints, NeedRefs
<1>3. CASE FindVolumeTypeFails \/ ListVolumeTypesFails
  BY <1>3, StorageTexts, Reported DEF FindVolumeTypeFails, ListVolumeTypesFails, ReportingPoints
<1> QED BY <1>1, <1>2, <1>3, CreateAndWaitShape DEF CreateBlockVolume, TypeOK

LEMMA CreatePolicyShape ==
    ASSUME TypeOK, CreateSnapshotPolicy
    PROVE  Shape
<1>1. CASE CreatePolicy
  <2>1. PICK i \in OwnIds :
            /\ Step("create", "writeResourceId",
                    [SetAvailable(mem, "Created") EXCEPT !.status.id = i, !.status.err = NoError])
            /\ CloudCreateIn(i, Sent, "pending")
            /\ UNCHANGED <<objectVars, fresh, budget, fetched, lost>>
    BY <1>1 DEF CreatePolicy, CloudCreate
  <2>2. Variant(SetAvailable(mem, "Created"), mem)
    BY MemFacts, VariantReported, StorageTexts DEF TypeOK
  <2>3. /\ Step("create", "writeResourceId", mem') /\ "pending" \in Standing
        /\ mem' = [SetAvailable(mem, "Created") EXCEPT !.status.id = i, !.status.err = NoError]
    BY <2>1 DEF Step, Standing
  <2> QED BY <2>1, <2>2, <2>3, GivenIdentity DEF TypeOK
<1>2. CASE WriteCreatedPolicy
  BY <1>2, MemFacts, NoResourceType
     DEF WriteCreatedPolicy, Done, Shape, Ends, FinalizerPoints, CreatePoints, TypeOK,
         ReconcilerTypeOK, RuntimeTypeOK
<1> QED
  BY <1>1, <1>2, CreateResourceShape, CreateRefusedShape, SharedCreate
     DEF CreateSnapshotPolicy, TypeOK

\* What a sync that needs no update reports.
LEMMA ReconciledVariant == ASSUME NEW obj \in Object PROVE Variant(Reconciled(obj), obj)
<1>1. Variant(SetAvailable(obj, "Reconciled"), obj)
  BY VariantReported, StorageTexts
<1>2. Variant(Reconciled(obj), SetAvailable(obj, "Reconciled"))
  BY <1>1, VariantStatus DEF Reconciled, Variant, Phases
<1> QED BY <1>1, <1>2, VariantAgain

LEMMA SyncStorageShape ==
    ASSUME TypeOK, NEW obj, Variant(obj, mem), SyncStorage(obj)
    PROVE  Shape
<1>1. ReconcilerTypeOK /\ fetched \in Resource
  BY MemFacts DEF TypeOK, ReconcilerTypeOK
<1>2. Variant(Reconciled(obj), obj) /\ Variant(SetProgressing(obj, "Updating"), obj)
  BY ReconciledVariant, VariantReported, StorageTexts DEF Variant
<1>3. Variant(mem', mem)
  BY <1>2, VariantAgain DEF SyncStorage
<1>4. pc = "get" /\ pc' \in {"writeUpdating", "writeSynced"}
  BY DEF SyncStorage
<1>5. Onward
  BY <1>4 DEF Onward, IdentityPoints, CreatePoints, DeletePoints, NeedRefs
<1>6. UNCHANGED <<objectVars, queue, fresh, budget, cloud, fetched, lost>>
  BY DEF SyncStorage, resourceVars
<1> QED
  BY <1>1, <1>3, <1>4, <1>5, <1>6, Answered DEF CallPoints, FinalizerPoints, IdentityPoints

LEMMA UpdateStorageShape ==
    ASSUME TypeOK, NEW obj, Variant(obj, mem), NEW next \in {"refetch", "writeSynced"},
           UpdateStorage(next, obj)
    PROVE  Shape
<1> DEFINE id == mem.status.id
           cfg == [cloud[id].cfg EXCEPT !.meta = mem.spec.meta, !.members = resolved.members]
<1>1. id \in Ids /\ CloudUpdate(id, cfg)
  BY DEF UpdateStorage, CloudUpdate
<1>2. cloud[id].cfg \in [parents : SeqOf(RefIds, MaxRefs), members : SeqOf(Names \cup RefIds, MaxRefs),
                        meta : Metas]
  BY <1>1, MemFacts, DependentAssumption DEF TypeOK, ReconcilerTypeOK, CloudTypeOK, Resource
<1>3. cfg \in Cfgs
  BY <1>2, MemFacts, DependentAssumption DEF TypeOK
<1> HIDE DEF cfg
<1>4. ReconcilerTypeOK
  BY MemFacts DEF TypeOK
<1>5. CloudTypeOK' /\ OnlyRemoves
  BY <1>1, <1>3, <1>4, UpdatedCloud
<1>6. pc = "update" /\ pc' = next /\ mem' = obj
      /\ UNCHANGED <<objectVars, queue, fresh, budget, fetched, lost>>
  BY DEF UpdateStorage, Step
<1>7. Onward
  BY <1>6 DEF Onward, IdentityPoints, CreatePoints, DeletePoints, NeedRefs
<1> QED
  BY <1>4, <1>5, <1>6, <1>7, Carried DEF CallPoints, FinalizerPoints, IdentityPoints

LEMMA SyncAnyShape == ASSUME TypeOK, SyncAnyKind PROVE Shape
<1>1. CASE UpdateStorageFails
  BY <1>1, MemFacts, StorageTexts, Reported
     DEF UpdateStorageFails, UpdateError, ReportingPoints, TypeOK
<1> QED BY <1>1, SharedSync DEF SyncAnyKind

LEMMA SyncShape == ASSUME TypeOK, SyncAndRefetch \/ SyncSnapshotPolicy PROVE Shape
<1> ReconcilerTypeOK /\ mem \in Object /\ Variant(mem, mem) /\ Variant(Reconciled(mem), mem)
  BY MemFacts, VariantSame, ReconciledVariant DEF TypeOK
<1> DEFINE seen == [mem EXCEPT !.status.res = cloud[mem.status.id].phase]
<1>1. CASE SyncStorage(seen) \/ SyncStorage(mem)
  <2>1. cloud[mem.status.id].phase \in Phases
    BY <1>1 DEF SyncStorage, Exists, Standing, Phases
  <2>2. Variant(seen, mem)
    BY <2>1, VariantStatus
  <2> HIDE DEF seen
  <2> QED BY <1>1, <2>2, SyncStorageShape
<1>2. CASE UpdateStorage("refetch", mem) \/ UpdateStorage("writeSynced", Reconciled(mem))
  BY <1>2, UpdateStorageShape
<1>3. CASE RefetchStorage
  <2>1. cloud[mem.status.id].phase \in Phases
    BY <1>3 DEF RefetchStorage, Exists, Standing, Phases
  <2>2. Variant(mem', Reconciled(mem))
    BY <1>3, <2>1, VariantStatus DEF RefetchStorage, Step, Variant
  <2>3. Variant(mem', mem) /\ fetched \in Resource
    BY <2>2, VariantAgain DEF ReconcilerTypeOK
  <2>4. pc = "refetch" /\ pc' = "writeSynced"
        /\ UNCHANGED <<objectVars, queue, fresh, budget, cloud, fetched, lost>>
    BY <1>3 DEF RefetchStorage, Step, resourceVars
  <2> QED
    BY <2>3, <2>4, Answered DEF Onward, CallPoints, FinalizerPoints, IdentityPoints, CreatePoints,
                                DeletePoints, NeedRefs
<1>4. CASE RefetchReportsError \/ SyncAnyKind
  BY <1>4, RefetchErrorShape, SyncAnyShape DEF TypeOK
<1> HIDE DEF seen
<1> QED BY <1>1, <1>2, <1>3, <1>4 DEF SyncAndRefetch, SyncSnapshotPolicy, seen

LEMMA DeletionShape == ASSUME TypeOK, DeleteAndWait \/ DeleteSnapshotPolicy PROVE Shape
<1>1. CASE DeleteFails
  BY <1>1, MemFacts, StorageTexts, Reported DEF DeleteFails, DeleteError, ReportingPoints, TypeOK
<1> QED BY <1>1, DeleteShape, SharedDelete DEF DeleteAndWait, DeleteSnapshotPolicy, TypeOK

\* What the worker does once the references are resolved.
Acts ==
    \/ kind = "BlockVolume" /\ BlockVolume
    \/ kind = "Snapshot" /\ Snapshot
    \/ kind = "SnapshotPolicy" /\ SnapshotPolicy
    \/ kind = "TfsInstance" /\ TfsInstance
    \/ WriteError \/ StatusWriteFails

LEMMA ActsShape == ASSUME TypeOK, Acts PROVE Shape
<1>1. CASE WriteError \/ StatusWriteFails
  BY <1>1 DEF Shape, Shared
<1>2. CreateSnapshot \/ CreateTfsInstance => Shape
  BY SharedCreate, CreateAndWaitShape DEF CreateSnapshot, CreateTfsInstance, TypeOK
<1>3. SyncBlockVolume \/ SyncSnapshot \/ SyncTfsInstance \/ SyncSnapshotPolicy => Shape
  BY SyncShape DEF SyncBlockVolume, SyncSnapshot, SyncTfsInstance
<1> QED
  BY <1>1, <1>2, <1>3, RegionShape, CreateVolumeShape, CreatePolicyShape, DeletionShape
     DEF Acts, BlockVolume, Snapshot, SnapshotPolicy, TfsInstance

LEMMA ReconcileBegins == ASSUME TypeOK, ReconcileStorage PROVE Begins
<1>1. CASE AsksForRegion(cache.spec)
  BY <1>1, ObservedBegins DEF ReconcileStorage, TypeOK
<1>2. CASE ~AsksForRegion(cache.spec)
  BY <1>2, CreateOrSyncBegins DEF ReconcileStorage, TypeOK
<1> QED BY <1>1, <1>2

LEMMA NextForm == ASSUME TypeOK, Next PROVE Form
<1>1. kind # "RouteTableRoute"
  BY StorageAssumption DEF TypeOK, DependentTypeOK
<1>2. CASE Reconcile /\ UNCHANGED <<dependencyVars, kind>>
  BY <1>1, <1>2, ReconcileBegins DEF Reconcile, Form
<1>3. CASE Acts /\ ForgetRefs /\ UNCHANGED <<dependencyVars, kind>>
  BY <1>3, ActsShape DEF Form
<1>4. Worker => \/ Reconcile /\ UNCHANGED <<dependencyVars, kind>>
                \/ Acts /\ ForgetRefs /\ UNCHANGED <<dependencyVars, kind>>
  BY DEF Worker, Acts
<1> QED BY <1>2, <1>3, <1>4 DEF Next, Around, Form

LEMMA NextType == ASSUME TypeOK, [Next]_vars PROVE TypeOK'
BY NextForm, FormType, StutterType DEF TypeOK

LEMMA NextLeak == ASSUME Modes, TypeOK, LeakInv, [Next]_vars PROVE LeakInv' /\ Effect
BY NextForm, FormLeak, FormEffect, StutterLeak DEF TypeOK

-----------------------------------------------------------------------------
(* The theorems.                                                           *)

(* Every variable keeps its type, whatever the kinds, the bounds and the    *)
(* lists of references: the identities a create or an update sends are kept *)
(* exactly while they are needed, and none of them is ever empty.           *)
THEOREM TypeCorrect == Spec => []TypeOK
<1>1. Init => TypeOK
  BY InitDependent DEF Init, TypeOK
<1>2. TypeOK /\ [Next]_vars => TypeOK'
  BY NextType
<1> QED BY <1>1, <1>2, PTL DEF Spec

(* No volume, snapshot, policy or instance is forgotten: with a second Get  *)
(* after the creation, an error helper that returns no error and refused    *)
(* deletions, and whatever becomes of the objects referred to.              *)
THEOREM LeakInvariant == Modes => (Spec => []LeakInv)
<1> SUFFICES ASSUME Modes PROVE Spec => []LeakInv
  OBVIOUS
<1>1. Init => LeakInv
  BY InitDependent DEF Init, LifecycleInv
<1>2. TypeOK /\ LeakInv /\ [Next]_vars => LeakInv'
  BY NextLeak
<1> QED BY <1>1, <1>2, TypeCorrect, PTL DEF Spec

(* A CR never has two resources in Thalassa but for those lost.             *)
THEOREM NeverTwo == Modes => (Spec => []OnePerCR)
<1> SUFFICES ASSUME Modes PROVE Spec => []OnePerCR
  OBVIOUS
<1> QED BY LeakOne, LeakInvariant, PTL

(* The inductive invariant of the refinement: an identity whose creation    *)
(* was never recorded is not handed out again.                              *)
THEOREM LifecycleInvariant == Modes => (Spec => []LifecycleInv)
<1> SUFFICES ASSUME Modes PROVE Spec => []LifecycleInv
  OBVIOUS
<1>1. Init => LifecycleInv
  BY InitDependent DEF Init
<1>2. TypeOK /\ LifecycleInv /\ [Next]_vars => LifecycleInv'
  BY NextLeak, EffectHandedOut DEF LifecycleInv
<1> QED BY <1>1, <1>2, TypeCorrect, PTL DEF Spec

(* Every step of the four reconcilers is one of ManagedResource: one        *)
(* resource at a time, recorded until it is gone, the CR only after it.     *)
THEOREM Lifecycles == Modes => (Spec => ImplementsLifecycle)
<1> SUFFICES ASSUME Modes PROVE Spec => ImplementsLifecycle
  OBVIOUS
<1>1. Init => Lifecycle!Init
  BY InitLifecycle DEF Init, DependentInit
<1>2. TypeOK /\ LifecycleInv /\ [Next]_vars => [Lifecycle!Next]_(Lifecycle!vars)
  BY NextLeak, EffectLifecycle DEF LifecycleInv
<1> QED
  BY <1>1, <1>2, TypeCorrect, LifecycleInvariant, PTL DEF Spec, ImplementsLifecycle, Lifecycle!Spec

(* What a snapshot reads of a volume, and other kinds of any of these, is   *)
(* written once and goes only with the object: the assumption every         *)
(* reconciler makes of the objects its own spec refers to.                  *)
THEOREM WrittenOnce == Modes => (Spec => ImplementsReference)
<1> SUFFICES ASSUME Modes PROVE Spec => ImplementsReference
  OBVIOUS
<1>1. Init => Reference!Init
  BY InitLifecycle DEF Init, DependentInit
<1>2. TypeOK /\ LeakInv /\ [Next]_vars => [Reference!Next]_Shown
  BY NextLeak, EffectReference
<1> QED
  BY <1>1, <1>2, TypeCorrect, LeakInvariant, PTL DEF Spec, ImplementsReference, Reference!Spec

-----------------------------------------------------------------------------
(* The controllers come to rest only when there is nothing left to do.     *)

\* The reasons the Error condition can have before any call has failed and any deletion
\* has been refused.
Unrefused == {"", "InvalidSpec", "FailedFindVolumeType"} \cup NotFoundReasons

\* Before any call has failed.
Unfailed == Unrefused \cup {"DeleteFailed"}

\* What the Error condition can say, as long as no reference has lost its identity and after.
Sayable(reasons) == reasons = Texts \/ (reasons \in {Unrefused, Unfailed} /\ NotLost)

LEMMA SayableExpected ==
    ASSUME NEW reasons, Sayable(reasons)
    PROVE  Expected(reasons) /\ "FailedFindVolumeType" \in reasons
BY ReasonsAssumption, DependentReasonsAssumption, StorageReasonsAssumption
   DEF Sayable, Expected, Unfailed, Unrefused, Reasons, NotFoundReasons

\* The steps of a creation and of a sync that are Reconciler's or DependentReconciler's;
\* a policy's creation is its own.
SharedCreation ==
    \/ WriteCreating \/ CreateResourceFails(Sent) \/ WaitCreatedFails \/ WriteCreated
    \/ CreateRefused \/ AwaitCreated \/ GetCreated \/ GetCreatedFails

AwaitedCreation == kind # "SnapshotPolicy" /\ (CreateResource(Sent) \/ WriteResourceId)

PolicyCreation == kind = "SnapshotPolicy" /\ (CreatePolicy \/ WriteCreatedPolicy)

VolumeCreation ==
    /\ kind = "BlockVolume"
    /\ WriteCreatingVolume \/ ListVolumeTypes \/ FindVolumeTypeFails \/ ListVolumeTypesFails

CommonSync == GetNotFound \/ GetFails \/ WriteNotFound \/ WriteUpdating \/ WriteSynced

LEMMA SharedCreations ==
    ASSUME SharedCreation \/ AwaitedCreation
    PROVE  Create(Sent) \/ OwnCreation
BY DEF SharedCreation, AwaitedCreation, Create, OwnCreation

LEMMA CommonSyncs == ASSUME CommonSync PROVE Sync(TRUE, TRUE, Sent) /\ pc # "update"
BY DEF CommonSync, Sync, GetNotFound, GetFails, WriteNotFound, WriteUpdating, WriteSynced,
       PersistAndGo, Step

\* mem with what Get answered.
Seen == [mem EXCEPT !.status.res = cloud[mem.status.id].phase]

OwnSync ==
    \/ SyncStorage(Seen) \/ SyncStorage(mem)
    \/ UpdateStorage("refetch", mem) \/ UpdateStorage("writeSynced", Reconciled(mem))
    \/ UpdateStorageFails \/ RefetchStorage \/ RefetchReportsError

OwnDelete ==
    \/ DeleteAccepted
    \/ kind = "SnapshotPolicy" /\ DeleteAtOnce
    \/ WaitDeleted \/ WaitDeletedFails \/ RemoveFinalizer

RegionLookup ==
    kind = "TfsInstance" /\ (GetCloudRegionIdentity \/ GetCloudRegionIdentityFails)

\* What the worker does once the references are resolved, by the lemmas about it.
LEMMA ActsBy ==
    ASSUME Acts
    PROVE  \/ RegionLookup
           \/ SharedCreation \/ AwaitedCreation \/ PolicyCreation \/ VolumeCreation
           \/ CommonSync \/ OwnSync \/ OwnDelete \/ DeleteFails
           \/ WriteError \/ StatusWriteFails
<1>1. kind # "SnapshotPolicy" /\ CreateAndWait => SharedCreation \/ AwaitedCreation
  BY DEF CreateAndWait, SharedCreation, AwaitedCreation
<1>2. SyncAndRefetch \/ SyncSnapshotPolicy => CommonSync \/ OwnSync
  BY DEF SyncAndRefetch, SyncSnapshotPolicy, SyncAnyKind, CommonSync, OwnSync, Seen
<1>3. DeleteAndWait => OwnDelete \/ DeleteFails
  BY DEF DeleteAndWait, OwnDelete
<1>4. CASE kind = "BlockVolume" /\ BlockVolume
  BY <1>1, <1>2, <1>3, <1>4
     DEF BlockVolume, CreateBlockVolume, VolumeCreation, SyncBlockVolume
<1>5. CASE kind = "Snapshot" /\ Snapshot
  BY <1>1, <1>2, <1>3, <1>5 DEF Snapshot, CreateSnapshot, SyncSnapshot, SharedCreation
<1>6. CASE kind = "SnapshotPolicy" /\ SnapshotPolicy
  BY <1>2, <1>6
     DEF SnapshotPolicy, CreateSnapshotPolicy, PolicyCreation, SharedCreation,
         DeleteSnapshotPolicy, OwnDelete
<1>7. CASE kind = "TfsInstance" /\ TfsInstance
  BY <1>1, <1>2, <1>3, <1>7
     DEF TfsInstance, CreateTfsInstance, SyncTfsInstance, SharedCreation, RegionLookup
<1> QED BY <1>4, <1>5, <1>6, <1>7 DEF Acts

LEMMA NextBy ==
    ASSUME [Next]_vars
    PROVE  \/ (Reconcile \/ (Acts /\ ForgetRefs)) /\ UNCHANGED <<dependencyVars, kind>>
           \/ Around \/ UNCHANGED vars
BY DEF Next, Worker, Acts, Around

LEMMA ReconciledCopy ==
    ASSUME NEW obj \in Object
    PROVE  /\ Copy(Reconciled(obj), obj) /\ SameError(Reconciled(obj), obj)
           /\ Reconciled(obj).status.id = obj.status.id /\ Reconciled(obj) \in Object
           /\ IsTrue(Reconciled(obj).status.conds, "Ready")
           /\ Reconciled(obj).status.err = NoError
<1> DEFINE new == SetAvailable(obj, "Reconciled")
<1>1. Variant(new, obj)
  BY VariantReported, StorageTexts
<1>2. Copy(new, obj)
  BY StandardCopy
<1>3. SameError(new, obj)
  BY StandardCopy
<1>4. IsTrue(new.status.conds, "Ready")
  BY StandardCopy
<1>5. Reconciled(obj) = [new EXCEPT !.status.err = NoError] /\ Reconciled(obj) \in Object
  BY ReconciledVariant DEF Reconciled, Variant
<1> HIDE DEF new
<1>6. new \in Object /\ new.status.id = obj.status.id
  BY <1>1 DEF Variant
<1>7. Reconciled(obj).status = [new.status EXCEPT !.err = NoError]
      /\ new.status \in Status
  BY <1>5, <1>6 DEF Object
<1>8. /\ Reconciled(obj).status.id = new.status.id
      /\ Reconciled(obj).status.conds = new.status.conds
      /\ Reconciled(obj).status.obsGen = new.status.obsGen
      /\ Reconciled(obj).status.err = NoError
  BY <1>7 DEF Status
<1>9. Like(Reconciled(obj), new)
  BY <1>5, <1>6 DEF Like, Object
<1> QED BY <1>2, <1>3, <1>4, <1>5, <1>6, <1>8, <1>9 DEF Copy, Like, SameError

LEMMA SeenCopy ==
    ASSUME TypeOK, Exists(mem.status.id)
    PROVE  Copy(Seen, mem) /\ SameError(Seen, mem) /\ Seen.status.id = mem.status.id /\ Seen \in Object
<1>1. cloud[mem.status.id].phase \in Phases
  BY DEF Exists, Standing, Phases
<1>2. mem \in Object /\ mem.status \in Status
  BY MemFacts DEF TypeOK, Object
<1>3. Variant(Seen, mem)
  BY <1>1, <1>2, VariantStatus DEF Seen
<1> QED BY <1>2, <1>3 DEF Seen, Copy, Like, SameError, Variant, Object, Status

LEMMA SyncStorageFacts ==
    ASSUME TypeOK, NEW obj \in {Seen, mem}, SyncStorage(obj)
    PROVE  /\ Copy(mem', mem) /\ SameError(mem', mem) /\ mem'.status.id = mem.status.id
           /\ pc = "get" /\ pc' \in {"writeUpdating", "writeSynced"} /\ Exists(mem.status.id)
           /\ UNCHANGED <<objectVars, queue, fresh, budget, cloud, fetched, lost>>
           /\ pc' = "writeSynced" =>
                  /\ ~RequiresUpdate(mem, cloud[mem.status.id])
                  /\ IsTrue(mem'.status.conds, "Ready") /\ mem'.status.err = NoError
<1>1. mem \in Object /\ Exists(mem.status.id)
  BY MemFacts DEF TypeOK, SyncStorage
<1>2. Copy(obj, mem) /\ SameError(obj, mem) /\ obj.status.id = mem.status.id /\ obj \in Object
  BY <1>1, SeenCopy DEF Copy, Like, SameError
<1>3. CASE pc' = "writeUpdating" /\ mem' = SetProgressing(obj, "Updating")
  <2>1. Copy(mem', obj)
    BY <1>2, <1>3, StandardCopy
  <2>2. SameError(mem', obj)
    BY <1>2, <1>3, StandardCopy
  <2>3. Variant(mem', obj)
    BY <1>2, <1>3, VariantReported, StorageTexts
  <2> QED BY <1>1, <1>2, <1>3, <2>1, <2>2, <2>3
          DEF SyncStorage, resourceVars, Copy, Like, SameError, Variant
<1>4. CASE /\ pc' = "writeSynced" /\ mem' = Reconciled(obj)
           /\ ~RequiresUpdate(mem, cloud[mem.status.id])
  <2>1. Copy(mem', obj) /\ SameError(mem', obj) /\ mem'.status.id = obj.status.id
        /\ IsTrue(mem'.status.conds, "Ready") /\ mem'.status.err = NoError
    BY <1>2, <1>4, ReconciledCopy
  <2> QED BY <1>1, <1>2, <1>4, <2>1 DEF SyncStorage, resourceVars, Copy, Like, SameError
<1> QED BY <1>3, <1>4 DEF SyncStorage

\* What an update makes of a configuration.
Renewed(cfg) == [cfg EXCEPT !.meta = mem.spec.meta, !.members = resolved.members]

LEMMA UpdateStorageFacts ==
    ASSUME TypeOK, NEW next \in {"refetch", "writeSynced"}, NEW obj,
           (next = "refetch" /\ obj = mem) \/ (next = "writeSynced" /\ obj = Reconciled(mem)),
           UpdateStorage(next, obj)
    PROVE  /\ Copy(mem', mem) /\ SameError(mem', mem) /\ mem'.status.id = mem.status.id
           /\ pc = "update" /\ pc' = next
           /\ CloudUpdate(mem.status.id, Renewed(cloud[mem.status.id].cfg))
           /\ cloud[mem.status.id].cfg \in Cfgs /\ Renewed(cloud[mem.status.id].cfg) \in Cfgs
           /\ UNCHANGED <<objectVars, queue, fresh, budget, fetched>>
           /\ pc' = "writeSynced" =>
                  IsTrue(mem'.status.conds, "Ready") /\ mem'.status.err = NoError
<1>1. mem \in Object /\ mem' = obj /\ pc = "update" /\ pc' = next
      /\ UNCHANGED <<objectVars, queue, fresh, budget, fetched>>
      /\ CloudUpdate(mem.status.id, Renewed(cloud[mem.status.id].cfg))
  BY MemFacts DEF TypeOK, UpdateStorage, Step, Renewed
<1>2. cloud[mem.status.id].cfg \in [parents : SeqOf(RefIds, MaxRefs),
                                    members : SeqOf(Names \cup RefIds, MaxRefs), meta : Metas]
  BY <1>1, MemFacts, DependentAssumption
     DEF CloudUpdate, TypeOK, ReconcilerTypeOK, CloudTypeOK, Resource
<1>3. cloud[mem.status.id].cfg \in Cfgs /\ Renewed(cloud[mem.status.id].cfg) \in Cfgs
  BY <1>2, MemFacts, DependentAssumption DEF TypeOK, Renewed
<1>4. Copy(mem', mem) /\ SameError(mem', mem) /\ mem'.status.id = mem.status.id
  BY <1>1, ReconciledCopy DEF Copy, Like, SameError
<1>5. next = "writeSynced" => IsTrue(mem'.status.conds, "Ready") /\ mem'.status.err = NoError
  BY <1>1, ReconciledCopy
<1> QED BY <1>1, <1>3, <1>4, <1>5

LEMMA UpdateEither ==
    ASSUME TypeOK, UpdateStorage("refetch", mem) \/ UpdateStorage("writeSynced", Reconciled(mem))
    PROVE  /\ Copy(mem', mem) /\ SameError(mem', mem) /\ mem'.status.id = mem.status.id
           /\ pc = "update" /\ pc' \in {"refetch", "writeSynced"}
           /\ CloudUpdate(mem.status.id, Renewed(cloud[mem.status.id].cfg))
           /\ cloud[mem.status.id].cfg \in Cfgs /\ Renewed(cloud[mem.status.id].cfg) \in Cfgs
           /\ UNCHANGED <<objectVars, queue, fresh, budget, fetched>>
           /\ pc' = "writeSynced" =>
                  IsTrue(mem'.status.conds, "Ready") /\ mem'.status.err = NoError
<1>1. CASE UpdateStorage("refetch", mem)
  BY <1>1, UpdateStorageFacts
<1>2. CASE UpdateStorage("writeSynced", Reconciled(mem))
  BY <1>2, UpdateStorageFacts
<1> QED BY <1>1, <1>2

LEMMA RefetchStorageFacts ==
    ASSUME TypeOK, RefetchStorage
    PROVE  /\ Copy(mem', mem) /\ SameError(mem', mem) /\ mem'.status.id = mem.status.id
           /\ pc = "refetch" /\ pc' = "writeSynced"
           /\ UNCHANGED <<objectVars, queue, fresh, budget, cloud, fetched, lost>>
           /\ IsTrue(mem'.status.conds, "Ready") /\ mem'.status.err = NoError
<1>1. mem \in Object /\ pc = "refetch" /\ pc' = "writeSynced"
      /\ UNCHANGED <<objectVars, queue, fresh, budget, cloud, fetched, lost>>
      /\ mem' = [Reconciled(mem) EXCEPT !.status.res = cloud[mem.status.id].phase]
  BY MemFacts DEF TypeOK, RefetchStorage, Step, resourceVars
<1> DEFINE new == Reconciled(mem)
<1>2. /\ Copy(new, mem) /\ SameError(new, mem) /\ new.status.id = mem.status.id /\ new \in Object
      /\ IsTrue(new.status.conds, "Ready") /\ new.status.err = NoError
  BY <1>1, ReconciledCopy
<1>3. mem' = [new EXCEPT !.status.res = cloud[mem.status.id].phase]
  BY <1>1
<1> HIDE DEF new
<1>4. new.status \in Status
  BY <1>2 DEF Object
<1>5. /\ mem'.status = [new.status EXCEPT !.res = cloud[mem.status.id].phase]
      /\ Like(mem', new)
  BY <1>2, <1>3 DEF Like, Object
<1>6. /\ mem'.status.id = new.status.id /\ mem'.status.conds = new.status.conds
      /\ mem'.status.obsGen = new.status.obsGen /\ mem'.status.err = new.status.err
  BY <1>4, <1>5 DEF Status
<1> QED BY <1>1, <1>2, <1>5, <1>6 DEF Copy, Like, SameError

LEMMA CreatePolicyFacts ==
    ASSUME TypeOK, CreatePolicy
    PROVE  \E i \in OwnIds :
               /\ CloudCreateIn(i, Sent, "pending") /\ pc = "create" /\ pc' = "writeResourceId"
               /\ mem'.status.id = i /\ Copy(mem', mem) /\ SameError(mem', mem)
               /\ IsTrue(mem'.status.conds, "Ready") /\ mem'.status.err = NoError
               /\ UNCHANGED <<objectVars, queue, fresh, budget, fetched, lost>>
<1>1. PICK i \in OwnIds :
          /\ Step("create", "writeResourceId",
                  [SetAvailable(mem, "Created") EXCEPT !.status.id = i, !.status.err = NoError])
          /\ CloudCreateIn(i, Sent, "pending")
          /\ UNCHANGED <<objectVars, fresh, budget, fetched, lost>>
  BY DEF CreatePolicy, CloudCreate
<1> DEFINE new == SetAvailable(mem, "Created")
<1>2. mem \in Object /\ mem' = [new EXCEPT !.status.id = i, !.status.err = NoError]
  BY <1>1, MemFacts DEF TypeOK, Step
<1>3. Copy(new, mem)
  BY <1>2, StandardCopy
<1>4. SameError(new, mem)
  BY <1>2, StandardCopy
<1>5. IsTrue(new.status.conds, "Ready")
  BY <1>2, StandardCopy
<1>6. new \in Object
  BY <1>2, VariantReported, StorageTexts DEF Variant
<1> HIDE DEF new
<1>7. new.status \in Status
  BY <1>6 DEF Object
<1>8. /\ mem'.status = [new.status EXCEPT !.id = i, !.err = NoError]
      /\ Like(mem', new)
  BY <1>2, <1>6 DEF Like, Object
<1>9. /\ mem'.status.id = i /\ mem'.status.conds = new.status.conds
      /\ mem'.status.obsGen = new.status.obsGen /\ mem'.status.err = NoError
  BY <1>7, <1>8 DEF Status
<1>10. Copy(mem', mem) /\ SameError(mem', mem) /\ IsTrue(mem'.status.conds, "Ready")
  BY <1>3, <1>4, <1>5, <1>8, <1>9 DEF Copy, Like, SameError
<1> QED BY <1>1, <1>9, <1>10 DEF Step

LEMMA RegionFacts ==
    ASSUME TypeOK, GetCloudRegionIdentity
    PROVE  /\ Copy(mem', mem) /\ SameError(mem', mem) /\ mem'.status.id = mem.status.id
           /\ pc = "getRegion" /\ pc' \in {"writeCreating", "get"}
           /\ pc' = "writeCreating" => mem.status.id = NoId
           /\ UNCHANGED <<objectVars, queue, fresh, budget, cloud, fetched, lost>>
<1>1. mem \in Object
  BY MemFacts DEF TypeOK
<1>2. CASE /\ mem' = SetProgressing(mem, "Creating") /\ mem.status.id = NoId
           /\ pc' = "writeCreating"
  <2>1. Copy(mem', mem)
    BY <1>1, <1>2, StandardCopy
  <2>2. SameError(mem', mem)
    BY <1>1, <1>2, StandardCopy
  <2>3. Variant(mem', mem)
    BY <1>1, <1>2, VariantReported, StorageTexts
  <2> QED BY <1>2, <2>1, <2>2, <2>3 DEF GetCloudRegionIdentity, resourceVars, Variant
<1>3. CASE UNCHANGED mem /\ pc' = "get"
  BY <1>3 DEF GetCloudRegionIdentity, resourceVars, Copy, Like, SameError
<1> QED BY <1>2, <1>3 DEF GetCloudRegionIdentity

\* What the region is asked for is there as long as no reference has lost its identity.
LEMMA RegionLive ==
    ASSUME TypeOK, RefsHeld, NotLost, kind = "TfsInstance", pc = "getRegion"
    PROVE  Live(resolved.parents[1])
<1>1. AllLive(resolved.parents)
  BY HeldLive DEF TypeOK, NeedRefs
<1>2. resolved.parents \in Seq(RefIds)
  BY MemFacts, BoundedIsSeq DEF TypeOK
<1>3. resolved.parents # <<>>
  <2>1. ParentReasons["TfsInstance"] # <<>>
    BY DEF ParentReasons
  <2> QED BY <2>1 DEF TypeOK, DependentTypeOK, NeedRefs
<1>4. 1 \in DOMAIN resolved.parents
  BY <1>2, <1>3
<1> QED BY <1>1, <1>4 DEF AllLive

LEMMA RegionRest ==
    ASSUME NEW reasons, Ready(reasons), TypeOK, RefsHeld, Expected(reasons), RegionLookup
    PROVE  RestStep(reasons)
<1>0. ReconcilerTypeOK
  BY MemFacts DEF TypeOK
<1>1. CASE GetCloudRegionIdentity
  <2>1. NoneFalls /\ OnlySpends
    BY <1>0, <1>1, RegionFacts, CloudStands, SameBudget
  <2> QED BY <1>1, <2>1, RegionFacts, RestCall DEF WorkPoints, IdentityPoints, DeletePoints
<1>2. CASE GetCloudRegionIdentityFails
  <2>1. PICK e \in Errors : ReportError(mem, "RegionNotFound", e, e)
    BY <1>2 DEF GetCloudRegionIdentityFails
  <2>2. e \in Texts /\ "RegionNotFound" \in Texts
    BY StorageTexts
  <2>3. CASE Spend("faults")
    BY <1>2, <2>1, <2>2, <2>3, CloudStands, RestFault DEF GetCloudRegionIdentityFails, CallFailed
  <2>4. CASE ~Live(resolved.parents[1]) /\ UNCHANGED budget
    <3>1. reasons = Texts
      BY <1>2, <2>4, RegionLive DEF Expected, RegionLookup, GetCloudRegionIdentityFails
    <3> QED BY <1>2, <2>1, <2>2, <2>4, <3>1, RestDisturbed
            DEF GetCloudRegionIdentityFails, CallFailed
  <2> QED BY <1>2, <2>3, <2>4 DEF GetCloudRegionIdentityFails
<1> QED BY <1>1, <1>2 DEF RegionLookup

\* A missing volume type, or a refused deletion, that is not reported again.
Excused ==
    \/ MissingAgain
    \/ kind = "BlockVolume" /\ FindVolumeTypeFails /\ pc' = "idle"
    \/ DeleteFails /\ pc' = "idle"

LEMMA VolumeRest ==
    ASSUME NEW reasons, Ready(reasons), TypeOK, "FailedFindVolumeType" \in reasons,
           VolumeCreation, ~Excused
    PROVE  RestStep(reasons)
<1>0. mem \in Object /\ ReconcilerTypeOK
  BY MemFacts DEF TypeOK
<1>1. CASE WriteCreatingVolume
  BY <1>1, RestPersist
     DEF WriteCreatingVolume, PersistAndGo, Step, resourceVars, Copy, Like, SameError, WorkPoints,
         IdentityPoints, DeletePoints
<1>2. CASE ListVolumeTypes
  <2>1. NoneFalls /\ OnlySpends
    BY <1>0, <1>2, CloudStands, SameBudget DEF ListVolumeTypes, resourceVars
  <2> QED BY <1>2, <2>1, RestCall
          DEF ListVolumeTypes, Step, Copy, Like, SameError, WorkPoints, IdentityPoints, DeletePoints
<1>3. CASE FindVolumeTypeFails
  <2>1. NoneFalls /\ OnlySpends
    BY <1>0, <1>3, CloudStands, SameBudget DEF FindVolumeTypeFails
  <2>2. pc' # "idle"
    BY <1>3 DEF Excused, VolumeCreation
  <2> QED BY <1>3, <2>1, <2>2, StorageTexts, ReportWrittenRest DEF FindVolumeTypeFails
<1>4. CASE ListVolumeTypesFails
  <2>1. PICK e \in Errors : ReportError(mem, "FailedListVolumeTypes", e, e)
    BY <1>4 DEF ListVolumeTypesFails
  <2>2. e \in Texts /\ "FailedListVolumeTypes" \in Texts
    BY StorageTexts
  <2> QED BY <1>4, <2>1, <2>2, CloudStands, RestFault DEF ListVolumeTypesFails, CallFailed
<1> QED BY <1>1, <1>2, <1>3, <1>4 DEF VolumeCreation

LEMMA PolicyRest ==
    ASSUME NEW reasons, Ready(reasons), TypeOK, Cleared, PolicyCreation
    PROVE  RestStep(reasons)
<1>0. CloudTypeOK /\ ReconcilerTypeOK
  BY MemFacts DEF TypeOK, ReconcilerTypeOK
<1>1. CASE CreatePolicy
  <2>1. PICK i \in OwnIds :
            /\ CloudCreateIn(i, Sent, "pending") /\ pc = "create" /\ pc' = "writeResourceId"
            /\ mem'.status.id = i /\ Copy(mem', mem) /\ SameError(mem', mem)
            /\ UNCHANGED <<objectVars, queue, fresh, budget, fetched, lost>>
    BY <1>1, CreatePolicyFacts
  <2>2. NoneFalls /\ Intact(i)'
    BY <1>0, <2>1, CreationStands DEF Standing
  <2>3. Intact(mem.status.id)' /\ OnlySpends
    BY <1>0, <2>1, <2>2, SameBudget DEF Intact
  <2> QED BY <2>1, <2>2, <2>3, RestCall DEF WorkPoints, IdentityPoints, DeletePoints
<1>2. CASE WriteCreatedPolicy
  BY <1>2, RestDone DEF WriteCreatedPolicy, PolicyCreation, Cleared, Done
<1> QED BY <1>1, <1>2 DEF PolicyCreation

LEMMA OwnSyncRest ==
    ASSUME NEW reasons, Ready(reasons), TypeOK, RefsHeld, Expected(reasons), OwnSync
    PROVE  RestStep(reasons)
<1> USE DEF WorkPoints, IdentityPoints, DeletePoints
<1>0. mem \in Object /\ CloudTypeOK /\ ReconcilerTypeOK
  BY MemFacts DEF TypeOK, ReconcilerTypeOK
<1>1. CASE SyncStorage(Seen) \/ SyncStorage(mem)
  <2>1. PICK obj \in {Seen, mem} : SyncStorage(obj)
    BY <1>1
  <2>2. NoneFalls /\ OnlySpends
    BY <1>0, <2>1, SyncStorageFacts, CloudStands, SameBudget
  <2> QED BY <2>1, <2>2, SyncStorageFacts, RestCall
<1>2. CASE UpdateStorage("refetch", mem) \/ UpdateStorage("writeSynced", Reconciled(mem))
  <2>1. NoneFalls /\ OnlySpends
    BY <1>0, <1>2, UpdateEither, UpdateStands, SameBudget
  <2> QED BY <1>2, <2>1, UpdateEither, RestCall
<1>3. CASE UpdateStorageFails
  <2>1. PICK e \in Errors : ReportError(mem, "FailedUpdate", e, e)
    BY <1>3 DEF UpdateStorageFails
  <2>2. e \in Texts /\ "FailedUpdate" \in Texts
    BY StorageTexts
  <2>3. CASE UpdateError
    BY <1>3, <2>1, <2>2, <2>3, RestLateError DEF UpdateStorageFails, CallFailed
  <2>4. CASE pc = "update" /\ ~AllLive(resolved.members) /\ UNCHANGED budget
    <3>1. reasons = Texts
      BY <2>4, HeldLive DEF TypeOK, Expected, NeedRefs
    <3> QED BY <1>3, <2>1, <2>2, <2>4, <3>1, RestDisturbed DEF UpdateStorageFails, CallFailed
  <2> QED BY <1>3, <2>3, <2>4 DEF UpdateStorageFails
<1>4. CASE RefetchStorage
  <2>1. NoneFalls /\ OnlySpends
    BY <1>0, <1>4, RefetchStorageFacts, CloudStands, SameBudget
  <2> QED BY <1>4, <2>1, RefetchStorageFacts, RestCall
<1>5. CASE RefetchReportsError
  BY <1>5, ReportedTexts, RestLateError DEF RefetchReportsError, CallFailed
<1> QED BY <1>1, <1>2, <1>3, <1>4, <1>5 DEF OwnSync

\* What is refused is either protected, or a call that has failed.
LEMMA RefusedDeletionRest ==
    ASSUME NEW reasons, Ready(reasons), TypeOK, DeleteFails, pc' # "idle",
           budget'["faults"] # MaxFaults \/ "DeleteFailed" \in reasons
    PROVE  RestStep(reasons)
<1>1. PICK e \in Errors : ReportError(mem, "DeleteFailed", e, e)
  BY DEF DeleteFails
<1>2. e \in Texts /\ "DeleteFailed" \in Texts
  BY StorageTexts
<1>3. budget \in [Interferences -> Nat] /\ "faults" \in Interferences
  BY MemFacts DEF TypeOK, ReconcilerTypeOK, RuntimeTypeOK, Interferences
<1>4. NoneFalls /\ OnlySpends
  BY <1>3, CloudStands, SpendOnly DEF DeleteFails, DeleteError
<1> QED BY <1>1, <1>2, <1>4, ReportWrittenRest DEF DeleteFails, DeleteError

LEMMA WorkerRest ==
    ASSUME NEW reasons, Ready(reasons), TypeOK, RefsHeld, Cleared, Expected(reasons),
           "FailedFindVolumeType" \in reasons, Reconcile \/ Acts, ~Excused,
           DeleteFails => budget'["faults"] # MaxFaults \/ "DeleteFailed" \in reasons
    PROVE  RestStep(reasons)
<1>1. CASE Reconcile
  <2>1. CASE ReconcileStorage
    BY <2>1, CreateOrSyncRest, ObservedRest DEF ReconcileStorage, resourceVars
  <2>2. CASE ReconcileAnyDependent \/ ReconcileDelete
    BY <2>2, AnyDependentRest DEF TypeOK, Excused
  <2> QED BY <1>1, <2>1, <2>2 DEF Reconcile
<1>2. CASE RegionLookup
  BY <1>2, RegionRest
<1>3. CASE SharedCreation \/ AwaitedCreation
  BY <1>3, SharedCreations, SentType, CreateRest, OwnCreationRest DEF TypeOK
<1>4. CASE PolicyCreation
  BY <1>4, PolicyRest
<1>5. CASE VolumeCreation
  BY <1>5, VolumeRest
<1>6. CASE CommonSync
  BY <1>6, CommonSyncs, SentType, SyncRest DEF TypeOK
<1>7. CASE OwnSync
  BY <1>7, OwnSyncRest
<1>8. CASE OwnDelete
  BY <1>8, DeleteRest, DeleteAtOnceRest DEF OwnDelete, Delete, DeleteAccepted
<1>9. CASE DeleteFails
  BY <1>9, RefusedDeletionRest DEF Excused
<1>10. CASE WriteError \/ StatusWriteFails
  BY <1>10, FailureRest
<1> QED BY <1>1, <1>2, <1>3, <1>4, <1>5, <1>6, <1>7, <1>8, <1>9, <1>10, ActsBy

LEMMA NextRest ==
    ASSUME NEW reasons, Ready(reasons), TypeOK, RefsHeld, Cleared, Expected(reasons),
           "FailedFindVolumeType" \in reasons, [Next]_vars, ~Excused,
           DeleteFails => budget'["faults"] # MaxFaults \/ "DeleteFailed" \in reasons
    PROVE  RestStep(reasons)
<1>1. CASE Reconcile \/ Acts
  BY <1>1, WorkerRest
<1>2. CASE Around
  BY <1>2, AroundRest DEF TypeOK
<1>3. CASE UNCHANGED vars
  BY <1>3, CloudUntouched, RestCloud DEF vars, resourceVars
<1> QED BY <1>1, <1>2, <1>3, NextBy

LEMMA ExcusedKeeps ==
    ASSUME NEW reasons, Ready(reasons), TypeOK, Excused, UNCHANGED kind
    PROVE  /\ OnlySpends /\ VersionInv' /\ ErrorsAmong(reasons)'
           /\ MissingAgain \/ UNCHANGED <<api, cache, cloud>>
<1>0. ReconcilerTypeOK /\ budget \in [Interferences -> Nat] /\ "faults" \in Interferences
  BY MemFacts DEF TypeOK, ReconcilerTypeOK, RuntimeTypeOK, Interferences
<1>1. CASE MissingAgain
  BY <1>1, MissingAgainKeeps DEF TypeOK
<1>2. CASE FindVolumeTypeFails /\ pc' = "idle"
  <2>1. NoneFalls /\ OnlySpends /\ Done /\ UNCHANGED objectVars /\ UNCHANGED cloud
    BY <1>0, <1>2, CloudStands, SameBudget DEF FindVolumeTypeFails, ReportError
  <2> QED BY <2>1, ReportAgainKeeps DEF objectVars
<1>3. CASE DeleteFails /\ pc' = "idle"
  <2>1. NoneFalls /\ OnlySpends /\ Done /\ UNCHANGED objectVars /\ UNCHANGED cloud
    BY <1>0, <1>3, CloudStands, SpendOnly DEF DeleteFails, DeleteError, ReportError
  <2> QED BY <2>1, ReportAgainKeeps DEF objectVars
<1> QED BY <1>1, <1>2, <1>3 DEF Excused

\* An error the status shows already.
LEMMA ReportedBefore ==
    ASSUME TypeOK, NEW reason, NEW message, NEW err, ReportError(mem, reason, message, err),
           pc' = "idle"
    PROVE  mem.status.conds["Error"].reason = reason
<1>1. mem.status.conds \in Conditions
  BY MemFacts DEF TypeOK, Object, Status
<1>2. ~StatusConditionChanges(mem.status.conds, "Error", "False", reason, message)
  BY DEF ReportError
<1> QED BY <1>1, <1>2, ChangesError

\* What is excused is at rest for a reason of its own.
LEMMA ExcusedRests ==
    ASSUME NEW reasons, Ready(reasons), TypeOK, NotLost, RefusedProtected, Excused, UNCHANGED kind,
           Calm', Unattended'
    PROVE  \/ RefReportedMissing'
           \/ kind' = "BlockVolume" /\ ~api'.spec.volumeType
           \/ api'.deleting /\ IsProtected(api.status.id)'
<1>0. OnlySpends /\ Calm
  BY ExcusedKeeps, ReadyCalm
<1>1. CASE MissingAgain
  BY <1>1, MissingAgainKeeps DEF TypeOK
<1>2. CASE kind = "BlockVolume" /\ FindVolumeTypeFails /\ pc' = "idle"
  <2>1. pc = "listVolumeTypes" /\ ~mem.spec.volumeType /\ UNCHANGED objectVars /\ UNCHANGED queue
    BY <1>2 DEF FindVolumeTypeFails, ReportError, Done, Return
  <2>2. mem.exists /\ Earlier(mem) /\ mem.uid = api.uid /\ mem.gen = api.gen /\ api.exists
    BY <2>1 DEF Ready, VersionInv, WorkerVersion, Unattended, objectVars
  <2> QED BY <1>2, <2>1, <2>2 DEF Earlier, objectVars
<1>3. CASE DeleteFails /\ pc' = "idle"
  <2>1. pc = "delete" /\ UNCHANGED objectVars /\ UNCHANGED cloud
    BY <1>3 DEF DeleteFails, DeleteError
  <2>2. api.deleting /\ mem.status.id = api.status.id
    BY <2>1 DEF Ready, LeakInv, WorkerAgrees, FinalizerPoints, DeletePoints
  <2>3. IsProtected(api.status.id)
    <3>1. CASE IsProtected(mem.status.id)
      BY <2>2, <3>1
    <3>2. CASE Spend("faults")
      <4>1. budget["faults"] = MaxFaults
        <5>1. budget'["faults"] = budget["faults"] - 1 /\ budget["faults"] \in Nat
              /\ budget["faults"] <= MaxFaults
          BY <3>2, MemFacts
             DEF Spend, TypeOK, ReconcilerTypeOK, RuntimeTypeOK, Interferences, Ready, VersionInv,
                 WithinBounds, Bounds
        <5> QED BY <5>1, BoundsAssumption DEF Calm, OneFault
      <4>2. mem.status.conds["Error"].reason = "DeleteFailed"
        BY <1>3, ReportedBefore DEF DeleteFails
      <4> QED BY <1>0, <4>1, <4>2 DEF RefusedProtected, Calm
    <3> QED BY <1>3, <3>1, <3>2 DEF DeleteFails, DeleteError
  <2> QED BY <2>1, <2>2, <2>3 DEF objectVars, IsProtected, Exists
<1> QED BY <1>1, <1>2, <1>3 DEF Excused

\* A protected resource stays what it is until somebody else changes it.
LEMMA ProtectedStays ==
    ASSUME ProtectedStands, UNCHANGED kind, Undisturbed, NEW i, IsProtected(i)
    PROVE  IsProtected(i)'
<1>1. Intact(i)
  BY DEF IsProtected, ProtectedStands, Exists, Intact
<1> QED BY <1>1 DEF IsProtected, Undisturbed, Intact, Exists

\* Once a deletion has been refused the worker only asks again.
LEMMA AskedAgain ==
    ASSUME NEW reasons, Ready(reasons), TypeOK, OnlySpends, Undrifted', [Next]_vars,
           api.deleting, cache.deleting, IsProtected(api.status.id),
           pc \in {"idle", "delete", "writeError"}
    PROVE  /\ api'.deleting /\ cache'.deleting /\ api'.status.id = api.status.id
           /\ pc' \in {"idle", "delete", "writeError"}
           /\ Undisturbed
<1>0. /\ api.fin /\ api.exists /\ api.status.id # NoId /\ kind \in Protectable
      /\ pc # "idle" => mem.status.id = api.status.id
      /\ api \in Object /\ mem \in Object
  BY IdsAssumption, MemFacts
     DEF Ready, VersionInv, CacheVersion, LeakInv, CacheAgrees, WellFormed, WorkerAgrees,
         IsProtected, Exists, Ids, TypeOK, ReconcilerTypeOK, RuntimeTypeOK
<1>1. CASE Reconcile
  <2>1. ReconcileNothing \/ ReconcileDelete
    BY <1>1
       DEF Reconcile, ReconcileStorage, Provisions, ReconcileAnyDependent, ReconcileNoFinalizer,
           AddFinalizer, ReconcileNotReady, ReconcileNotFound
  <2>2. CanDequeue /\ UNCHANGED objectVars /\ UNCHANGED cloud
    BY <2>1 DEF ReconcileNothing, ReconcileDelete, DequeueIgnored, Dequeue, resourceVars
  <2>3. cache.fin => cache.status.id = api.status.id
    BY <2>2 DEF CanDequeue, Ready, Modes, LeakInv, CacheAgrees
  <2>4. pc' \in {"idle", "delete"}
    BY <1>0, <2>1, <2>2, <2>3
       DEF ReconcileNothing, ReconcileDelete, DequeueIgnored, Dequeue, CanDequeue
  <2> QED BY <2>2, <2>4, CloudUntouched DEF objectVars
<1>2. CASE Acts
  <2>1. DeleteFails \/ WriteError \/ StatusWriteFails
    <3>1. ~(RegionLookup \/ SharedCreation \/ AwaitedCreation \/ PolicyCreation \/ VolumeCreation)
      BY DEF RegionLookup, GetCloudRegionIdentity, GetCloudRegionIdentityFails, SharedCreation,
             AwaitedCreation, PolicyCreation, VolumeCreation, WriteCreating, CreateResource,
             CreateResourceFails, WriteResourceId, WaitCreatedFails, WriteCreated, CreateRefused,
             AwaitCreated, GetCreated, GetCreatedFails, CreatePolicy, WriteCreatedPolicy,
             WriteCreatingVolume, ListVolumeTypes, FindVolumeTypeFails, ListVolumeTypesFails,
             PersistAndGo, Step
    <3>2. ~(CommonSync \/ OwnSync)
      BY DEF CommonSync, OwnSync, GetNotFound, GetFails, WriteNotFound, WriteUpdating, WriteSynced,
             SyncStorage, UpdateStorage, UpdateStorageFails, UpdateError, RefetchStorage,
             RefetchReportsError, RefetchError, PersistAndGo, Step
    <3>3. ~OwnDelete
      BY <1>0
         DEF OwnDelete, DeleteAccepted, DeleteResource, WaitDeleted, WaitDeletedFails,
             RemoveFinalizer, DeleteAtOnce, Step, Protectable
    <3> QED BY <1>2, <3>1, <3>2, <3>3, ActsBy
  <2>2. pc' \in {"idle", "writeError"} /\ UNCHANGED <<cache, cloud>>
    BY <2>1
       DEF DeleteFails, ReportError, Done, Return, WriteError, StatusWriteFails, PersistStatus,
           GiveUp, objectVars
  <2>3. api'.deleting = api.deleting /\ api'.status.id = api.status.id
    <3>1. CASE WriteError
      BY <1>0, <3>1 DEF WriteError, PersistStatus, Object
    <3>2. CASE DeleteFails \/ StatusWriteFails
      BY <3>2 DEF DeleteFails, StatusWriteFails, GiveUp, objectVars
    <3> QED BY <2>1, <3>1, <3>2
  <2> QED BY <2>2, <2>3, CloudUntouched
<1>3. CASE Restarts
  BY <1>3, CloudUntouched DEF Restarts, Crash, Restart
<1>4. CASE Environment
  <2>1. CASE Users
    <3>1. /\ UNCHANGED <<pc, cache, cloud>>
          /\ \/ \E spec \in Specs : api' = [api EXCEPT !.spec = spec, !.gen = @ + 1]
             \/ api' = [api EXCEPT !.suspended = ~@]
      BY <1>0, <2>1
         DEF Users, User, UserEdit, UserCreate, UserDelete, UserToggleSuspend, UserWrites,
             resourceVars
    <3>2. api'.deleting = api.deleting /\ api'.status = api.status
      BY <1>0, <3>1 DEF Object
    <3> QED BY <3>1, <3>2, CloudUntouched
  <2>2. CASE Cloud
    BY <2>2, CloudUndisturbed
       DEF Cloud, runtimeVars, objectVars, workerVars, Ready, LeakInv, ReconcilerTypeOK
  <2>3. CASE Watch \/ Timer
    BY <2>3, CloudUntouched DEF Watch, CacheSync, Timer, TimerFires, objectVars, resourceVars
  <2> QED BY <1>4, <2>1, <2>2, <2>3 DEF Environment
<1>5. CASE Owners \/ RefUsers \/ UNCHANGED vars
  BY <1>5, CloudUntouched
     DEF Owners, RefUsers, vars, runtimeVars, objectVars, workerVars, resourceVars
<1>6. ~Drift
  BY DriftShows DEF Drift
<1> QED BY <1>1, <1>2, <1>3, <1>4, <1>5, <1>6, NextBy DEF Around

\* Nothing has been refused yet.
NoneAsked == \A obj \in {api, cache, mem} : obj.status.conds["Error"].reason # "DeleteFailed"

LEMMA FirstRefusal ==
    ASSUME Ready(Unfailed), TypeOK, RefsHeld, Cleared, NotLost, OnlySpends, UNCHANGED kind,
           [Next]_vars, NoneAsked, Undrifted', budget'["faults"] = MaxFaults, ~NoneAsked'
    PROVE  /\ api'.deleting /\ cache'.deleting /\ IsProtected(api.status.id)'
           /\ pc' = "writeError"
<1>1. Undrifted /\ budget["faults"] = MaxFaults /\ budget \in [Interferences -> Nat]
  BY ReadyCalm, MemFacts DEF TypeOK, ReconcilerTypeOK, RuntimeTypeOK
<1>2. Ready(Unrefused)
  BY <1>1 DEF Ready, ErrorsAmong, NoneAsked, Unfailed, Unrefused
<1>3. ~ErrorsAmong(Unrefused)'
  <2>1. "DeleteFailed" \notin Unrefused
    BY DEF Unrefused, NotFoundReasons
  <2> QED BY <2>1 DEF ErrorsAmong, NoneAsked
<1>4. Sayable(Unrefused)
  BY DEF Sayable
<1>5. ~Excused
  BY <1>2, <1>3, ExcusedKeeps
<1>6. DeleteFails
  BY <1>2, <1>3, <1>4, <1>5, NextRest, SayableExpected DEF RestStep
<1>7. pc' # "idle"
  BY <1>5, <1>6 DEF Excused
<1>8. pc = "delete" /\ pc' = "writeError" /\ UNCHANGED <<api, cache, cloud>>
      /\ IsProtected(mem.status.id)
  BY <1>1, <1>6, <1>7
     DEF DeleteFails, DeleteError, ReportError, Done, Return, objectVars, Spend, Interferences
<1>9. api.deleting /\ cache.deleting /\ mem.status.id = api.status.id
  BY <1>1, <1>8
     DEF Ready, LeakInv, WorkerAgrees, FinalizerPoints, DeletePoints, VersionInv, Kept
<1> QED BY <1>8, <1>9 DEF IsProtected, Exists

LEMMA NextRefused ==
    ASSUME Ready(Unfailed), TypeOK, RefsHeld, Cleared, ProtectedStands, RefusedProtected, NotLost,
           OnlySpends, UNCHANGED kind, [Next]_vars
    PROVE  RefusedProtected'
<1> SUFFICES ASSUME Undrifted', budget'["faults"] = MaxFaults, ~NoneAsked'
             PROVE  /\ api'.deleting /\ cache'.deleting /\ IsProtected(api.status.id)'
                    /\ pc' \in {"idle", "delete", "writeError"}
  BY DEF RefusedProtected, NoneAsked
<1>1. CASE NoneAsked
  BY <1>1, FirstRefusal
<1>2. CASE ~NoneAsked
  <2>1. Undrifted /\ budget["faults"] = MaxFaults
    BY ReadyCalm
  <2>2. /\ api.deleting /\ cache.deleting /\ IsProtected(api.status.id)
        /\ pc \in {"idle", "delete", "writeError"}
    BY <1>2, <2>1 DEF RefusedProtected, NoneAsked
  <2>3. /\ api'.deleting /\ cache'.deleting /\ api'.status.id = api.status.id
        /\ pc' \in {"idle", "delete", "writeError"}
        /\ Undisturbed
    BY <2>2, AskedAgain
  <2>4. PICK i : i = api.status.id
    OBVIOUS
  <2>5. IsProtected(i)'
    BY <2>2, <2>3, <2>4, ProtectedStays
  <2>6. IsProtected(api.status.id)'
    BY <2>3, <2>4, <2>5 DEF IsProtected
  <2> QED BY <2>3, <2>6
<1> QED BY <1>1, <1>2

-----------------------------------------------------------------------------
(* What is being deleted was not protected.                                *)

\* What starts being deleted was not protected then.
LEMMA ProtectedKept ==
    ASSUME ProtectedStands, UNCHANGED kind,
           \A i \in Ids : cloud'[i].phase = "deleting" =>
               /\ cloud'[i].cfg = cloud[i].cfg
               /\ cloud[i].phase = "deleting" \/ (Exists(i) /\ ~IsProtected(i))
    PROVE  ProtectedStands'
BY DEF ProtectedStands, IsProtected

\* Nothing starts being deleted.
LEMMA CreationProtects ==
    ASSUME TypeOK, ProtectedStands, UNCHANGED kind, NEW i \in Ids, NEW cfg, NEW phase \in Standing,
           cloud' = [cloud EXCEPT ![i] = [phase |-> phase, cfg |-> cfg]]
    PROVE  ProtectedStands'
<1>1. cloud \in [Ids -> Resource] /\ phase # "deleting"
  BY MemFacts DEF TypeOK, ReconcilerTypeOK, CloudTypeOK, Standing
<1>2. \A j \in Ids : cloud'[j].phase = "deleting" =>
          cloud'[j].cfg = cloud[j].cfg /\ cloud[j].phase = "deleting"
  BY <1>1
<1> QED BY <1>2, ProtectedKept

LEMMA DeletionProtects ==
    ASSUME TypeOK, ProtectedStands, UNCHANGED kind, OwnDelete
    PROVE  ProtectedStands'
<1>0. cloud \in [Ids -> Resource]
  BY MemFacts DEF TypeOK, ReconcilerTypeOK, CloudTypeOK
<1>1. CASE DeleteAccepted
  <2>1. PICK id : id = mem.status.id
    OBVIOUS
  <2>2. ~IsProtected(id) /\ cloud' = [cloud EXCEPT ![id].phase = IF Exists(id) THEN "deleting" ELSE @]
    BY <1>1, <2>1 DEF DeleteAccepted, DeleteResource, CloudDelete
  <2>3. \A i \in Ids : cloud'[i].phase = "deleting" =>
            /\ cloud'[i].cfg = cloud[i].cfg
            /\ cloud[i].phase = "deleting" \/ (Exists(i) /\ ~IsProtected(i))
    BY <1>0, <2>2 DEF Resource
  <2> QED BY <2>3, ProtectedKept
<1>2. CASE kind = "SnapshotPolicy"
  BY <1>2 DEF ProtectedStands, Protectable
<1>3. CASE WaitDeleted \/ WaitDeletedFails \/ RemoveFinalizer
  <2>1. UNCHANGED cloud
    BY <1>3 DEF WaitDeleted, WaitDeletedFails, RemoveFinalizer, ReturnError, resourceVars
  <2> QED BY <2>1, ProtectedKept
<1> QED BY <1>1, <1>2, <1>3 DEF OwnDelete

LEMMA NextProtected ==
    ASSUME TypeOK, ProtectedStands, UNCHANGED kind, [Next]_vars
    PROVE  ProtectedStands'
<1>0. cloud \in [Ids -> Resource] /\ OwnIds \subseteq Ids
  BY MemFacts DEF TypeOK, ReconcilerTypeOK, CloudTypeOK, Ids
<1>1. CASE UNCHANGED cloud
  BY <1>1, ProtectedKept
<1>2. CASE Reconcile
  BY <1>1, <1>2
     DEF Reconcile, ReconcileStorage, CreateOrSync, ReconcileAnyDependent, ReconcileNothing,
         ReconcileNoFinalizer, AddFinalizer, ReconcileNotReady, ReconcileNotFound, ReconcileDelete,
         resourceVars
<1>3. CASE SharedCreation \/ AwaitedCreation \/ PolicyCreation
  <2>1. UNCHANGED cloud \/ CreateResource(Sent) \/ CreateResourceFails(Sent) \/ CreatePolicy
    BY <1>3
       DEF SharedCreation, AwaitedCreation, PolicyCreation, WriteCreating, WriteResourceId,
           WaitCreatedFails, WriteCreated, CreateRefused, AwaitCreated, GetCreated, GetCreatedFails,
           WriteCreatedPolicy, PersistAndGo, ReturnError, resourceVars
  <2>2. UNCHANGED cloud \/ \E i \in OwnIds : CloudCreateIn(i, Sent, "pending")
    BY <2>1 DEF CreateResource, CreateResourceFails, CreatePolicy, CloudCreate
  <2>3. ASSUME NEW i \in OwnIds, CloudCreateIn(i, Sent, "pending")
        PROVE  ProtectedStands'
    BY <1>0, <2>3, CreationProtects DEF CloudCreateIn, Standing
  <2> QED BY <1>1, <2>2, <2>3
<1>4. CASE RegionLookup \/ VolumeCreation \/ CommonSync \/ DeleteFails \/ WriteError \/ StatusWriteFails
  BY <1>1, <1>4
     DEF RegionLookup, GetCloudRegionIdentity, GetCloudRegionIdentityFails, VolumeCreation,
         WriteCreatingVolume, ListVolumeTypes, FindVolumeTypeFails, ListVolumeTypesFails,
         CommonSync, GetNotFound, GetFails, WriteNotFound, WriteUpdating, WriteSynced,
         PersistAndGo, DeleteFails, WriteError, StatusWriteFails, resourceVars
<1>5. CASE OwnSync
  <2>1. CASE UpdateStorage("refetch", mem) \/ UpdateStorage("writeSynced", Reconciled(mem))
    <3>1. CloudUpdate(mem.status.id, Renewed(cloud[mem.status.id].cfg))
      BY <2>1, UpdateEither
    <3>2. PICK i, cfg, phase :
              /\ i \in Ids /\ phase \in {"pending", cloud[i].phase} /\ cloud[i].phase \in Standing
              /\ cloud' = [cloud EXCEPT ![i] = [phase |-> phase, cfg |-> cfg]]
      BY <3>1 DEF CloudUpdate
    <3> QED BY <3>2, CreationProtects DEF Standing
  <2>2. UNCHANGED cloud \/ UpdateStorage("refetch", mem) \/ UpdateStorage("writeSynced", Reconciled(mem))
    BY <1>5 DEF OwnSync, SyncStorage, UpdateStorageFails, RefetchStorage, RefetchReportsError,
                resourceVars
  <2> QED BY <1>1, <2>1, <2>2
<1>6. CASE OwnDelete
  BY <1>6, DeletionProtects
<1>7. CASE Around \/ UNCHANGED vars
  <2>1. UNCHANGED cloud \/ Cloud \/ Drift
    BY <1>7 DEF Around, Restarts, Crash, Environment, Watch, Timer, Users, Owners, RefUsers,
                resourceVars, vars
  <2>2. CASE Cloud
    <3>1. PICK i \in Ids, phase \in {"ready", "gone"} : cloud' = [cloud EXCEPT ![i].phase = phase]
      BY <2>2 DEF Cloud, CloudProgress, Provisioned, Removed
    <3>2. \A j \in Ids : cloud'[j].phase = "deleting" =>
              cloud'[j].cfg = cloud[j].cfg /\ cloud[j].phase = "deleting"
      BY <1>0, <3>1 DEF Resource
    <3> QED BY <3>2, ProtectedKept
  <2>3. CASE Drift
    <3>1. PICK i \in Ids : \/ OutOfBandDelete(i)
                           \/ \E m \in Metas : OutOfBandEdit(i, [cloud[i].cfg EXCEPT !.meta = m])
      BY <2>3 DEF Drift
    <3>2. \/ cloud' = [cloud EXCEPT ![i].phase = "gone"]
          \/ cloud[i].phase = "ready" /\ \E cfg : cloud' = [cloud EXCEPT ![i].cfg = cfg]
      BY <3>1 DEF OutOfBandDelete, OutOfBandEdit
    <3>3. \A j \in Ids : cloud'[j].phase = "deleting" =>
              cloud'[j].cfg = cloud[j].cfg /\ cloud[j].phase = "deleting"
      BY <1>0, <3>2 DEF Resource
    <3> QED BY <3>3, ProtectedKept
  <2> QED BY <1>1, <2>1, <2>2, <2>3
<1> QED BY <1>2, <1>3, <1>4, <1>5, <1>6, <1>7, NextBy, ActsBy

-----------------------------------------------------------------------------
(* The last write clears the error.                                        *)

LEMMA ClearedElsewhere ==
    ASSUME pc' \notin LastWrites \cup {"writeResourceId"}
    PROVE  Cleared'
BY DEF Cleared

LEMMA CreationClears ==
    ASSUME TypeOK, UNCHANGED kind, SharedCreation \/ AwaitedCreation \/ PolicyCreation
    PROVE  Cleared'
<1> USE DEF LastWrites
<1>0. mem \in Object
  BY MemFacts DEF TypeOK
<1>1. CASE GetCreated
  <2>1. PICK new, res : new = SetAvailable(mem, "Created")
            /\ mem' = [new EXCEPT !.status.res = res, !.status.err = NoError]
            /\ pc' = "writeCreated"
    BY <1>1 DEF GetCreated, Step
  <2>2. new \in Object
    BY <1>0, <2>1, VariantReported, StorageTexts DEF Variant
  <2>3. mem'.status.err = NoError
    BY <2>1, <2>2 DEF Object, Status
  <2> QED BY <2>1, <2>3 DEF Cleared
<1>2. CASE kind # "SnapshotPolicy" /\ CreateResource(Sent)
  <2>1. PICK i : mem' = [mem EXCEPT !.status.id = i, !.status.res = "pending", !.status.err = NoError]
    BY <1>2 DEF CreateResource, Step
  <2>2. mem'.status.err = NoError
    BY <1>0, <2>1 DEF Object, Status
  <2> QED BY <1>2, <2>2 DEF Cleared
<1>3. CASE CreatePolicy
  BY <1>3, CreatePolicyFacts DEF Cleared
<1>4. CASE \/ WriteCreating \/ CreateResourceFails(Sent) \/ WriteResourceId \/ WaitCreatedFails
           \/ WriteCreated \/ CreateRefused \/ AwaitCreated \/ GetCreatedFails \/ WriteCreatedPolicy
  <2>1. pc' \notin LastWrites \cup {"writeResourceId"}
    BY <1>4
       DEF WriteCreating, CreateResourceFails, WriteResourceId, WaitCreatedFails, WriteCreated,
           CreateRefused, AwaitCreated, GetCreatedFails, WriteCreatedPolicy, PersistAndGo, Step,
           ReportError, ReturnError, Done, Return
  <2> QED BY <2>1, ClearedElsewhere
<1> QED BY <1>1, <1>2, <1>3, <1>4 DEF SharedCreation, AwaitedCreation, PolicyCreation

LEMMA OwnSyncClears ==
    ASSUME TypeOK, UNCHANGED kind, OwnSync
    PROVE  Cleared'
<1> USE DEF LastWrites
<1>1. CASE SyncStorage(Seen) \/ SyncStorage(mem)
  <2>1. PICK obj \in {Seen, mem} : SyncStorage(obj)
    BY <1>1
  <2> QED BY <2>1, SyncStorageFacts DEF Cleared
<1>2. CASE UpdateStorage("refetch", mem) \/ UpdateStorage("writeSynced", Reconciled(mem))
  BY <1>2, UpdateEither DEF Cleared
<1>3. CASE RefetchStorage
  BY <1>3, RefetchStorageFacts DEF Cleared
<1>4. CASE UpdateStorageFails \/ RefetchReportsError
  BY <1>4, ClearedElsewhere DEF UpdateStorageFails, RefetchReportsError, ReportError, Done, Return
<1> QED BY <1>1, <1>2, <1>3, <1>4 DEF OwnSync

LEMMA NextCleared ==
    ASSUME TypeOK, Cleared, UNCHANGED kind, [Next]_vars
    PROVE  Cleared'
<1> USE DEF LastWrites
<1>1. CASE SharedCreation \/ AwaitedCreation \/ PolicyCreation
  BY <1>1, CreationClears
<1>2. CASE OwnSync
  BY <1>2, OwnSyncClears
<1>3. CASE Reconcile
  <2>1. pc' \notin LastWrites \cup {"writeResourceId"}
    BY <1>3
       DEF Reconcile, ReconcileStorage, CreateOrSync, ReconcileAnyDependent, ReconcileNothing,
           ReconcileNoFinalizer, AddFinalizer, ReconcileNotReady, ReconcileNotFound, ReconcileDelete,
           DequeueReporting, Dequeue, DequeueIgnored, DequeueAgain, CanDequeue, UpdateObjectFails,
           Return
  <2> QED BY <2>1, ClearedElsewhere
<1>4. CASE RegionLookup \/ VolumeCreation \/ CommonSync
  <2>1. pc' \notin LastWrites \cup {"writeResourceId"}
    BY <1>4
       DEF RegionLookup, GetCloudRegionIdentity, GetCloudRegionIdentityFails, VolumeCreation,
           WriteCreatingVolume, ListVolumeTypes, FindVolumeTypeFails, ListVolumeTypesFails,
           CommonSync, GetNotFound, GetFails, WriteNotFound, WriteUpdating, WriteSynced,
           PersistAndGo, Step, ReportError, Done, Return
  <2> QED BY <2>1, ClearedElsewhere
<1>5. CASE OwnDelete \/ DeleteFails \/ WriteError \/ StatusWriteFails
  <2>1. pc' \notin LastWrites \cup {"writeResourceId"}
    BY <1>5
       DEF OwnDelete, DeleteAccepted, DeleteResource, DeleteAtOnce, WaitDeleted, WaitDeletedFails,
           RemoveFinalizer, UpdateObjectFails, DeleteFails, WriteError, StatusWriteFails, GiveUp,
           Step, ReportError, ReturnError, Done, Return
  <2> QED BY <2>1, ClearedElsewhere
<1>6. CASE Restarts
  BY <1>6, ClearedElsewhere DEF Restarts, Crash, Restart
<1>7. CASE Environment \/ Owners \/ RefUsers \/ Drift \/ UNCHANGED vars
  <2>1. UNCHANGED <<pc, mem>>
    BY <1>7 DEF Environment, Watch, CacheSync, Timer, TimerFires, Users, User, UserEdit, UserCreate,
                UserDelete, UserToggleSuspend, UserWrites, Cloud, runtimeVars, workerVars, Owners,
                RefUsers, Drift, vars
  <2> QED BY <2>1 DEF Cleared
<1> QED BY <1>1, <1>2, <1>3, <1>4, <1>5, <1>6, <1>7, NextBy, ActsBy DEF Around

-----------------------------------------------------------------------------
(* What has been applied, and what rests on it.                            *)

LEMMA OwnSyncApplied ==
    ASSUME NEW reasons, Ready(reasons), TypeOK, RefsHeld, NotLost,
           NEW agree, agree = Matching, Applied(agree), OnlySpends, OwnSync
    PROVE  Applied(agree)'
<1> SUFFICES ASSUME Undrifted' PROVE Applied(agree)'
  BY DEF Applied
<1> USE DEF AppliedPoints, LastWrites
<1>0. mem \in Object /\ CloudTypeOK /\ ReconcilerTypeOK /\ Undrifted
  BY MemFacts, ReadyCalm DEF TypeOK, ReconcilerTypeOK
<1>1. CASE SyncStorage(Seen) \/ SyncStorage(mem)
  <2>1. PICK obj \in {Seen, mem} : SyncStorage(obj)
    BY <1>1
  <2>2. /\ pc = "get" /\ mem'.spec = mem.spec /\ mem'.status.id = mem.status.id /\ UNCHANGED cloud
        /\ pc' \in {"writeUpdating", "writeSynced"} /\ Exists(mem.status.id)
        /\ pc' = "writeSynced" =>
               /\ ~RequiresUpdate(mem, cloud[mem.status.id]) /\ IsTrue(mem'.status.conds, "Ready")
    BY <2>1, SyncStorageFacts DEF Copy, Like
  <2>3. pc' = "writeSynced" => <<mem.spec, cloud[mem.status.id].cfg>> \in Matching
    <3> SUFFICES ASSUME pc' = "writeSynced" PROVE <<mem.spec, cloud[mem.status.id].cfg>> \in Matching
      OBVIOUS
    <3>1. cloud[mem.status.id].cfg \in Cfgs
      BY <1>0, <2>2 DEF CloudTypeOK, Resource, Exists
    <3>2. kind # "Loadbalancer"
      BY StorageAssumption DEF TypeOK, DependentTypeOK
    <3> QED BY <2>2, <3>1, <3>2, HeldMatches DEF RequiresUpdate, TypeOK, NeedRefs
  <2> QED BY <2>2, <2>3 DEF Applied
<1>2. CASE UpdateStorage("refetch", mem) \/ UpdateStorage("writeSynced", Reconciled(mem))
  <2>1. PICK id, cfg, new : id = mem.status.id /\ cfg = cloud[id].cfg /\ new = Renewed(cfg)
    OBVIOUS
  <2>2. /\ CloudUpdate(id, new) /\ cfg \in Cfgs /\ new \in Cfgs /\ pc = "update"
        /\ mem'.spec = mem.spec /\ mem'.status.id = id /\ pc' \in {"refetch", "writeSynced"}
        /\ pc' = "writeSynced" => IsTrue(mem'.status.conds, "Ready")
    BY <1>2, <2>1, UpdateEither DEF Copy, Like
  <2>3. cloud'[id].cfg = new
    BY <1>0, <2>2, UpdateStands
  <2>4. cfg \in [parents : SeqOf(RefIds, MaxRefs), members : SeqOf(Names \cup RefIds, MaxRefs),
                 meta : Metas]
    BY <2>2, DependentAssumption
  <2>5. new.meta = mem.spec.meta /\ new.members = resolved.members
    BY <2>1, <2>4 DEF Renewed
  <2>6. kind # "Loadbalancer"
    BY StorageAssumption DEF TypeOK, DependentTypeOK
  <2>7. <<mem.spec, new>> \in Matching
    BY <2>2, <2>5, <2>6, HeldMatches DEF TypeOK, NeedRefs
  <2> QED BY <2>2, <2>3, <2>7 DEF Applied
<1>3. CASE UpdateStorageFails \/ RefetchReportsError
  BY <1>3, AppliedNowhere DEF UpdateStorageFails, RefetchReportsError, ReportError, Done, Return
<1>4. CASE RefetchStorage
  BY <1>4, RefetchStorageFacts, CloudUntouched, AppliedKept DEF Copy, Like
<1> QED BY <1>1, <1>2, <1>3, <1>4 DEF OwnSync

LEMMA PolicyApplied ==
    ASSUME NEW reasons, Ready(reasons), TypeOK, RefsHeld, NotLost,
           NEW agree, agree = Matching, PolicyCreation
    PROVE  Applied(agree)'
<1> USE DEF AppliedPoints, LastWrites
<1>1. CASE CreatePolicy
  <2>1. PICK i \in OwnIds :
            /\ CloudCreateIn(i, Sent, "pending") /\ pc = "create" /\ pc' = "writeResourceId"
            /\ mem'.status.id = i /\ mem'.spec = mem.spec
    BY <1>1, CreatePolicyFacts DEF Copy, Like
  <2>2. cloud'[i].cfg = Sent
    BY <2>1, CreationStands, MemFacts DEF TypeOK, ReconcilerTypeOK, Standing
  <2>3. <<mem.spec, Sent>> \in agree
    BY <2>1, SentMatches DEF TypeOK
  <2> QED BY <2>1, <2>2, <2>3 DEF Applied
<1>2. CASE WriteCreatedPolicy
  BY <1>2, AppliedNowhere DEF WriteCreatedPolicy, Done, Return
<1> QED BY <1>1, <1>2 DEF PolicyCreation

LEMMA NextApplied ==
    ASSUME NEW reasons, Ready(reasons), TypeOK, RefsHeld, NotLost,
           NEW agree, agree = Matching, Applied(agree), OnlySpends, [Next]_vars
    PROVE  Applied(agree)'
<1>1. CASE Reconcile
  <2>1. CASE pc' = "getRegion"
    BY <2>1, AppliedNowhere DEF AppliedPoints, LastWrites
  <2>2. CASE pc' # "getRegion"
    BY <1>1, <2>2, SharedApplied, AnyDependentApplied DEF Reconcile, ReconcileStorage, Dequeue
  <2> QED BY <2>1, <2>2
<1>2. CASE SharedCreation \/ AwaitedCreation
  <2>1. pc = "create" => <<mem.spec, Sent>> \in agree
    BY SentMatches DEF TypeOK
  <2>2. Create(Sent) \/ OwnCreation
    BY <1>2, SharedCreations
  <2> QED BY <2>1, <2>2, SentType, CreateApplied, OwnCreationApplied DEF TypeOK
<1>3. CASE PolicyCreation
  BY <1>3, PolicyApplied
<1>4. CASE CommonSync
  <2>1. Sync(TRUE, TRUE, Sent) /\ pc # "update" /\ Sent \in Cfgs
    BY <1>4, CommonSyncs, SentType DEF TypeOK
  <2> QED BY <2>1, SyncApplied
<1>5. CASE OwnSync
  BY <1>5, OwnSyncApplied
<1>6. CASE RegionLookup \/ VolumeCreation \/ DeleteFails
  BY <1>6, AppliedNowhere
     DEF RegionLookup, GetCloudRegionIdentity, GetCloudRegionIdentityFails, VolumeCreation,
         WriteCreatingVolume, ListVolumeTypes, FindVolumeTypeFails, ListVolumeTypesFails,
         DeleteFails, PersistAndGo, Step, ReportError, Done, Return, AppliedPoints, LastWrites
<1>7. CASE OwnDelete
  BY <1>7, AppliedNowhere
     DEF OwnDelete, DeleteAccepted, DeleteResource, DeleteAtOnce, WaitDeleted, WaitDeletedFails,
         RemoveFinalizer, UpdateObjectFails, ReturnError, Step, Done, Return, AppliedPoints,
         LastWrites
<1>8. CASE WriteError \/ StatusWriteFails
  BY <1>8, SharedApplied
<1>9. CASE Around
  BY <1>9, AroundApplied DEF TypeOK
<1>10. CASE UNCHANGED vars
  BY <1>10, CloudUntouched, EnvironmentApplied DEF vars, runtimeVars, workerVars, resourceVars
<1> QED BY <1>1, <1>2, <1>3, <1>4, <1>5, <1>6, <1>7, <1>8, <1>9, <1>10, NextBy, ActsBy

\* What a step does to the references.
LEMMA NextRefs ==
    ASSUME RefsAnchored, TypeOK, RefsDistinct, RefsHeld, [Next]_vars
    PROVE  /\ RefsDistinct' /\ RefsHeld' /\ UNCHANGED kind
           /\ NotLost' => NotLost /\ Matching \subseteq Matching'
<1>1. CASE Form
  BY <1>1, FormRefs, FormHeld, MatchingStays DEF TypeOK, DependentTypeOK
<1>2. CASE UNCHANGED vars
  <2>1. UNCHANGED <<pc, mem, refs, recorded, kind, resolved>>
    BY <1>2 DEF runtimeVars, workerVars, dependencyVars, vars
  <2>2. RefsDistinct' /\ (NotLost' => NotLost) /\ RefsKeep /\ recorded \subseteq recorded'
    BY <2>1 DEF RefsDistinct, RefsKnown, NotLost, RefsKeep
  <2> QED BY <2>1, <2>2, HeldAround, MatchingSame DEF TypeOK
<1> QED BY <1>1, <1>2, NextForm

\* Why the controller may rest although the resource is not what the CR says.
AtRestAnyway ==
    \/ RefReportedMissing
    \/ kind = "BlockVolume" /\ ~api.spec.volumeType
    \/ api.deleting /\ IsProtected(api.status.id)

LEMMA AnywayStays ==
    ASSUME UNCHANGED <<api, kind>>, ProtectedStands, Undisturbed, AtRestAnyway
    PROVE  AtRestAnyway'
<1>1. CASE RefReportedMissing
  BY <1>1, ReportedStays DEF AtRestAnyway
<1>2. CASE kind = "BlockVolume" /\ ~api.spec.volumeType
  BY <1>2 DEF AtRestAnyway
<1>3. CASE api.deleting /\ IsProtected(api.status.id)
  <2>1. PICK i : i = api.status.id
    OBVIOUS
  <2>2. IsProtected(i)'
    BY <1>3, <2>1, ProtectedStays
  <2>3. IsProtected(api.status.id)'
    BY <2>1, <2>2 DEF IsProtected
  <2> QED BY <1>3, <2>3 DEF AtRestAnyway
<1> QED BY <1>1, <1>2, <1>3 DEF AtRestAnyway

\* No reference has lost its identity: a reconcile that has nothing more to do leaves the
\* resource as its CR says and no error, or has a reason to give up.
LEMMA StepDone ==
    ASSUME Ready(Unfailed), TypeOK, TypeOK', RefsHeld, Cleared, ProtectedStands, RefusedProtected,
           NotLost, NotLost',
           NEW before, NEW after, before = Matching, after = Matching', before \subseteq after,
           Applied(before), RestsDone, UNCHANGED kind, [Next]_vars
    PROVE  RestsDone'
<1> SUFFICES ASSUME Calm', Unattended', ~AtRestAnyway'
             PROVE  ~api'.deleting /\ Settled(after)' /\ api'.status.err = NoError
  BY DEF RestsDone, Settled, AtRestAnyway
<1>0. ~Excused
  BY ExcusedRests DEF AtRestAnyway
<1>1. RestStep(Unfailed)
  <2>1. "DeleteFailed" \in Unfailed /\ Sayable(Unfailed)
    BY DEF Unfailed, Sayable
  <2> QED BY <1>0, <2>1, NextRest, SayableExpected
<1>2. Blameless(Unfailed)
  BY DEF Blameless, CallFailed, Unfailed, Unrefused, NotFoundReasons
<1>3. ~Adopts(api') /\ api'.spec.valid
  BY SpecFacts DEF TypeOK, DependentTypeOK, ReconcilerTypeOK, RuntimeTypeOK
<1>4. WritesLast \/ (Unattended /\ UNCHANGED api /\ Undisturbed)
  BY <1>1, <1>2, <1>3 DEF RestStep, Finishes
<1>5. Calm
  BY <1>1, ReadyCalm DEF RestStep
<1>6. Unattended => ~AtRestAnyway
  <2> SUFFICES ASSUME Unattended, AtRestAnyway PROVE FALSE
    OBVIOUS
  <2>1. pc = "idle"
    BY DEF Unattended
  <2>2. UNCHANGED api /\ Undisturbed
    BY <1>4, <2>1 DEF WritesLast, LastWrites
  <2> QED BY <2>2, AnywayStays
<1>7. Unattended => ~api.deleting /\ Settled(before) /\ api.status.err = NoError
  BY <1>5, <1>6 DEF RestsDone, Settled, AtRestAnyway
<1>8. ~api'.deleting /\ Settled(after)'
  BY <1>1, <1>2, <1>3, <1>7, RestsSettled
<1>9. api'.status.err = NoError
  BY <1>4, <1>7 DEF WritesLast, Cleared
<1> QED BY <1>8, <1>9

\* A step that is excused, and one that is not.
LEMMA NextKeeps ==
    ASSUME NEW reasons, Ready(reasons), Sayable(reasons), TypeOK, RefsHeld, Cleared,
           UNCHANGED kind, [Next]_vars, "DeleteFailed" \in reasons
    PROVE  VersionInv' /\ OnlySpends /\ ErrorsAmong(reasons)'
<1>1. CASE Excused
  BY <1>1, ExcusedKeeps
<1>2. CASE ~Excused
  BY <1>2, NextRest, SayableExpected DEF RestStep
<1> QED BY <1>1, <1>2

(* The inductive invariant of RestsInSync and of ErrorClearedOnSuccess:     *)
(* that of the shared reconcile, that the worker sends what the references  *)
(* stood for when it looked them up, that a deletion is refused for the     *)
(* protection alone and then nothing but it is tried, and that the last     *)
(* write of a creation or a sync clears the error.                          *)
THEOREM RestInvariant == Modes /\ RefsAnchored => (Spec => []RestInv)
<1> SUFFICES ASSUME Modes, RefsAnchored PROVE Spec => []RestInv
  OBVIOUS
<1>0. Unfailed = {"", "InvalidSpec", "FailedFindVolumeType", "DeleteFailed"} \cup NotFoundReasons
  BY DEF Unfailed, Unrefused
<1>1. Init => RestInv
  <2> SUFFICES ASSUME Init PROVE RestInv
    OBVIOUS
  <2>1. LeakInv /\ TypeOK
    BY InitDependent DEF Init, TypeOK, LifecycleInv
  <2>2. "" \in Unrefused /\ "" \in Unfailed
    BY DEF Unfailed, Unrefused
  <2>3. VersionInv /\ ErrorsAmong(Unrefused) /\ ErrorsAmong(Unfailed) /\ ~Unattended
    BY <2>2, InitRest DEF Init, DependentInit
  <2>4. Applied(Matching) /\ RefsHeld /\ Cleared
    BY DEF Init, DependentInit, ReconcilerInit, RuntimeInit, Applied, AppliedPoints, LastWrites,
           RefsHeld, Cleared, NeedRefs
  <2>5. RefsDistinct
    BY RefsAssumption DEF Init, DependentInit, RefsInit, RefsDistinct, RefsKnown, RefIds
  <2>6. ProtectedStands
    BY IdsAssumption DEF Init, DependentInit, ReconcilerInit, CloudInit, ProtectedStands, Ids
  <2>7. RefusedProtected
    <3>1. "DeleteFailed" \notin Unrefused
      BY DEF Unrefused, NotFoundReasons
    <3> QED BY <2>3, <3>1 DEF RefusedProtected, ErrorsAmong
  <2> QED BY <1>0, <2>1, <2>3, <2>4, <2>5, <2>6, <2>7 DEF RestInv, RestsDone
<1>2. RestInv /\ [Next]_vars => RestInv'
  <2> SUFFICES ASSUME RestInv, [Next]_vars PROVE RestInv'
    OBVIOUS
  <2>1. LeakInv' /\ TypeOK' /\ TypeOK
    BY NextLeak, NextType DEF RestInv
  <2>2. /\ RefsDistinct' /\ RefsHeld' /\ UNCHANGED kind
        /\ NotLost' => NotLost /\ Matching \subseteq Matching'
    BY NextRefs DEF RestInv
  <2>3. Ready(Texts)
    <3>1. ErrorsAmong(Texts)
      BY <2>1 DEF TypeOK, DependentTypeOK, ReconcilerTypeOK, RuntimeTypeOK, ErrorsAmong, Object,
                  Status, Conditions, ConditionTypes, Condition
    <3> QED BY <2>1, <3>1, TextsAssumption DEF RestInv, Ready
  <2>4. VersionInv' /\ OnlySpends
    <3>1. Sayable(Texts) /\ "DeleteFailed" \in Texts
      BY StorageTexts DEF Sayable
    <3> QED BY <2>1, <2>2, <2>3, <3>1, NextKeeps DEF RestInv
  <2>5. ProtectedStands' /\ Cleared'
    BY <2>1, <2>2, NextProtected, NextCleared DEF RestInv
  <2>6. ASSUME NotLost'
        PROVE  ErrorsAmong(Unfailed)' /\ Applied(Matching)' /\ RefusedProtected' /\ RestsDone'
    <3>1. NotLost /\ Ready(Unfailed) /\ Sayable(Unfailed) /\ "DeleteFailed" \in Unfailed
      BY <1>0, <2>1, <2>2, <2>6 DEF RestInv, Ready, Sayable
    <3>2. ErrorsAmong(Unfailed)'
      BY <2>1, <2>2, <3>1, NextKeeps DEF RestInv
    <3>3. PICK before, after : before = Matching /\ after = Matching'
      OBVIOUS
    <3>4. before \subseteq after /\ Applied(before)
      BY <2>2, <2>6, <3>1, <3>3 DEF RestInv, Applied
    <3>5. Applied(before)'
      BY <2>1, <2>3, <2>4, <3>1, <3>3, <3>4, NextApplied DEF RestInv
    <3>6. Applied(Matching)'
      BY <3>3, <3>4, <3>5 DEF Applied
    <3>7. RefusedProtected'
      BY <2>1, <2>2, <2>4, <3>1, NextRefused DEF RestInv
    <3>8. RestsDone'
      BY <2>1, <2>2, <2>6, <3>1, <3>3, <3>4, StepDone DEF RestInv
    <3> QED BY <3>2, <3>6, <3>7, <3>8
  <2>7. ~NotLost' => RestsDone' /\ RefusedProtected'
    BY DEF RestsDone, RefusedProtected
  <2> QED BY <1>0, <2>1, <2>2, <2>4, <2>5, <2>6, <2>7 DEF RestInv
<1> QED BY <1>1, <1>2, PTL DEF Spec

\* What the invariant says of a CR nothing happens to any more.
LEMMA RestFacts ==
    ASSUME RestInv, OneFault, NeverSuspended, AtRest, Undrifted, RefsKept, WantsResource
    PROVE  \/ api.deleting /\ IsProtected(api.status.id)
           \/ ~api.deleting /\ Settled(Matching) /\ api.status.err = NoError
<1>1. Calm /\ Unattended /\ NotLost /\ ~RefReportedMissing
      /\ ~(kind = "BlockVolume" /\ ~api.spec.volumeType)
  BY DEF Calm, Unattended, AtRest, CacheIsCurrent, WantsResource, RefsKept, NoneGone,
         RefReportedMissing
<1> QED BY <1>1 DEF RestInv, RestsDone

(* A volume, snapshot, policy or instance is left alone only once it has    *)
(* what its update sends, and its deletion only while Thalassa protects it: *)
(* whatever the lists of references, and however the worker's lookups and   *)
(* the objects' own steps interleave.  Beside what RestsInSync excepts, a   *)
(* suspension is left out, and a reference by identity is to something      *)
(* Thalassa has.                                                            *)
THEOREM RestsWhenDone ==
    Modes /\ RefsAnchored => (Spec => [](NeverSuspended => RestsInSync))
<1> SUFFICES ASSUME Modes, RefsAnchored
             PROVE  Spec => [](NeverSuspended => RestsInSync)
  OBVIOUS
<1>1. RestInv => (NeverSuspended => RestsInSync)
  BY RestFacts DEF RestsInSync, Settled, InSync, Matching
<1> QED BY <1>1, RestInvariant, PTL

(* common_types.go: the last reconcile error is "Cleared on success".       *)
(* Whatever fails on the way, a resource that is left in sync has none, as  *)
(* long as nobody changes it behind the cluster's back.                     *)
THEOREM ErrorsCleared ==
    Modes /\ RefsAnchored
        => (Spec => [](NeverSuspended /\ Undrifted => ErrorClearedOnSuccess))
<1> SUFFICES ASSUME Modes, RefsAnchored
             PROVE  Spec => [](NeverSuspended /\ Undrifted => ErrorClearedOnSuccess)
  OBVIOUS
<1>1. RestInv => (NeverSuspended /\ Undrifted => ErrorClearedOnSuccess)
  BY RestFacts DEF ErrorClearedOnSuccess
<1> QED BY <1>1, RestInvariant, PTL
===============================================================================
