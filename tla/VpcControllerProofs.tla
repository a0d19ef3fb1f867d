------------------------- MODULE VpcControllerProofs -------------------------
(***************************************************************************)
(* Theorems about VpcController, for every set of identities, specs and    *)
(* every number of edits, faults, crashes and drifts: the types, and under *)
(* Modes (StableMode and ReadOwnWrites) that no VPC is forgotten, that     *)
(* there are never two, what Thalassa may be asked for, and that a CR the  *)
(* controller leaves alone is in sync with its VPC.                        *)
(***************************************************************************)
EXTENDS VpcController, ReconcilerRestProofs

LEMMA MemCfgType == ASSUME TypeOK PROVE mem.spec.cfg \in Cfgs
BY CfgAssumption DEF TypeOK, ReconcilerTypeOK, RuntimeTypeOK, Object

LEMMA DriftType == ASSUME TypeOK, Drift PROVE TypeOK'
<1> USE DEF TypeOK, ReconcilerTypeOK, RuntimeTypeOK, CloudTypeOK
<1>1. PICK i \in Ids : OutOfBandDelete(i) \/ \E c \in Cfgs : OutOfBandEdit(i, c)
  BY DEF Drift
<1>2. cloud' \in [Ids -> Resource]
  BY <1>1 DEF OutOfBandDelete, Standing, OutOfBandEdit, Resource, Phases
<1>3. budget' \in [Interferences -> Nat]
  BY SpendType DEF Drift, Interferences
<1> QED BY <1>2, <1>3 DEF Drift, objectVars, workerVars

LEMMA WorkerType == ASSUME TypeOK, Worker PROVE TypeOK'
<1> USE DEF TypeOK
<1>1. CASE ReconcileAnyKind \/ ReconcileVPC \/ CreateVpc
  BY <1>1, MemCfgType, ReconcileType, CreateOrSyncType, CreateType DEF ReconcileVPC, CreateVpc
<1>2. CASE SyncVpc \/ Adopt \/ Delete
  BY <1>2, MemCfgType, SyncType, AdoptType, DeleteType DEF SyncVpc
<1>3. CASE UpdateVpcFails \/ WaitUpdatedFails \/ RefetchVpcFails
  BY <1>3, ReturnErrorType
     DEF UpdateVpcFails, UpdateError, WaitUpdatedFails, RefetchVpcFails, RefetchError
<1>4. CASE WriteUpdatedVpc
  BY <1>4, WriteUpdatedType DEF WriteUpdatedVpc
<1>5. CASE WaitUpdated
  BY <1>5 DEF WaitUpdated, Step, ProgramPoints, CloudTypeOK, ReconcilerTypeOK, RuntimeTypeOK,
              objectVars, resourceVars
<1>6. CASE WriteError \/ StatusWriteFails
  BY <1>6, StatusWriteType
<1> QED BY <1>1, <1>2, <1>3, <1>4, <1>5, <1>6 DEF Worker

LEMMA NextType == TypeOK /\ [Next]_vars => TypeOK'
<1> SUFFICES ASSUME TypeOK, [Next]_vars PROVE TypeOK'
  OBVIOUS
<1>1. CASE Worker \/ Drift
  BY <1>1, WorkerType, DriftType
<1>2. CASE Crash \/ Watch \/ Timer \/ Users \/ Cloud
  BY <1>2, CrashType, EnvironmentType DEF TypeOK
<1>3. CASE UNCHANGED vars
  BY <1>3, UnchangedType DEF TypeOK, vars
<1> QED BY <1>1, <1>2, <1>3 DEF Next

(* Every variable keeps its type, whatever the bounds: the program points   *)
(* are those of vpc_controller.go, and no step writes a status the CRD does *)
(* not have.                                                                *)
THEOREM TypeCorrect == Spec => []TypeOK
<1>1. Init => TypeOK
  BY InitType DEF Init, TypeOK
<1> QED BY <1>1, NextType, PTL DEF Spec

-----------------------------------------------------------------------------

LEMMA WorkerLeak ==
    ASSUME Modes, LeakInv, Worker
    PROVE  CacheAgrees' /\ WorkerAgrees' /\ NoLeak'
<1>0. mem.spec.cfg \in Cfgs
  BY MemCfgType DEF LeakInv, TypeOK
<1>1. CASE ReconcileAnyKind \/ ReconcileVPC \/ CreateVpc
  BY <1>0, <1>1, ReconcileLeak, CreateOrSyncLeak, CreateLeak DEF ReconcileVPC, CreateVpc
<1>2. CASE SyncVpc \/ Adopt \/ Delete
  BY <1>0, <1>2, SyncLeak, AdoptLeak, DeleteLeak DEF SyncVpc
<1>3. CASE UpdateVpcFails \/ WaitUpdatedFails \/ RefetchVpcFails
  BY <1>3, ErrorLeak
     DEF UpdateVpcFails, UpdateError, WaitUpdatedFails, RefetchVpcFails, RefetchError
<1>4. CASE WriteUpdatedVpc
  BY <1>4, WriteUpdatedLeak DEF WriteUpdatedVpc
<1>5. CASE WaitUpdated
  BY <1>5, StepLeak
     DEF WaitUpdated, Step, Like, objectVars, resourceVars, Exists, Standing, AdoptPoints, DeletePoints,
         FinalizerPoints, IdentityPoints, CreatePoints
<1>6. CASE WriteError \/ StatusWriteFails
  BY <1>6, WriteErrorLeak, FailureLeak
<1> QED BY <1>1, <1>2, <1>3, <1>4, <1>5, <1>6 DEF Worker

LEMMA DriftLeak ==
    ASSUME LeakInv, Drift
    PROVE  CacheAgrees' /\ WorkerAgrees' /\ NoLeak'
<1>1. OnlyRemoves
  BY DEF OnlyRemoves, Drift, OutOfBandDelete, Standing, OutOfBandEdit, Exists, LeakInv,
         ReconcilerTypeOK, CloudTypeOK, Resource
<1> QED BY <1>1, CloudLeak DEF Drift, workerVars

LEMMA NextLeak == Modes /\ LeakInv /\ [Next]_vars => LeakInv'
<1> SUFFICES ASSUME Modes, LeakInv, [Next]_vars PROVE LeakInv'
  OBVIOUS
<1>1. ReconcilerTypeOK'
  BY NextType DEF LeakInv, TypeOK
<1>2. CASE Worker \/ Drift
  BY <1>1, <1>2, WorkerLeak, DriftLeak DEF LeakInv
<1>3. CASE Crash \/ Watch \/ Timer \/ Users \/ Cloud
  BY <1>1, <1>3, FailureLeak, EnvironmentLeak DEF LeakInv
<1>4. CASE UNCHANGED vars
  BY <1>1, <1>4, UnchangedLeak
     DEF vars, runtimeVars, workerVars, objectVars, resourceVars, LeakInv
<1> QED BY <1>2, <1>3, <1>4 DEF Next

(* The inductive invariant holds throughout.                               *)
THEOREM LeakInvariant == Modes => (Spec => []LeakInv)
<1> SUFFICES ASSUME Modes PROVE Spec => []LeakInv
  OBVIOUS
<1>1. LeakInv /\ [Next]_vars => LeakInv'
  BY NextLeak
<1>2. Init => LeakInv
  BY InitLeak DEF Init
<1> QED BY <1>1, <1>2, PTL DEF Spec

(* No VPC the controller created is forgotten without being in lost: the    *)
(* finalizer is removed only after the cloud has confirmed the deletion,    *)
(* and no status write takes back an identity another one recorded.         *)
THEOREM NeverForgotten == Modes => (Spec => []NoLeak)
<1> SUFFICES ASSUME Modes PROVE Spec => []NoLeak
  OBVIOUS
<1>1. LeakInv => NoLeak
  BY DEF LeakInv
<1> QED BY <1>1, LeakInvariant, PTL

(* A CR never has two VPCs but for those lost: CreateVpc is called only     *)
(* when the API server has no identity recorded.                            *)
THEOREM NeverTwo == Modes => (Spec => []OnePerCR)
<1> SUFFICES ASSUME Modes PROVE Spec => []OnePerCR
  OBVIOUS
<1> QED BY LeakOne, LeakInvariant, PTL

-----------------------------------------------------------------------------
(* What the worker may ask of Thalassa.                                    *)

\* The three calls that change the cloud are the only ways the worker does.
LEMMA WorkerCalls ==
    ASSUME Worker
    PROVE  \/ UNCHANGED cloud
           \/ \E i \in OwnIds : CloudCreate(i, mem.spec.cfg)
           \/ UpdateResource(mem.spec.cfg)
           \/ DeleteResource
<1>1. CASE ReconcileAnyKind \/ ReconcileVPC \/ Adopt \/ Delete \/ WriteError \/ StatusWriteFails
  BY <1>1, SharedCalls DEF ReconcileVPC
<1>2. CASE CreateVpc \/ SyncVpc
  BY <1>2, CreateCalls, SyncCalls DEF CreateVpc, SyncVpc
<1>3. CASE UpdateVpcFails \/ WriteUpdatedVpc \/ WaitUpdated \/ WaitUpdatedFails \/ RefetchVpcFails
  BY <1>3 DEF UpdateVpcFails, WriteUpdatedVpc, WriteUpdated, WaitUpdated, WaitUpdatedFails,
              RefetchVpcFails, ReturnError, resourceVars
<1> QED BY <1>1, <1>2, <1>3 DEF Worker

(* The worker never changes a VPC it adopted: every update and every delete *)
(* names an identity the controller got from CreateVpc.                     *)
THEOREM AdoptedUntouched == Modes => (Spec => ExternalUntouched)
<1> SUFFICES ASSUME Modes PROVE Spec => ExternalUntouched
  OBVIOUS
<1>1. LeakInv /\ [Next]_vars => [Worker => \A e \in ExtIds : cloud'[e] = cloud[e]]_vars
  <2> SUFFICES ASSUME LeakInv, Worker, NEW e \in ExtIds PROVE cloud'[e] = cloud[e]
    OBVIOUS
  <2>1. e \notin OwnIds /\ cloud \in [Ids -> Resource]
    BY IdsAssumption DEF LeakInv, ReconcilerTypeOK, CloudTypeOK
  <2>2. ASSUME NEW i \in OwnIds, CloudCreate(i, mem.spec.cfg) PROVE cloud'[e] = cloud[e]
    BY <2>1, <2>2 DEF CloudCreate, CloudCreateIn, Ids
  <2>3. CASE UpdateResource(mem.spec.cfg)
    BY <2>1, <2>3, OwnIdentity DEF UpdateResource, CloudUpdate, Standing, Ids
  <2>4. CASE DeleteResource
    BY <2>1, <2>4, OwnIdentity DEF DeleteResource, Step, CloudDelete, Ids
  <2> QED BY <2>2, <2>3, <2>4, WorkerCalls
<1> QED BY <1>1, LeakInvariant, PTL DEF Spec, ExternalUntouched

(* A VPC is taken to deletion only while its CR is being deleted, however   *)
(* old the object the reconcile started from.                               *)
THEOREM DeletesOnRequest == Modes => (Spec => DeletesOnlyForDeletedCR)
<1> SUFFICES ASSUME Modes PROVE Spec => DeletesOnlyForDeletedCR
  OBVIOUS
<1>1. LeakInv /\ [Next]_vars =>
        [\A i \in OwnIds : Exists(i) /\ cloud'[i].phase = "deleting"
            => cloud[i].phase = "deleting" \/ (api.exists /\ api.deleting)]_vars
  <2> SUFFICES ASSUME LeakInv, Next, NEW i \in OwnIds, Exists(i),
                      cloud'[i].phase = "deleting"
               PROVE  cloud[i].phase = "deleting" \/ (api.exists /\ api.deleting)
    OBVIOUS
  <2>1. cloud \in [Ids -> Resource]
    BY DEF LeakInv, ReconcilerTypeOK, CloudTypeOK
  <2>2. CASE UNCHANGED cloud
    BY <2>2
  <2>3. ASSUME NEW j \in OwnIds, CloudCreate(j, mem.spec.cfg)
        PROVE  cloud[i].phase = "deleting"
    BY <2>1, <2>3 DEF CloudCreate, CloudCreateIn, Exists, Standing
  <2>4. CASE UpdateResource(mem.spec.cfg)
    BY <2>1, <2>4 DEF UpdateResource, CloudUpdate, Standing, Ids
  <2>5. CASE DeleteResource
    <3>1. pc # "idle" /\ pc \in DeletePoints
      BY <2>5 DEF DeleteResource, Step, DeletePoints
    <3>2. mem.fin /\ mem.fin = api.fin /\ api.deleting
      BY <3>1 DEF LeakInv, WorkerAgrees, FinalizerPoints
    <3> QED BY <3>2 DEF LeakInv, CacheAgrees, WellFormed
  <2>6. CASE Cloud
    BY <2>1, <2>6 DEF Cloud, CloudProgress, Provisioned, Removed, Resource, Ids
  <2>7. CASE Drift
    BY <2>1, <2>7 DEF Drift, OutOfBandDelete, Standing, OutOfBandEdit, Resource, Ids
  <2>8. CASE Worker
    BY <2>2, <2>3, <2>4, <2>5, <2>8, WorkerCalls
  <2>9. CASE Crash \/ Watch \/ Timer \/ Users
    BY <2>2, <2>9, SharedCalls
  <2> QED BY <2>6, <2>7, <2>8, <2>9 DEF Next
<1> QED BY <1>1, LeakInvariant, PTL DEF Spec, DeletesOnlyForDeletedCR

-----------------------------------------------------------------------------
(* The reconciler implements its two abstract specifications.              *)

LEMMA NextEffect == LeakInv /\ Next => Effect
<1> SUFFICES ASSUME LeakInv, Next PROVE Effect
  OBVIOUS
<1>0. mem.spec.cfg \in Cfgs
  BY MemCfgType DEF LeakInv, TypeOK
<1>1. CASE ReconcileAnyKind \/ ReconcileVPC \/ CreateVpc
  BY <1>1, ReconcileEffect, CreateEffect DEF ReconcileVPC, CreateVpc
<1>2. CASE SyncVpc \/ Adopt \/ Delete
  BY <1>0, <1>2, SyncEffect, AdoptEffect, DeleteEffect DEF SyncVpc
<1>3. CASE UpdateVpcFails \/ WaitUpdatedFails \/ RefetchVpcFails
  BY <1>3, FailureEffect DEF UpdateVpcFails, WaitUpdatedFails, RefetchVpcFails
<1>4. CASE WriteUpdatedVpc \/ WaitUpdated
  BY <1>4, WriteUpdatedEffect, QuietEffect
     DEF WriteUpdatedVpc, WaitUpdated, objectVars, resourceVars
<1>5. CASE WriteError \/ StatusWriteFails \/ Crash
  BY <1>5, FailureEffect
<1>6. CASE Watch \/ Timer \/ Users \/ Cloud
  BY <1>6, EnvironmentEffect
<1>7. CASE Drift
  <2>1. OnlyRemoves
    BY <1>7 DEF OnlyRemoves, Drift, OutOfBandDelete, Standing, OutOfBandEdit, Exists, LeakInv,
                ReconcilerTypeOK, CloudTypeOK, Resource
  <2> QED BY <1>7, <2>1 DEF Drift, Effect, Removes, objectVars
<1> QED BY <1>1, <1>2, <1>3, <1>4, <1>5, <1>6, <1>7 DEF Next, Worker

(* The inductive invariant of the refinement: what is lost stays handed     *)
(* out, so Thalassa does not give a forgotten VPC's identity to a new one.  *)
THEOREM LifecycleInvariant == Modes => (Spec => []LifecycleInv)
<1> SUFFICES ASSUME Modes PROVE Spec => []LifecycleInv
  OBVIOUS
<1>1. LifecycleInv /\ [Next]_vars => LifecycleInv'
  <2>1. LifecycleInv /\ [Next]_vars => LeakInv'
    BY NextLeak DEF LifecycleInv
  <2>2. LifecycleInv /\ Next => HandedOut'
    BY NextEffect, EffectHandedOut DEF LifecycleInv
  <2>3. LifecycleInv /\ UNCHANGED vars => HandedOut'
    BY DEF LifecycleInv, HandedOut, vars, resourceVars
  <2> QED BY <2>1, <2>2, <2>3 DEF LifecycleInv
<1>2. Init => LifecycleInv
  BY InitLifecycle DEF Init
<1> QED BY <1>1, <1>2, PTL DEF Spec

(* Seen from outside, through the CR's presence, the recorded identity and  *)
(* what exists in Thalassa, every step of the controller is one of          *)
(* ManagedResource: it never provisions a second VPC, never drops a record, *)
(* and the CR disappears only when its VPC has.                             *)
THEOREM Lifecycles == Modes => (Spec => ImplementsLifecycle)
<1> SUFFICES ASSUME Modes PROVE Spec => ImplementsLifecycle
  OBVIOUS
<1>1. Init => Lifecycle!Init
  BY InitLifecycle DEF Init
<1>2. LifecycleInv /\ [Next]_vars => [Lifecycle!Next]_(Lifecycle!vars)
  <2>1. LifecycleInv /\ Next => [Lifecycle!Next]_(Lifecycle!vars)
    BY NextEffect, EffectLifecycle DEF LifecycleInv
  <2>2. LifecycleInv /\ UNCHANGED vars => [Lifecycle!Next]_(Lifecycle!vars)
    BY QuietEffect, EffectLifecycle DEF vars, runtimeVars, resourceVars, objectVars
  <2> QED BY <2>1, <2>2
<1> QED BY <1>1, <1>2, LifecycleInvariant, PTL DEF Spec, ImplementsLifecycle, Lifecycle!Spec

(* What the subnets' lookups read of this CR is written once and goes only  *)
(* with the CR: no status write, however stale, puts back an older one.     *)
THEOREM WrittenOnce == Modes => (Spec => ImplementsReference)
<1> SUFFICES ASSUME Modes PROVE Spec => ImplementsReference
  OBVIOUS
<1>1. Init => Reference!Init
  BY InitLifecycle DEF Init
<1>2. LeakInv /\ [Next]_vars => [Reference!Next]_Shown
  <2>1. LeakInv /\ Next => [Reference!Next]_Shown
    BY NextEffect, EffectReference
  <2>2. LeakInv /\ UNCHANGED vars => [Reference!Next]_Shown
    BY QuietEffect, EffectReference DEF vars, runtimeVars, resourceVars, objectVars
  <2> QED BY <2>1, <2>2
<1> QED BY <1>1, <1>2, LeakInvariant, PTL DEF Spec, ImplementsReference, Reference!Spec

-----------------------------------------------------------------------------
(* The controller comes to rest only when there is nothing left to do.     *)

\* The reasons the Error condition can have before any call has failed.
Unfailed == {"", "InvalidSpec"}

LEMMA DriftSpends == ASSUME Drift PROVE Spend("drifts") /\ UNCHANGED <<objectVars, workerVars>>
BY DEF Drift

LEMMA WorkerRest ==
    ASSUME Ready(Unfailed), Worker
    PROVE  RestStep(Unfailed)
<1>0. /\ mem.spec.cfg \in Cfgs /\ ReconcilerTypeOK
      /\ "InvalidSpec" \in Unfailed
  BY MemCfgType DEF Ready, LeakInv, TypeOK, Unfailed
<1>1. CASE ReconcileAnyKind
  BY <1>0, <1>1, ReconcileRest
<1>2. CASE ReconcileVPC \/ Adopt \/ Delete
  BY <1>2, CreateOrSyncRest, AdoptRest, DeleteRest DEF ReconcileVPC
<1>3. CASE CreateVpc
  BY <1>0, <1>3, CreateRest DEF CreateVpc
<1>4. CASE SyncVpc
  BY <1>0, <1>4, SyncRest DEF SyncVpc
<1>5. CASE UpdateVpcFails \/ WaitUpdatedFails \/ RefetchVpcFails
  BY <1>5, ReturnErrorRest
     DEF UpdateVpcFails, UpdateError, WaitUpdatedFails, RefetchVpcFails, RefetchError
<1>6. CASE WriteUpdatedVpc
  BY <1>6, WriteUpdatedRest DEF WriteUpdatedVpc
<1>7. CASE WaitUpdated
  <2>1. OnlySpends /\ NoneFalls
    BY <1>0, <1>7, SameBudget, CloudStands DEF WaitUpdated, resourceVars
  <2> QED BY <1>7, <2>1, RestCall
          DEF WaitUpdated, Step, Copy, Like, SameError, WorkPoints, IdentityPoints, DeletePoints
<1>8. CASE WriteError \/ StatusWriteFails
  BY <1>8, FailureRest
<1> QED BY <1>1, <1>2, <1>3, <1>4, <1>5, <1>6, <1>7, <1>8 DEF Worker

LEMMA NextRest ==
    ASSUME Ready(Unfailed), [Next]_vars
    PROVE  RestStep(Unfailed)
<1>1. CASE Worker \/ Crash
  BY <1>1, WorkerRest, FailureRest
<1>2. CASE Watch \/ Timer \/ Users \/ Cloud
  BY <1>2, EnvironmentRest
<1>3. CASE Drift
  BY <1>3, DriftSpends, RestDrift
<1>4. CASE UNCHANGED vars
  BY <1>4, CloudUntouched, RestCloud DEF vars, resourceVars
<1> QED BY <1>1, <1>2, <1>3, <1>4 DEF Next

\* A VPC that needs no update is what the spec describes.
LEMMA MatchingPairs ==
    ASSUME NEW s \in Specs, NEW c \in Cfgs
    PROVE  <<s, c>> \in Matching <=> s.cfg = c
BY DEF Matching

LEMMA WorkerApplied ==
    ASSUME Ready(Unfailed), Applied(Matching), Worker
    PROVE  Applied(Matching)'
<1>0. mem.spec \in Specs /\ mem.spec.cfg \in Cfgs /\ ReconcilerTypeOK /\ fetched.cfg \in Cfgs
  BY MemCfgType DEF Ready, LeakInv, TypeOK, ReconcilerTypeOK, RuntimeTypeOK, Object, Resource
<1>1. <<mem.spec, mem.spec.cfg>> \in Matching
  BY <1>0, MatchingPairs
<1>2. CASE ReconcileAnyKind \/ ReconcileVPC \/ Adopt \/ Delete \/ WriteError \/ StatusWriteFails
  BY <1>2, SharedApplied DEF ReconcileVPC
<1>3. CASE CreateVpc
  BY <1>0, <1>1, <1>3, CreateApplied DEF CreateVpc
<1>4. CASE SyncVpc
  <2>1. pc = "get" /\ Exists(mem.status.id) =>
            cloud[mem.status.id].cfg \in Cfgs
    BY <1>0 DEF ReconcilerTypeOK, CloudTypeOK, Resource, Exists
  <2>2. pc = "writeResourceStatus" /\ ~RequiresUpdate(mem, fetched) =>
            <<mem.spec, fetched.cfg>> \in Matching
    BY <1>0, MatchingPairs DEF RequiresUpdate
  <2>3. CASE pc = "get" /\ ~Exists(mem.status.id)
    BY <1>4, <2>3, AppliedNowhere
       DEF SyncVpc, Sync, GetResource, GetNotFound, GetFails, WriteNotFound, WriteResourceStatus,
           WriteUpdating, UpdateResource, Refetch, WriteRefetched, WriteSynced, PersistAndGo,
           Step, ReportError, Done, Return, AppliedPoints, LastWrites
  <2>4. CASE pc = "get" => Exists(mem.status.id)
    <3>1. pc = "get" /\ ~RequiresUpdate(mem, cloud[mem.status.id]) =>
              <<mem.spec, cloud[mem.status.id].cfg>> \in Matching
      BY <1>0, <2>1, <2>4, MatchingPairs DEF RequiresUpdate
    <3> QED BY <1>0, <1>1, <1>4, <2>2, <3>1, SyncApplied DEF SyncVpc
  <2> QED BY <2>3, <2>4
<1>5. CASE UpdateVpcFails \/ WaitUpdatedFails \/ RefetchVpcFails
  BY <1>5, AppliedNowhere
     DEF UpdateVpcFails, WaitUpdatedFails, RefetchVpcFails, ReturnError, Return, AppliedPoints,
         LastWrites
<1>6. CASE WriteUpdatedVpc
  BY <1>6, WriteUpdatedApplied DEF WriteUpdatedVpc
<1>7. CASE WaitUpdated
  <2>1. OnlySpends /\ Undisturbed
    BY <1>0, <1>7, SameBudget, CloudUntouched DEF WaitUpdated, resourceVars
  <2> QED BY <1>7, <2>1, AppliedKept DEF WaitUpdated, Step, AppliedPoints, LastWrites
<1> QED BY <1>2, <1>3, <1>4, <1>5, <1>6, <1>7 DEF Worker

LEMMA NextApplied ==
    ASSUME Ready(Unfailed), Applied(Matching), [Next]_vars
    PROVE  Applied(Matching)'
<1>1. CASE Worker \/ Crash
  BY <1>1, WorkerApplied, SharedApplied
<1>2. CASE Watch \/ Timer \/ Users \/ Cloud
  <2>1. OnlySpends
    BY <1>2, EnvironmentRest DEF RestStep
  <2>2. UNCHANGED <<pc, mem, fetched>>
    BY <1>2 DEF Watch, CacheSync, Timer, TimerFires, Users, User, UserEdit, UserCreate,
                UserDelete, UserToggleSuspend, UserWrites, Cloud, runtimeVars, workerVars,
                resourceVars
  <2>3. Undisturbed
    <3>1. CASE Watch \/ Timer \/ Users
      BY <3>1, CloudUntouched DEF Watch, Timer, Users, resourceVars
    <3>2. CASE Cloud
      BY <3>2, CloudUndisturbed DEF Cloud, Ready, LeakInv, ReconcilerTypeOK
    <3> QED BY <1>2, <3>1, <3>2
  <2> QED BY <2>1, <2>2, <2>3, EnvironmentApplied
<1>3. CASE Drift
  <2>1. ~Undrifted'
    BY <1>3, DriftSpends, DriftShows
  <2> QED BY <2>1 DEF Applied
<1>4. CASE UNCHANGED vars
  <2>1. OnlySpends /\ Undisturbed
    BY <1>4, SameBudget, CloudUntouched
       DEF vars, runtimeVars, resourceVars, Ready, LeakInv
  <2> QED BY <1>4, <2>1, EnvironmentApplied DEF vars, runtimeVars, workerVars, resourceVars
<1> QED BY <1>1, <1>2, <1>3, <1>4 DEF Next

(* The inductive invariant of RestsInSync: the worker's and the cache's     *)
(* copies are earlier versions of the CR, told apart by their generation,   *)
(* what is recorded is there, and from the update on the VPC is what the    *)
(* spec describes.                                                          *)
THEOREM RestInvariant == Modes => (Spec => []RestInv)
<1> SUFFICES ASSUME Modes PROVE Spec => []RestInv
  OBVIOUS
<1>1. Init => RestInv
  <2> SUFFICES ASSUME Init PROVE RestInv
    OBVIOUS
  <2>1. LeakInv
    BY InitLeak DEF Init
  <2>2. "" \in Unfailed
    BY DEF Unfailed
  <2>3. VersionInv /\ ErrorsAmong(Unfailed) /\ ~Unattended
    BY <2>2, InitRest DEF Init
  <2>4. Applied(Matching)
    BY DEF Init, ReconcilerInit, RuntimeInit, Applied, AppliedPoints, LastWrites
  <2> QED BY <2>1, <2>3, <2>4 DEF RestInv, RestsDone, Unfailed
<1>2. RestInv /\ [Next]_vars => RestInv'
  <2> SUFFICES ASSUME RestInv, [Next]_vars PROVE RestInv'
    OBVIOUS
  <2>1. LeakInv'
    BY NextLeak DEF RestInv
  <2>2. Ready(Unfailed) /\ Applied(Matching)
    BY <2>1 DEF RestInv, Ready, Unfailed
  <2>3. RestStep(Unfailed)
    BY <2>2, NextRest
  <2>4. Applied(Matching)'
    BY <2>2, NextApplied
  <2>5. RestsDone'
    <3> SUFFICES ASSUME Calm', Unattended', ~Adopts(api'), api'.spec.valid
                 PROVE  ~api'.deleting /\ Settled(Matching)'
      BY DEF RestsDone, Adopts
    <3>1. Calm /\ Unattended /\ ~Adopts(api) /\ api.spec.valid
              => ~api.deleting /\ Settled(Matching)
      BY DEF RestInv, RestsDone
    <3>2. Blameless(Unfailed)
      BY DEF Blameless, CallFailed, Unfailed
    <3> QED BY <2>2, <2>3, <3>1, <3>2, RestsSettled
  <2> QED BY <2>1, <2>3, <2>4, <2>5 DEF RestInv, RestStep, Unfailed
<1> QED BY <1>1, <1>2, PTL DEF Spec

(* The controller comes to rest only with a VPC that is what its CR         *)
(* describes, however the events, the worker's writes and users interleave, *)
(* whatever single call fails and however often the process restarts.  The  *)
(* end of a suspension starts no reconcile: hence the hypothesis.           *)
THEOREM RestsWhenDone ==
    Modes => (Spec => [](NeverSuspended => RestsInSync))
<1> SUFFICES ASSUME Modes PROVE Spec => [](NeverSuspended => RestsInSync)
  OBVIOUS
<1>1. RestInv => (NeverSuspended => RestsInSync)
  <2> SUFFICES ASSUME RestInv, OneFault, NeverSuspended, AtRest, Undrifted, api.exists,
                      ~Adopts(api), api.spec.valid
               PROVE  ~api.deleting /\ InSync
    BY DEF RestsInSync, WantsVpc
  <2>1. Calm /\ Unattended
    BY DEF Calm, Unattended, AtRest, CacheIsCurrent
  <2>2. ~api.deleting /\ Settled(Matching)
    BY <2>1 DEF RestInv, RestsDone
  <2>3. api.spec \in Specs /\ cloud[api.status.id].cfg \in Cfgs
    BY <2>2 DEF Settled, Exists, RestInv, LeakInv, ReconcilerTypeOK, RuntimeTypeOK, CloudTypeOK,
                Object, Resource
  <2> QED BY <2>2, <2>3, MatchingPairs DEF Settled, InSync
<1> QED BY <1>1, RestInvariant, PTL
===============================================================================
