------------------------ MODULE SubnetControllerProofs ------------------------
(***************************************************************************)
(* Theorems about SubnetController: the types, the dependency's included,  *)
(* and under Modes that no subnet is forgotten and there are never two,    *)
(* whatever becomes of the VPC objects, and that a CR the controller       *)
(* leaves alone is in sync with its subnet or says which VPC it misses.    *)
(***************************************************************************)
EXTENDS SubnetController, ReconcilerRestProofs

\* What is left of TypeOK beside the reconciler's own state.
DependencyTypeOK ==
    /\ RefsTypeOK
    /\ vpcIdentity \in IF pc \in NeedVpc THEN RefIds ELSE {NoId}

-----------------------------------------------------------------------------
(* What createSubnet and reconcileSubnet send is a configuration.          *)

LEMMA MemSpecType ==
    ASSUME TypeOK
    PROVE  mem.spec.cidr \in Cidrs /\ mem.spec.meta \in Metas
BY SubnetAssumption DEF TypeOK, ReconcilerTypeOK, RuntimeTypeOK, Object

\* Away from the call itself nothing depends on what it would send.
LEMMA CreateAny ==
    ASSUME NEW a, NEW b, Create(a), pc # "create"
    PROVE  Create(b)
BY DEF Create, CreateResource, CreateResourceFails, Step

LEMMA SyncAny ==
    ASSUME NEW needsUpdate, NEW needsUpdateOnceWritten, NEW a, NEW b,
           Sync(needsUpdate, needsUpdateOnceWritten, a), ~UpdateResource(a)
    PROVE  Sync(needsUpdate, needsUpdateOnceWritten, b)
BY DEF Sync

\* The description is the spec's even where nothing is sent.
LEMMA SomeCfg ==
    ASSUME TypeOK
    PROVE  \E c \in Cfgs : c.meta = mem.spec.meta
<1>1. PICK c : c \in Cfgs
  BY CfgsAssumption
<1>2. [c EXCEPT !.meta = mem.spec.meta] \in Cfgs
  BY <1>1, MemSpecType, SubnetAssumption
<1>3. [c EXCEPT !.meta = mem.spec.meta].meta = mem.spec.meta
  BY <1>1, SubnetAssumption
<1> QED BY <1>2, <1>3

LEMMA CreateSends ==
    ASSUME TypeOK, CreateSubnet
    PROVE  \E c \in Cfgs : c.meta = mem.spec.meta /\ Create(c)
<1> DEFINE sent == [vpc |-> vpcIdentity, cidr |-> mem.spec.cidr, meta |-> mem.spec.meta]
<1>1. Create(sent) /\ sent.meta = mem.spec.meta
  BY DEF CreateSubnet
<1>2. CASE pc = "create"
  <2>1. vpcIdentity \in RefIds
    BY <1>2 DEF TypeOK, NeedVpc
  <2>2. sent \in Cfgs
    BY <2>1, MemSpecType, SubnetAssumption
  <2> HIDE DEF sent
  <2> QED BY <1>1, <2>2
<1>3. CASE pc # "create"
  <2> HIDE DEF sent
  <2>1. PICK c \in Cfgs : c.meta = mem.spec.meta
    BY SomeCfg
  <2> QED BY <1>1, <1>3, <2>1, CreateAny
<1> QED BY <1>2, <1>3

LEMMA SyncSends ==
    ASSUME TypeOK, SyncSubnet
    PROVE  \E c \in Cfgs :
               /\ c.meta = mem.spec.meta
               /\ Sync(RequiresUpdate(mem, cloud[mem.status.id]), RequiresUpdate(mem, fetched), c)
<1> DEFINE now == RequiresUpdate(mem, cloud[mem.status.id])
           once == RequiresUpdate(mem, fetched)
           sent == [cloud[mem.status.id].cfg EXCEPT !.meta = mem.spec.meta]
<1>1. Sync(now, once, sent)
  BY DEF SyncSubnet
<1>2. CASE UpdateResource(sent)
  <2>1. mem.status.id \in Ids
    BY <1>2 DEF UpdateResource, CloudUpdate, Standing
  <2>2. cloud[mem.status.id].cfg \in [vpc : RefIds, cidr : Cidrs, meta : Metas]
    BY <2>1, SubnetAssumption DEF TypeOK, ReconcilerTypeOK, CloudTypeOK, Resource
  <2>3. sent \in Cfgs /\ sent.meta = mem.spec.meta
    BY <2>2, MemSpecType, SubnetAssumption
  <2> HIDE DEF now, once, sent
  <2>4. \E c \in Cfgs : c.meta = mem.spec.meta /\ Sync(now, once, c)
    BY <1>1, <2>3
  <2> QED BY <2>4 DEF now, once
<1>3. CASE ~UpdateResource(sent)
  <2> HIDE DEF now, once, sent
  <2>1. PICK c \in Cfgs : c.meta = mem.spec.meta
    BY SomeCfg
  <2>2. Sync(now, once, c)
    BY <1>1, <1>3, SyncAny
  <2> QED BY <2>1, <2>2 DEF now, once
<1> QED BY <1>2, <1>3

-----------------------------------------------------------------------------
(* The program points that need vpcIdentity are entered by ReconcileSubnet *)
(* and left for good.                                                      *)

LEMMA NeedVpcSteps ==
    ASSUME TypeOK, Worker, ~ReconcileSubnet, pc' \in NeedVpc
    PROVE  pc \in NeedVpc
<1> USE DEF NeedVpc
<1>1. CASE ReconcileAnyKind \/ ReconcileVpcNotReady \/ ReconcileVpcNotFound
  BY <1>1 DEF ReconcileAnyKind, ReconcileNothing, ReconcileDelete, ReconcileExternalReference,
              ReconcileInvalidSpec, ReconcileNoFinalizer, AddFinalizer, ReconcileVpcNotReady,
              ReconcileVpcNotFound, DequeueReporting, Dequeue, DequeueIgnored, DequeueAgain,
              CanDequeue, UpdateObjectFails, Return
<1>2. CASE CreateSubnet
  <2>1. PICK c \in Cfgs : Create(c)
    BY <1>2, CreateSends
  <2> QED
    BY <2>1 DEF Create, WriteCreating, CreateResource, CreateResourceFails, WriteResourceId,
                WaitCreated, WaitCreatedFails, WriteCreated, PersistAndGo, Step, ReportError,
                ReturnError, Done, Return
<1>3. CASE SyncSubnet
  <2>1. PICK c \in Cfgs :
            Sync(RequiresUpdate(mem, cloud[mem.status.id]), RequiresUpdate(mem, fetched), c)
    BY <1>3, SyncSends
  <2> QED
    BY <2>1 DEF Sync, GetResource, GetNotFound, GetFails, WriteNotFound, WriteResourceStatus,
                WriteUpdating, UpdateResource, Refetch, WriteRefetched, WriteSynced, SyncSpec,
                PersistAndGo, Step, ReportError, Done, Return
<1>4. CASE Adopt \/ Delete
  BY <1>4 DEF Adopt, GetExternal, GetExternalFails, WriteAdopted, WriteAdoptedReady, AdoptedReady,
              Delete, DeleteResource, DeleteResourceFails, WaitDeleted, WaitDeletedFails,
              RemoveFinalizer, UpdateObjectFails, Step, ReturnError, Done, Return
<1>5. CASE CreateSubnetRefused \/ UpdateSubnetFails \/ WriteUpdatedSubnet \/ RefetchSubnetFails
  BY <1>5 DEF CreateSubnetRefused, UpdateSubnetFails, WriteUpdatedSubnet, WriteUpdated,
              RefetchSubnetFails, PersistAndGo, Step, ReportError, Done, Return
<1>6. CASE WriteError \/ StatusWriteFails
  BY <1>6 DEF WriteError, StatusWriteFails, GiveUp, Return
<1> QED BY <1>1, <1>2, <1>3, <1>4, <1>5, <1>6 DEF Worker, Reconcile

-----------------------------------------------------------------------------
(* Types.                                                                  *)

LEMMA ReportsVpcNotFound ==
    ASSUME TypeOK, ReconcileVpcNotFound
    PROVE  /\ cache.spec.vpc \in Texts /\ "VPCNotFound" \in Texts
           /\ cache.exists /\ ~Adopts(cache)
<1>1. cache.spec.vpc \in Names \cup RefIds
  BY SubnetAssumption DEF TypeOK, ReconcilerTypeOK, RuntimeTypeOK, Object
<1>2. cache.spec.vpc \in Names
  BY <1>1, RefsAssumption DEF ReconcileVpcNotFound, ResolveRef
<1> QED BY <1>2, SubnetReasonsAssumption DEF ReconcileVpcNotFound, Provisions, Reconciles

LEMMA ReportedTypes ==
    /\ Errors \subseteq Texts
    /\ {"FailedCreate", "UpdateFailed", "GetFailed"} \subseteq Texts
BY ErrorsAssumption, ReasonsAssumption, SubnetReasonsAssumption DEF Reasons

\* A reported error that leaves the cloud alone.
LEMMA ReportedType ==
    ASSUME ReconcilerTypeOK, NEW reason \in Texts, NEW message \in Texts, NEW err \in Texts,
           ReportError(mem, reason, message, err), UNCHANGED <<objectVars, cloud, lost>>,
           UNCHANGED budget \/ Spend("faults")
    PROVE  ReconcilerTypeOK'
<1>1. budget' \in [Interferences -> Nat]
  BY SpendType DEF ReconcilerTypeOK, RuntimeTypeOK, Interferences
<1> QED
  BY <1>1, ReportErrorType DEF ReconcilerTypeOK, RuntimeTypeOK, CloudTypeOK, objectVars

LEMMA WorkerReconcilerType == ASSUME TypeOK, Worker PROVE ReconcilerTypeOK'
<1> ReconcilerTypeOK
  BY DEF TypeOK
<1>1. CASE ReconcileAnyKind \/ ReconcileSubnet
  BY <1>1, ReconcileType, CreateOrSyncType DEF ReconcileSubnet
<1>2. CASE ReconcileVpcNotReady
  BY <1>2 DEF ReconcileVpcNotReady, DequeueAgain, ReconcilerTypeOK, RuntimeTypeOK, CloudTypeOK,
              objectVars, resourceVars
<1>3. CASE ReconcileVpcNotFound
  BY <1>3, ReportsVpcNotFound, DequeueReportingType DEF ReconcileVpcNotFound
<1>4. CASE CreateSubnet
  BY <1>4, CreateSends, CreateType
<1>5. CASE SyncSubnet
  BY <1>5, SyncSends, SyncType
<1>6. CASE Adopt \/ Delete
  BY <1>6, AdoptType, DeleteType
<1>7. CASE CreateSubnetRefused \/ UpdateSubnetFails \/ RefetchSubnetFails
  BY <1>7, ReportedTypes, ReportedType
     DEF CreateSubnetRefused, UpdateSubnetFails, UpdateError, RefetchSubnetFails, RefetchError
<1>8. CASE WriteUpdatedSubnet
  BY <1>8, WriteUpdatedType DEF WriteUpdatedSubnet
<1>9. CASE WriteError \/ StatusWriteFails
  BY <1>9, StatusWriteType
<1> QED BY <1>1, <1>2, <1>3, <1>4, <1>5, <1>6, <1>7, <1>8, <1>9 DEF Worker, Reconcile

LEMMA WorkerDependencyType == ASSUME TypeOK, Worker PROVE DependencyTypeOK'
<1>1. CASE ReconcileSubnet
  BY <1>1 DEF Worker, ReconcileSubnet, dependencyVars, DependencyTypeOK, RefsTypeOK, TypeOK
<1>2. CASE ~ReconcileSubnet
  <2>1. pc' \in NeedVpc => pc \in NeedVpc
    BY <1>2, NeedVpcSteps
  <2>2. ForgetVpc /\ UNCHANGED dependencyVars
    BY <1>2 DEF Worker, Reconcile
  <2> QED BY <2>1, <2>2 DEF ForgetVpc, dependencyVars, DependencyTypeOK, RefsTypeOK, TypeOK
<1> QED BY <1>1, <1>2

LEMMA DriftType == ASSUME TypeOK, Drift PROVE TypeOK'
<1> USE DEF TypeOK, ReconcilerTypeOK, RuntimeTypeOK, CloudTypeOK
<1>1. PICK i \in Ids : \/ OutOfBandDelete(i)
                       \/ \E m \in Metas : OutOfBandEdit(i, [cloud[i].cfg EXCEPT !.meta = m])
  BY DEF Drift
<1>2. cloud[i].cfg \in [vpc : RefIds, cidr : Cidrs, meta : Metas]
  BY SubnetAssumption DEF Resource
<1>3. \A m \in Metas : [cloud[i].cfg EXCEPT !.meta = m] \in Cfgs
  BY <1>2, SubnetAssumption
<1>4. cloud' \in [Ids -> Resource]
  <2>1. CASE OutOfBandDelete(i)
    BY <2>1 DEF OutOfBandDelete, Standing, Resource, Phases
  <2>2. ASSUME NEW c \in Cfgs, OutOfBandEdit(i, c) PROVE cloud' \in [Ids -> Resource]
    BY <2>2 DEF OutOfBandEdit, Resource
  <2> QED BY <1>1, <1>3, <2>1, <2>2
<1>5. budget' \in [Interferences -> Nat]
  BY SpendType DEF Drift, Interferences
<1> QED BY <1>4, <1>5 DEF Drift, objectVars, workerVars, dependencyVars, RefsTypeOK

LEMMA VpcsType == ASSUME TypeOK, VpcController \/ VpcUsers PROVE TypeOK'
<1>1. budget' \in [Interferences -> Nat]
  BY SpendType DEF VpcController, VpcUsers, RefRecorded, RefCreated, RefGone, Interferences,
                   TypeOK, ReconcilerTypeOK, RuntimeTypeOK
<1>2. RefsTypeOK'
  BY DEF VpcController, VpcUsers, RefRecorded, RefCreated, RefGone, TypeOK, RefsTypeOK
<1>3. UNCHANGED <<objectVars, workerVars, resourceVars, vpcIdentity>>
  BY DEF VpcController, VpcUsers
<1> QED
  BY <1>1, <1>2, <1>3 DEF TypeOK, ReconcilerTypeOK, RuntimeTypeOK, CloudTypeOK, objectVars,
                          workerVars, resourceVars

LEMMA NextType == TypeOK /\ [Next]_vars => TypeOK'
<1> SUFFICES ASSUME TypeOK, [Next]_vars PROVE TypeOK'
  OBVIOUS
<1>1. CASE Worker
  BY <1>1, WorkerReconcilerType, WorkerDependencyType DEF TypeOK, DependencyTypeOK
<1>2. CASE Drift \/ VpcController \/ VpcUsers
  BY <1>2, DriftType, VpcsType
<1>3. CASE Environment
  <2>1. UNCHANGED pc
    BY <1>3 DEF Environment, Watch, CacheSync, Timer, TimerFires, Users, User, UserEdit,
                UserCreate, UserDelete, UserToggleSuspend, UserWrites, Cloud, runtimeVars,
                workerVars
  <2> QED BY <1>3, <2>1, EnvironmentType DEF Environment, dependencyVars, RefsTypeOK, TypeOK
<1>4. CASE Restarts
  <2>1. pc' = "idle"
    BY <1>4 DEF Restarts, Crash, Restart
  <2> QED BY <1>4, <2>1, CrashType DEF Restarts, dependencyVars, RefsTypeOK, TypeOK, NeedVpc
<1>5. CASE UNCHANGED vars
  BY <1>5, UnchangedType DEF TypeOK, RefsTypeOK, vars, runtimeVars, workerVars, dependencyVars
<1> QED BY <1>1, <1>2, <1>3, <1>4, <1>5 DEF Next

LEMMA InitTypes == Init => TypeOK
BY InitType, RefsAssumption
   DEF Init, RefsInit, RefsTypeOK, TypeOK, ReconcilerInit, RuntimeInit, NeedVpc

(* Every variable keeps its type, whatever the bounds: createSubnet holds a *)
(* VPC identity exactly while it still needs one, and never an empty one.   *)
THEOREM TypeCorrect == Spec => []TypeOK
BY InitTypes, NextType, PTL DEF Spec

-----------------------------------------------------------------------------
(* Leaks.                                                                  *)

LEMMA WorkerLeak ==
    ASSUME Modes, LeakInv, TypeOK, Worker
    PROVE  CacheAgrees' /\ WorkerAgrees' /\ NoLeak'
<1>1. CASE ReconcileAnyKind \/ ReconcileSubnet
  BY <1>1, ReconcileLeak, CreateOrSyncLeak DEF ReconcileSubnet
<1>2. CASE ReconcileVpcNotReady
  BY <1>2, IgnoredLeak DEF ReconcileVpcNotReady
<1>3. CASE ReconcileVpcNotFound
  BY <1>3, ReportsVpcNotFound, DequeueReportingLeak DEF ReconcileVpcNotFound
<1>4. CASE CreateSubnet
  BY <1>4, CreateSends, CreateLeak
<1>5. CASE SyncSubnet
  BY <1>5, SyncSends, SyncLeak
<1>6. CASE Adopt \/ Delete
  BY <1>6, AdoptLeak, DeleteLeak
<1>7. CASE CreateSubnetRefused \/ UpdateSubnetFails \/ RefetchSubnetFails
  BY <1>7, ReportedTypes, ReportErrorLeak
     DEF CreateSubnetRefused, UpdateSubnetFails, UpdateError, RefetchSubnetFails, RefetchError,
         ReportingPoints, Exists, Standing
<1>8. CASE WriteUpdatedSubnet
  BY <1>8, WriteUpdatedLeak DEF WriteUpdatedSubnet
<1>9. CASE WriteError \/ StatusWriteFails
  BY <1>9, WriteErrorLeak, FailureLeak
<1> QED BY <1>1, <1>2, <1>3, <1>4, <1>5, <1>6, <1>7, <1>8, <1>9 DEF Worker, Reconcile

LEMMA DriftLeak ==
    ASSUME LeakInv, Drift
    PROVE  CacheAgrees' /\ WorkerAgrees' /\ NoLeak'
<1>1. OnlyRemoves
  BY DEF OnlyRemoves, Drift, OutOfBandDelete, Standing, OutOfBandEdit, Exists, LeakInv,
         ReconcilerTypeOK, CloudTypeOK, Resource
<1> QED BY <1>1, CloudLeak DEF Drift, workerVars

LEMMA NextLeak == Modes /\ LeakInv /\ TypeOK /\ [Next]_vars => LeakInv'
<1> SUFFICES ASSUME Modes, LeakInv, TypeOK, [Next]_vars PROVE LeakInv'
  OBVIOUS
<1>1. ReconcilerTypeOK'
  BY NextType DEF TypeOK
<1>2. CASE Worker \/ Drift
  BY <1>1, <1>2, WorkerLeak, DriftLeak DEF LeakInv
<1>3. CASE Restarts \/ Environment
  BY <1>1, <1>3, FailureLeak, EnvironmentLeak DEF Restarts, Environment, LeakInv
<1>4. CASE VpcController \/ VpcUsers
  BY <1>1, <1>4, UnchangedLeak
     DEF VpcController, VpcUsers, workerVars, objectVars, resourceVars, LeakInv
<1>5. CASE UNCHANGED vars
  BY <1>1, <1>5, UnchangedLeak
     DEF vars, runtimeVars, workerVars, objectVars, resourceVars, LeakInv
<1> QED BY <1>2, <1>3, <1>4, <1>5 DEF Next

(* The inductive invariant of the shared reconcile holds of this one too,   *)
(* whenever a VPC object appears, gets its identity or goes away.           *)
THEOREM LeakInvariant == Modes => (Spec => []LeakInv)
<1> SUFFICES ASSUME Modes PROVE Spec => []LeakInv
  OBVIOUS
<1>1. LeakInv /\ TypeOK /\ [Next]_vars => LeakInv'
  BY NextLeak
<1>2. Init => LeakInv
  BY InitLeak DEF Init
<1> QED BY <1>1, <1>2, TypeCorrect, PTL DEF Spec

(* A Subnet never has two subnets in Thalassa but for those lost, also when *)
(* the VPC its spec names changes or disappears between two reconciles:     *)
(* CreateSubnet is called only when the API server has no identity recorded.*)
THEOREM NeverTwo == Modes => (Spec => []OnePerCR)
<1> SUFFICES ASSUME Modes PROVE Spec => []OnePerCR
  OBVIOUS
<1> QED BY LeakOne, LeakInvariant, PTL

-----------------------------------------------------------------------------
(* The reconciler implements its two abstract specifications.              *)

LEMMA NextEffect == TypeOK /\ LeakInv /\ Next => Effect
<1> SUFFICES ASSUME TypeOK, LeakInv, Next PROVE Effect
  OBVIOUS
<1>1. CASE ReconcileAnyKind \/ ReconcileSubnet
  BY <1>1, ReconcileEffect DEF ReconcileSubnet
<1>2. CASE ReconcileVpcNotReady \/ ReconcileVpcNotFound
  BY <1>2, QuietEffect
     DEF ReconcileVpcNotReady, ReconcileVpcNotFound, DequeueReporting, Dequeue, DequeueAgain,
         DequeueIgnored, objectVars, resourceVars
<1>3. CASE CreateSubnet
  BY <1>3, CreateSends, CreateEffect
<1>4. CASE SyncSubnet
  BY <1>4, SyncSends, SyncEffect
<1>5. CASE Adopt \/ Delete
  BY <1>5, AdoptEffect, DeleteEffect
<1>6. CASE CreateSubnetRefused \/ UpdateSubnetFails \/ RefetchSubnetFails
  BY <1>6, QuietEffect DEF CreateSubnetRefused, UpdateSubnetFails, RefetchSubnetFails, objectVars
<1>7. CASE WriteUpdatedSubnet
  BY <1>7, WriteUpdatedEffect DEF WriteUpdatedSubnet
<1>8. CASE WriteError \/ StatusWriteFails \/ Restarts
  BY <1>8, FailureEffect DEF Restarts
<1>9. CASE Environment
  BY <1>9, EnvironmentEffect DEF Environment
<1>10. CASE VpcController \/ VpcUsers
  BY <1>10, QuietEffect DEF VpcController, VpcUsers, objectVars, resourceVars
<1>11. CASE Drift
  <2>1. OnlyRemoves
    BY <1>11 DEF OnlyRemoves, Drift, OutOfBandDelete, Standing, OutOfBandEdit, Exists, LeakInv,
                 ReconcilerTypeOK, CloudTypeOK, Resource
  <2> QED BY <1>11, <2>1 DEF Drift, Effect, Removes, objectVars
<1> QED
  BY <1>1, <1>2, <1>3, <1>4, <1>5, <1>6, <1>7, <1>8, <1>9, <1>10, <1>11
     DEF Next, Worker, Reconcile

(* The inductive invariant of the refinement: an identity whose creation    *)
(* was never recorded is not handed out again.                              *)
THEOREM LifecycleInvariant == Modes => (Spec => []LifecycleInv)
<1> SUFFICES ASSUME Modes PROVE Spec => []LifecycleInv
  OBVIOUS
<1>1. TypeOK /\ LifecycleInv /\ [Next]_vars => LifecycleInv'
  <2>1. TypeOK /\ LifecycleInv /\ [Next]_vars => LeakInv'
    BY NextLeak DEF LifecycleInv
  <2>2. TypeOK /\ LifecycleInv /\ Next => HandedOut'
    BY NextEffect, EffectHandedOut DEF LifecycleInv
  <2>3. LifecycleInv /\ UNCHANGED vars => HandedOut'
    BY DEF LifecycleInv, HandedOut, vars, resourceVars
  <2> QED BY <2>1, <2>2, <2>3 DEF LifecycleInv
<1>2. Init => LifecycleInv
  BY InitLifecycle DEF Init
<1> QED BY <1>1, <1>2, TypeCorrect, PTL DEF Spec

(* Whatever becomes of the VPC objects, every step of the controller is one *)
(* of ManagedResource: one subnet at a time, recorded until it is gone, and *)
(* the CR disappears only after it.                                         *)
THEOREM Lifecycles == Modes => (Spec => ImplementsLifecycle)
<1> SUFFICES ASSUME Modes PROVE Spec => ImplementsLifecycle
  OBVIOUS
<1>1. Init => Lifecycle!Init
  BY InitLifecycle DEF Init
<1>2. TypeOK /\ LifecycleInv /\ [Next]_vars => [Lifecycle!Next]_(Lifecycle!vars)
  <2>1. TypeOK /\ LifecycleInv /\ Next => [Lifecycle!Next]_(Lifecycle!vars)
    BY NextEffect, EffectLifecycle DEF LifecycleInv
  <2>2. LifecycleInv /\ UNCHANGED vars => [Lifecycle!Next]_(Lifecycle!vars)
    BY QuietEffect, EffectLifecycle DEF vars, runtimeVars, resourceVars, objectVars
  <2> QED BY <2>1, <2>2
<1> QED
  BY <1>1, <1>2, TypeCorrect, LifecycleInvariant, PTL DEF Spec, ImplementsLifecycle, Lifecycle!Spec

(* What other kinds read of a Subnet is written once and goes only with the *)
(* Subnet, which is also what the subnet controller assumes of its VPC.     *)
THEOREM WrittenOnce == Modes => (Spec => ImplementsReference)
<1> SUFFICES ASSUME Modes PROVE Spec => ImplementsReference
  OBVIOUS
<1>1. Init => Reference!Init
  BY InitLifecycle DEF Init
<1>2. TypeOK /\ LeakInv /\ [Next]_vars => [Reference!Next]_Shown
  <2>1. TypeOK /\ LeakInv /\ Next => [Reference!Next]_Shown
    BY NextEffect, EffectReference
  <2>2. LeakInv /\ UNCHANGED vars => [Reference!Next]_Shown
    BY QuietEffect, EffectReference DEF vars, runtimeVars, resourceVars, objectVars
  <2> QED BY <2>1, <2>2
<1> QED
  BY <1>1, <1>2, TypeCorrect, LeakInvariant, PTL DEF Spec, ImplementsReference, Reference!Spec

-----------------------------------------------------------------------------
(* The controller comes to rest only when there is nothing left to do.     *)

\* A reference by identity is to a VPC that is there.
RefsAnchored == \A s \in Specs : s.vpc \in Names \cup ExtRefIds

\* The reasons the Error condition can have before any call has failed.
Unfailed == {"", "InvalidSpec", "VPCNotFound"}

\* What the Error condition can say, as long as no VPC has lost its identity and after.
Reported(reasons) == reasons = Texts \/ (reasons = Unfailed /\ NotLost)

LEMMA ReportedReasons ==
    ASSUME NEW reasons, Reported(reasons)
    PROVE  "InvalidSpec" \in reasons /\ "VPCNotFound" \in reasons
BY ReasonsAssumption, SubnetReasonsAssumption DEF Reported, Unfailed, Reasons

\* An identity is recorded by one object, once.
LEMMA RefSteps ==
    ASSUME RefsTypeOK, RefsKnown, VpcController \/ VpcUsers
    PROVE  RefsKnown' /\ (NotLost' => NotLost) /\ recorded \subseteq recorded'
<1>1. PICK n \in Names : RefRecorded(n) \/ RefCreated(n) \/ RefGone(n)
  BY DEF VpcController, VpcUsers
<1>2. Missing \notin OwnRefIds /\ NoId \notin OwnRefIds
  BY RefsAssumption DEF RefIds
<1>3. CASE RefRecorded(n)
  <2>1. PICK i \in OwnRefIds \ recorded :
            refs' = [refs EXCEPT ![n] = i] /\ recorded' = recorded \cup {i}
    BY <1>3 DEF RefRecorded
  <2> QED BY <2>1 DEF RefsTypeOK, RefsKnown, NotLost
<1>4. CASE RefCreated(n) \/ RefGone(n)
  <2>1. UNCHANGED recorded /\ refs' \in [Names -> {Missing, NoId} \cup OwnRefIds]
        /\ \A m \in Names : refs'[m] \in OwnRefIds => refs'[m] = refs[m]
    BY <1>2, <1>4 DEF RefCreated, RefGone, RefsTypeOK
  <2> QED BY <2>1 DEF RefsTypeOK, RefsKnown, NotLost
<1> QED BY <1>1, <1>3, <1>4

LEMMA KnownSteps ==
    ASSUME RefsAnchored, TypeOK, RefsKnown, VpcKnown, [Next]_vars
    PROVE  RefsKnown' /\ VpcKnown' /\ (NotLost' => NotLost)
<1>1. CASE Worker
  <2>1. UNCHANGED dependencyVars
    BY <1>1 DEF Worker
  <2>2. CASE ReconcileSubnet
    <3>1. cache.spec.vpc \in Names \cup ExtRefIds /\ ResolveRef(cache.spec.vpc) \in RefIds
      BY <2>2 DEF RefsAnchored, ReconcileSubnet, TypeOK, ReconcilerTypeOK, RuntimeTypeOK, Object
    <3>2. ResolveRef(cache.spec.vpc) \in ExtRefIds \cup recorded
      BY <3>1, RefsAssumption DEF ResolveRef, RefsKnown, RefIds
    <3> QED BY <2>1, <2>2, <3>2
            DEF ReconcileSubnet, VpcKnown, RefsKnown, NotLost, dependencyVars
  <2>3. CASE ~ReconcileSubnet
    <3>1. pc' \in NeedVpc => pc \in NeedVpc
      BY <1>1, <2>3, NeedVpcSteps
    <3>2. ForgetVpc
      BY <1>1, <2>3 DEF Worker, Reconcile
    <3> QED BY <2>1, <3>1, <3>2 DEF ForgetVpc, VpcKnown, RefsKnown, NotLost, dependencyVars
  <2> QED BY <2>2, <2>3
<1>2. CASE Restarts
  BY <1>2 DEF Restarts, Crash, Restart, dependencyVars, VpcKnown, RefsKnown, NotLost, NeedVpc
<1>3. CASE VpcController \/ VpcUsers
  <2>1. RefsKnown' /\ (NotLost' => NotLost) /\ recorded \subseteq recorded'
    BY <1>3, RefSteps DEF TypeOK
  <2>2. UNCHANGED <<pc, vpcIdentity>>
    BY <1>3 DEF VpcController, VpcUsers, workerVars
  <2> QED BY <2>1, <2>2 DEF VpcKnown
<1>4. CASE Environment \/ Drift \/ UNCHANGED vars
  <2>1. UNCHANGED <<pc, vpcIdentity, refs, recorded>>
    BY <1>4 DEF Environment, Watch, CacheSync, Timer, TimerFires, Users, User, UserEdit,
                UserCreate, UserDelete, UserToggleSuspend, UserWrites, Cloud, runtimeVars,
                workerVars, Drift, dependencyVars, vars
  <2> QED BY <2>1 DEF VpcKnown, RefsKnown, NotLost
<1> QED BY <1>1, <1>2, <1>3, <1>4 DEF Next

\* A missing VPC that has been reported already is not reported again.
MissingAgain == ReconcileVpcNotFound /\ pc' = "idle"

LEMMA MissingAgainKeeps ==
    ASSUME NEW reasons, Ready(reasons), TypeOK, MissingAgain
    PROVE  /\ OnlySpends /\ VersionInv' /\ ErrorsAmong(reasons)'
           /\ Unattended' => VpcReportedMissing'
<1>1. cache.exists /\ UNCHANGED cloud
  BY DEF MissingAgain, ReconcileVpcNotFound, Provisions, Reconciles, resourceVars
<1>2. /\ ~StatusConditionChanges(cache.status.conds, "Error", "False", "VPCNotFound",
                                 cache.spec.vpc)
      /\ DequeueIgnored
  BY DEF MissingAgain, ReconcileVpcNotFound, DequeueReporting, Dequeue
<1>3. cache.status.conds \in Conditions
  BY DEF Ready, LeakInv, ReconcilerTypeOK, RuntimeTypeOK, Object, Status
<1>4. cache.status.conds["Error"].reason = "VPCNotFound"
  BY <1>2, <1>3, ChangesError
<1>5. ~unseen /\ UNCHANGED <<api, cache>>
  BY <1>2 DEF DequeueIgnored, CanDequeue, Ready, Modes, objectVars
<1>6. Unattended' => cache.status = api.status
  BY <1>1, <1>5 DEF Unattended, Ready, VersionInv, CacheVersion
<1> QED BY <1>1, <1>2, <1>4, <1>5, <1>6, IgnoredKeeps DEF VpcReportedMissing

LEMMA VpcNotFoundRest ==
    ASSUME NEW reasons, Ready(reasons), TypeOK, "VPCNotFound" \in reasons,
           ReconcileVpcNotFound, ~MissingAgain
    PROVE  RestStep(reasons)
<1>1. cache.spec.vpc \in Texts /\ "VPCNotFound" \in Texts /\ cache.exists /\ ~cache.deleting
      /\ UNCHANGED cloud
  BY ReportsVpcNotFound DEF ReconcileVpcNotFound, Provisions, resourceVars
<1>2. Dequeue(SetErrorCondition(Observed(cache), "VPCNotFound", cache.spec.vpc, cache.spec.vpc),
              "writeError")
  BY DEF MissingAgain, ReconcileVpcNotFound, DequeueReporting, DequeueIgnored, CanDequeue
<1> QED BY <1>1, <1>2, ReportingRest

\* Thalassa refuses a creation only once a VPC has lost its identity.
LEMMA RefusedRest ==
    ASSUME NEW reasons, Ready(reasons), Reported(reasons), VpcKnown, CreateSubnetRefused
    PROVE  RestStep(reasons)
<1>1. reasons = Texts
  BY DEF Reported, NotLost, VpcKnown, NeedVpc, CreateSubnetRefused, Live
<1>2. "FailedCreate" \in reasons /\ "FailedCreate" \in Texts /\ Errors \subseteq Texts
  BY <1>1, ReportedTypes
<1>3. ~Blameless(reasons)
  BY <1>2 DEF Blameless, CallFailed
<1>4. OnlySpends /\ NoneFalls /\ pc # "idle" /\ UNCHANGED objectVars
  BY SameBudget, CloudStands DEF CreateSubnetRefused, Ready, LeakInv
<1>5. PICK e \in Errors : ReportError(mem, "FailedCreate", e, e)
  BY DEF CreateSubnetRefused
<1> QED BY <1>2, <1>3, <1>4, <1>5, RestReport

LEMMA WorkerRest ==
    ASSUME NEW reasons, Ready(reasons), TypeOK, VpcKnown, Reported(reasons), Worker,
           ~MissingAgain
    PROVE  RestStep(reasons)
<1>0. "InvalidSpec" \in reasons /\ "VPCNotFound" \in reasons
  BY ReportedReasons
<1>1. CASE ReconcileAnyKind
  BY <1>0, <1>1, ReconcileRest
<1>2. CASE ReconcileSubnet \/ Adopt \/ Delete
  BY <1>2, CreateOrSyncRest, AdoptRest, DeleteRest DEF ReconcileSubnet
<1>3. CASE ReconcileVpcNotReady
  BY <1>3, RestAgain DEF ReconcileVpcNotReady, resourceVars
<1>4. CASE ReconcileVpcNotFound
  BY <1>0, <1>4, VpcNotFoundRest
<1>5. CASE CreateSubnet
  BY <1>5, CreateSends, CreateRest
<1>6. CASE CreateSubnetRefused
  BY <1>6, RefusedRest
<1>7. CASE SyncSubnet
  BY <1>7, SyncSends, SyncRest
<1>8. CASE UpdateSubnetFails \/ RefetchSubnetFails
  BY <1>8, ReportedTypes, RestLateError DEF UpdateSubnetFails, RefetchSubnetFails, CallFailed
<1>9. CASE WriteUpdatedSubnet
  BY <1>9, WriteUpdatedRest DEF WriteUpdatedSubnet
<1>10. CASE WriteError \/ StatusWriteFails
  BY <1>10, FailureRest
<1> QED
  BY <1>1, <1>2, <1>3, <1>4, <1>5, <1>6, <1>7, <1>8, <1>9, <1>10 DEF Worker, Reconcile

LEMMA VpcsSpend ==
    ASSUME ReconcilerTypeOK, VpcController \/ VpcUsers
    PROVE  OnlySpends /\ UNCHANGED <<objectVars, workerVars>> /\ UNCHANGED resourceVars
BY SpendOnly
   DEF VpcController, VpcUsers, RefRecorded, RefCreated, RefGone, Interferences,
       ReconcilerTypeOK, RuntimeTypeOK

LEMMA DriftSpends == ASSUME Drift PROVE Spend("drifts") /\ UNCHANGED <<objectVars, workerVars>>
BY DEF Drift

LEMMA NextRest ==
    ASSUME NEW reasons, Ready(reasons), TypeOK, VpcKnown, Reported(reasons), [Next]_vars,
           ~MissingAgain
    PROVE  RestStep(reasons)
<1>1. CASE Worker \/ Restarts
  BY <1>1, WorkerRest, FailureRest DEF Restarts
<1>2. CASE Environment
  BY <1>2, EnvironmentRest DEF Environment
<1>3. CASE VpcController \/ VpcUsers
  BY <1>3, VpcsSpend, CloudUntouched, RestAround DEF TypeOK, resourceVars
<1>4. CASE Drift
  BY <1>4, DriftSpends, RestDrift
<1>5. CASE UNCHANGED vars
  BY <1>5, CloudUntouched, RestCloud DEF vars, resourceVars
<1> QED BY <1>1, <1>2, <1>3, <1>4, <1>5 DEF Next

\* A subnet that needs no update has the description of the spec.
LEMMA MatchingPairs ==
    ASSUME NEW s \in Specs, NEW c \in Cfgs
    PROVE  <<s, c>> \in Matching <=> s.meta = c.meta
BY DEF Matching

LEMMA SyncSubnetApplied ==
    ASSUME NEW reasons, Ready(reasons), TypeOK, Applied(Matching), SyncSubnet
    PROVE  Applied(Matching)'
<1>1. PICK c \in Cfgs :
          /\ c.meta = mem.spec.meta
          /\ Sync(RequiresUpdate(mem, cloud[mem.status.id]), RequiresUpdate(mem, fetched), c)
  BY SyncSends
<1>2. mem.spec \in Specs /\ fetched.cfg \in Cfgs
  BY DEF TypeOK, ReconcilerTypeOK, RuntimeTypeOK, Object, Resource
<1>3. <<mem.spec, c>> \in Matching
  BY <1>1, <1>2, MatchingPairs
<1>4. ~RequiresUpdate(mem, fetched) => <<mem.spec, fetched.cfg>> \in Matching
  BY <1>2, MatchingPairs DEF RequiresUpdate
<1>5. CASE pc = "get" /\ ~Exists(mem.status.id)
  BY <1>1, <1>5, AppliedNowhere
     DEF Sync, GetResource, GetNotFound, GetFails, WriteNotFound, WriteResourceStatus,
         WriteUpdating, UpdateResource, Refetch, WriteRefetched, WriteSynced, PersistAndGo,
         Step, ReportError, Done, Return, AppliedPoints, LastWrites
<1>6. CASE pc = "get" => Exists(mem.status.id)
  <2>1. pc = "get" => cloud[mem.status.id].cfg \in Cfgs
    BY <1>6 DEF TypeOK, ReconcilerTypeOK, CloudTypeOK, Resource, Exists
  <2>2. pc = "get" /\ ~RequiresUpdate(mem, cloud[mem.status.id]) =>
            <<mem.spec, cloud[mem.status.id].cfg>> \in Matching
    BY <1>2, <2>1, MatchingPairs DEF RequiresUpdate
  <2> QED BY <1>1, <1>3, <1>4, <2>2, SyncApplied
<1> QED BY <1>5, <1>6

LEMMA WorkerApplied ==
    ASSUME NEW reasons, Ready(reasons), TypeOK, Applied(Matching), Worker
    PROVE  Applied(Matching)'
<1>1. CASE ReconcileAnyKind \/ ReconcileSubnet \/ Adopt \/ Delete \/ WriteError \/ StatusWriteFails
  BY <1>1, SharedApplied DEF ReconcileSubnet
<1>2. CASE ReconcileVpcNotReady \/ ReconcileVpcNotFound
  BY <1>2, AppliedNowhere
     DEF ReconcileVpcNotReady, ReconcileVpcNotFound, DequeueReporting, Dequeue, DequeueIgnored,
         DequeueAgain, CanDequeue, AppliedPoints, LastWrites
<1>3. CASE CreateSubnet
  <2>1. PICK c \in Cfgs : c.meta = mem.spec.meta /\ Create(c)
    BY <1>3, CreateSends
  <2>2. <<mem.spec, c>> \in Matching
    BY <2>1, MatchingPairs DEF TypeOK, ReconcilerTypeOK, RuntimeTypeOK, Object
  <2> QED BY <2>1, <2>2, CreateApplied
<1>4. CASE SyncSubnet
  BY <1>4, SyncSubnetApplied
<1>5. CASE CreateSubnetRefused \/ UpdateSubnetFails \/ RefetchSubnetFails
  BY <1>5, AppliedNowhere
     DEF CreateSubnetRefused, UpdateSubnetFails, RefetchSubnetFails, ReportError, Done, Return,
         AppliedPoints, LastWrites
<1>6. CASE WriteUpdatedSubnet
  BY <1>6, WriteUpdatedApplied DEF WriteUpdatedSubnet
<1> QED BY <1>1, <1>2, <1>3, <1>4, <1>5, <1>6 DEF Worker, Reconcile

LEMMA AroundApplied ==
    ASSUME NEW reasons, Ready(reasons), TypeOK, Applied(Matching),
           Environment \/ VpcController \/ VpcUsers \/ UNCHANGED vars
    PROVE  Applied(Matching)'
<1>1. CASE Environment
  <2>1. OnlySpends
    BY <1>1, EnvironmentRest DEF RestStep, Environment
  <2>2. UNCHANGED <<pc, mem, fetched>>
    BY <1>1 DEF Environment, Watch, CacheSync, Timer, TimerFires, Users, User, UserEdit,
                UserCreate, UserDelete, UserToggleSuspend, UserWrites, Cloud, runtimeVars,
                workerVars, resourceVars
  <2>3. Undisturbed
    <3>1. CASE Watch \/ Timer \/ Users
      BY <3>1, CloudUntouched DEF Watch, Timer, Users, resourceVars
    <3>2. CASE Cloud
      BY <3>2, CloudUndisturbed DEF Cloud, Ready, LeakInv, ReconcilerTypeOK
    <3> QED BY <1>1, <3>1, <3>2 DEF Environment
  <2> QED BY <2>1, <2>2, <2>3, EnvironmentApplied
<1>2. CASE VpcController \/ VpcUsers
  BY <1>2, VpcsSpend, CloudUntouched, EnvironmentApplied
     DEF TypeOK, resourceVars, workerVars
<1>3. CASE UNCHANGED vars
  <2>1. OnlySpends /\ Undisturbed
    BY <1>3, SameBudget, CloudUntouched DEF vars, runtimeVars, resourceVars, TypeOK
  <2> QED BY <1>3, <2>1, EnvironmentApplied DEF vars, runtimeVars, workerVars, resourceVars
<1> QED BY <1>1, <1>2, <1>3

LEMMA NextApplied ==
    ASSUME NEW reasons, Ready(reasons), TypeOK, Applied(Matching), [Next]_vars
    PROVE  Applied(Matching)'
<1>1. CASE Worker \/ Restarts
  BY <1>1, WorkerApplied, SharedApplied DEF Restarts
<1>2. CASE Drift
  <2>1. ~Undrifted'
    BY <1>2, DriftSpends, DriftShows
  <2> QED BY <2>1 DEF Applied
<1> QED BY <1>1, <1>2, AroundApplied DEF Next

\* Nothing has been lost: a reconcile that has nothing more to do leaves the subnet as
\* its CR says, or has reported that its VPC is missing.
LEMMA StepDone ==
    ASSUME Ready(Unfailed), TypeOK, VpcKnown, NotLost, Applied(Matching), RestsDone,
           [Next]_vars
    PROVE  RestsDone'
<1> SUFFICES ASSUME Calm', Unattended', ~Adopts(api'), api'.spec.valid, ~VpcReportedMissing'
             PROVE  ~api'.deleting /\ Settled(Matching)'
  BY DEF RestsDone, Adopts
<1>1. RestStep(Unfailed)
  BY NextRest, MissingAgainKeeps DEF Reported
<1>2. Blameless(Unfailed)
  BY DEF Blameless, CallFailed, Unfailed
<1>3. CASE Calm /\ Unattended /\ ~Adopts(api) /\ api.spec.valid /\ VpcReportedMissing
  <2>1. pc = "idle"
    BY <1>3 DEF Unattended
  <2>2. UNCHANGED api
    BY <1>1, <1>2, <2>1 DEF RestStep, Finishes, WritesLast, LastWrites
  <2> QED BY <1>3, <2>2 DEF VpcReportedMissing
<1>4. CASE Calm /\ Unattended /\ ~Adopts(api) /\ api.spec.valid => ~VpcReportedMissing
  <2>1. Calm /\ Unattended /\ ~Adopts(api) /\ api.spec.valid
            => ~api.deleting /\ Settled(Matching)
    BY <1>4 DEF RestsDone
  <2> QED BY <1>1, <1>2, <2>1, RestsSettled
<1> QED BY <1>3, <1>4

\* A VPC has lost its identity: what is left is whose version is whose.
LEMMA AnyStep ==
    ASSUME NEW reasons, Ready(reasons), TypeOK, VpcKnown, Reported(reasons), [Next]_vars
    PROVE  VersionInv' /\ ErrorsAmong(reasons)'
BY NextRest, MissingAgainKeeps DEF RestStep

(* The inductive invariant of RestsInSync: that of the shared reconcile,    *)
(* and that createSubnet sends an identity its VPC had when it was looked   *)
(* up, so that only a VPC that goes away makes Thalassa refuse it.          *)
THEOREM RestInvariant == Modes /\ RefsAnchored => (Spec => []RestInv)
<1> SUFFICES ASSUME Modes, RefsAnchored PROVE Spec => []RestInv
  OBVIOUS
<1>1. Init => RestInv
  <2> SUFFICES ASSUME Init PROVE RestInv
    OBVIOUS
  <2>1. LeakInv /\ TypeOK
    BY InitLeak, InitTypes DEF Init
  <2>2. "" \in Unfailed
    BY DEF Unfailed
  <2>3. VersionInv /\ ErrorsAmong(Unfailed) /\ ~Unattended
    BY <2>2, InitRest DEF Init
  <2>4. Applied(Matching) /\ VpcKnown
    BY DEF Init, ReconcilerInit, RuntimeInit, Applied, AppliedPoints, LastWrites, VpcKnown, NeedVpc
  <2>5. RefsKnown
    BY RefsAssumption DEF Init, RefsInit, RefsKnown, RefIds
  <2> QED BY <2>1, <2>3, <2>4, <2>5 DEF RestInv, RestsDone, Unfailed
<1>2. RestInv /\ [Next]_vars => RestInv'
  <2> SUFFICES ASSUME RestInv, [Next]_vars PROVE RestInv'
    OBVIOUS
  <2>1. LeakInv' /\ TypeOK' /\ TypeOK
    BY NextLeak, NextType DEF RestInv
  <2>2. RefsKnown' /\ VpcKnown' /\ (NotLost' => NotLost)
    BY KnownSteps DEF RestInv
  <2>3. Ready(Texts)
    <3>1. ErrorsAmong(Texts)
      BY <2>1 DEF TypeOK, ReconcilerTypeOK, RuntimeTypeOK, ErrorsAmong, Object, Status,
                  Conditions, ConditionTypes, Condition
    <3> QED BY <2>1, <3>1, TextsAssumption DEF RestInv, Ready
  <2>4. VersionInv' /\ Applied(Matching)'
    BY <2>1, <2>3, AnyStep, NextApplied DEF RestInv, Reported
  <2>5. ASSUME NotLost' PROVE ErrorsAmong(Unfailed)' /\ RestsDone'
    <3>1. Ready(Unfailed) /\ NotLost
      BY <2>1, <2>2, <2>5 DEF RestInv, Ready, Unfailed
    <3> QED BY <2>1, <3>1, AnyStep, StepDone DEF RestInv, Reported
  <2>6. ~NotLost' => RestsDone'
    BY DEF RestsDone
  <2> QED BY <2>1, <2>2, <2>4, <2>5, <2>6 DEF RestInv, Unfailed
<1> QED BY <1>1, <1>2, PTL DEF Spec

(* A subnet's controller comes to rest only with a subnet that is what its  *)
(* CR describes, whenever its VPC appears and gets its identity: a wait is  *)
(* never the end.  Beside what RestsInSync excepts, a suspension is left    *)
(* out, as for the VPC, and a reference by identity is to a VPC Thalassa    *)
(* has.                                                                     *)
THEOREM RestsWhenDone ==
    Modes /\ RefsAnchored => (Spec => [](NeverSuspended => RestsInSync))
<1> SUFFICES ASSUME Modes, RefsAnchored
             PROVE  Spec => [](NeverSuspended => RestsInSync)
  OBVIOUS
<1>1. RestInv => (NeverSuspended => RestsInSync)
  <2> SUFFICES ASSUME RestInv, OneFault, NeverSuspended, AtRest, Undrifted, NoneGone,
                      ~VpcReportedMissing, WantsSubnet
               PROVE  ~api.deleting /\ InSync
    BY DEF RestsInSync
  <2>1. Calm /\ Unattended /\ NotLost
    BY DEF Calm, Unattended, AtRest, CacheIsCurrent, WantsSubnet, NoneGone
  <2>2. ~api.deleting /\ Settled(Matching)
    BY <2>1 DEF RestInv, RestsDone, WantsSubnet
  <2>3. api.spec \in Specs /\ cloud[api.status.id].cfg \in Cfgs
    BY <2>2 DEF Settled, Exists, RestInv, LeakInv, ReconcilerTypeOK, RuntimeTypeOK, CloudTypeOK,
                Object, Resource
  <2> QED BY <2>2, <2>3, MatchingPairs DEF Settled, InSync
<1> QED BY <1>1, RestInvariant, PTL
===============================================================================
