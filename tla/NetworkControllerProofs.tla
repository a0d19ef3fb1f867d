------------------------ MODULE NetworkControllerProofs ------------------------
(***************************************************************************)
(* Theorems about NetworkController, for its four kinds and any lists of   *)
(* references: the types, and under Modes that no group, table, gateway or *)
(* load balancer is forgotten, that there are never two, that the          *)
(* reconcilers implement their abstract specifications, and that they come *)
(* to rest only in sync.                                                   *)
(***************************************************************************)
EXTENDS NetworkController, DependentReconcilerProofs

-----------------------------------------------------------------------------
(* The shape of each action of the worker.                                 *)

LEMMA NetworkTexts ==
    /\ Errors \subseteq Texts
    /\ {"UpdateFailed", "Synced", "Updating"} \subseteq Texts
BY ErrorsAssumption, ReasonsAssumption, NetworkAssumption DEF Reasons

LEMMA CreationShape ==
    ASSUME TypeOK,
           \/ CreateSecurityGroup \/ CreateRouteTable \/ CreateNatGateway \/ CreateLoadbalancer
    PROVE  Shape
BY CreateResourceShape, CreateRefusedShape, SharedCreate, WriteAvailableShape, CreateAndWaitShape
   DEF CreateSecurityGroup, CreateRouteTable, CreateNatGateway, CreateLoadbalancer, TypeOK

LEMMA SyncSpecVariant ==
    ASSUME NEW obj \in Object, NEW needsUpdate, SyncSpec(obj, needsUpdate)
    PROVE  Variant(mem', obj) /\ pc' \in {"writeUpdating", "writeSynced"}
BY VariantReported, NetworkTexts DEF SyncSpec

LEMMA SyncStatusVariant ==
    ASSUME TypeOK, NEW resource \in Resource, SyncStatus(resource)
    PROVE  Variant(mem', mem) /\ pc' \in {"writeResourceStatus", "writeUpdating", "writeSynced"}
<1>1. mem \in Object /\ resource.phase \in Phases
  BY MemFacts DEF TypeOK, Resource
<1>2. CASE SyncSpec(mem, RequiresUpdate(mem, resource))
  BY <1>1, <1>2, SyncSpecVariant
<1>3. CASE ~SyncSpec(mem, RequiresUpdate(mem, resource))
  BY <1>1, <1>3, VariantStatus DEF SyncStatus
<1> QED BY <1>2, <1>3

LEMMA GetShape == ASSUME TypeOK, GetNetwork \/ EndpointReady \/ EndpointFails PROVE Shape
<1> USE DEF CallPoints, FinalizerPoints, IdentityPoints, CreatePoints, DeletePoints
<1>1. ReconcilerTypeOK /\ fetched \in Resource /\ mem \in Object
  BY MemFacts DEF TypeOK, ReconcilerTypeOK
<1>2. CASE GetNetwork
  <2>1. cloud[mem.status.id] \in Resource
    BY <1>1, <1>2, PhaseType DEF GetNetwork
  <2>2. Variant(mem', mem)
        /\ pc' \in {"waitEndpoint", "writeResourceStatus", "writeUpdating", "writeSynced"}
    BY <1>1, <1>2, <2>1, SyncStatusVariant, VariantSame DEF GetNetwork
  <2>3. pc = "get" /\ fetched' \in Resource
        /\ UNCHANGED <<objectVars, queue, fresh, budget, cloud, lost>>
    BY <1>2, <2>1 DEF GetNetwork
  <2>4. Onward
    BY <2>2, <2>3 DEF Onward, NeedRefs
  <2> QED BY <1>1, <2>2, <2>3, <2>4, Answered
<1>3. CASE EndpointReady
  <2>1. Variant(mem', mem) /\ pc' \in {"writeResourceStatus", "writeUpdating", "writeSynced"}
    BY <1>1, <1>3, SyncStatusVariant DEF EndpointReady
  <2>2. pc = "waitEndpoint" /\ UNCHANGED <<objectVars, queue, fresh, budget, cloud, fetched, lost>>
    BY <1>3 DEF EndpointReady, resourceVars
  <2>3. Onward
    BY <2>1, <2>2 DEF Onward, NeedRefs
  <2> QED BY <1>1, <2>1, <2>2, <2>3, Answered
<1>4. CASE EndpointFails
  BY <1>1, <1>4, Returned DEF EndpointFails
<1> QED BY <1>2, <1>3, <1>4

LEMMA WriteStatusShape ==
    ASSUME TypeOK, WriteNetworkStatus \/ WriteUpdatedRouteTable
    PROVE  Shape
<1> USE DEF IdentityPoints, DeletePoints
<1>1. fetched \in Resource /\ mem \in Object
  BY MemFacts DEF TypeOK, ReconcilerTypeOK
<1>2. CASE WriteNetworkStatus
  <2>1. Variant(mem', mem) /\ pc' \in {"writeUpdating", "writeSynced"}
    BY <1>1, <1>2, SyncSpecVariant DEF WriteNetworkStatus
  <2> QED BY <1>1, <1>2, <2>1 DEF WriteNetworkStatus, resourceVars, Shape, Writes, NeedRefs
<1>3. CASE WriteUpdatedRouteTable
  <2>1. Variant(mem', mem)
    BY <1>1, <1>3, VariantReported, NetworkTexts DEF WriteUpdatedRouteTable, PersistAndGo, Step
  <2> QED
    BY <1>1, <1>3, <2>1
       DEF WriteUpdatedRouteTable, PersistAndGo, Step, resourceVars, Shape, Writes, NeedRefs
<1> QED BY <1>2, <1>3

\* The subnet a load balancer moves to is one that has been resolved.
LEMMA UpdatedType ==
    ASSUME TypeOK, pc = "update", NEW cfg \in Cfgs
    PROVE  Updated(cfg) \in Cfgs
<1>1. cfg \in [parents : SeqOf(RefIds, MaxRefs), members : SeqOf(Names \cup RefIds, MaxRefs),
              meta : Metas]
  BY DependentAssumption
<1>2. mem.spec.meta \in Metas /\ resolved.members \in SeqOf(Names \cup RefIds, MaxRefs)
  BY MemFacts DEF TypeOK
<1>3. SubnetDiffers(fetched) => [cfg.parents EXCEPT ![1] = resolved.parents[1]] \in SeqOf(RefIds, MaxRefs)
  <2> SUFFICES ASSUME SubnetDiffers(fetched)
               PROVE  [cfg.parents EXCEPT ![1] = resolved.parents[1]] \in SeqOf(RefIds, MaxRefs)
    OBVIOUS
  <2>1. kind = "Loadbalancer" /\ kind \in Kinds
    BY DEF SubnetDiffers, TypeOK, DependentTypeOK
  <2>2. ParentReasons[kind] # <<>>
    BY <2>1, MemFacts, ParentRefsFacts DEF TypeOK
  <2>3. resolved.parents # <<>> /\ resolved.parents \in Seq(RefIds)
    BY <2>2, MemFacts, BoundedIsSeq DEF TypeOK, DependentTypeOK, NeedRefs
  <2>4. resolved.parents[1] \in RefIds
    BY <2>3
  <2>5. PICK n \in 0 .. MaxRefs : cfg.parents \in [1 .. n -> RefIds]
    BY <1>1 DEF SeqOf
  <2>6. [cfg.parents EXCEPT ![1] = resolved.parents[1]] \in [1 .. n -> RefIds]
    BY <2>4, <2>5
  <2> QED BY <2>6 DEF SeqOf
<1>4. Updated(cfg) \in [parents : SeqOf(RefIds, MaxRefs), members : SeqOf(Names \cup RefIds, MaxRefs),
                       meta : Metas]
  BY <1>1, <1>2, <1>3 DEF Updated
<1> QED BY <1>4, DependentAssumption

LEMMA UpdateShape == ASSUME TypeOK, UpdateNetwork \/ UpdateNetworkFails PROVE Shape
<1> ReconcilerTypeOK /\ mem \in Object
  BY MemFacts DEF TypeOK
<1>1. CASE UpdateNetwork
  <2> DEFINE id == mem.status.id
             cfg == Updated(cloud[id].cfg)
  <2>1. id \in Ids /\ CloudUpdate(id, cfg) /\ pc = "update" /\ pc' = "writeUpdated"
        /\ UNCHANGED <<objectVars, queue, fresh, budget, fetched, lost>>
    BY <1>1 DEF UpdateNetwork, CloudUpdate, Step
  <2>2. cloud[id].cfg \in Cfgs
    BY <2>1 DEF ReconcilerTypeOK, CloudTypeOK, Resource
  <2>3. cfg \in Cfgs
    BY <2>1, <2>2, UpdatedType
  <2>4. CloudTypeOK' /\ OnlyRemoves
    <3> HIDE DEF cfg
    <3> QED BY <2>1, <2>3, UpdatedCloud
  <2>5. cloud'[id].phase \in Phases /\ "ready" \in Phases
    BY <2>1, <2>4 DEF CloudTypeOK, Resource, Phases, Standing
  <2>6. \E res \in Phases : mem' = [mem EXCEPT !.status.res = res, !.status.err = NoError]
    BY <1>1, <2>5 DEF UpdateNetwork, Step
  <2>7. Variant(mem', mem)
    BY <2>6, VariantStatus
  <2> HIDE DEF cfg
  <2> QED
    BY <2>1, <2>4, <2>7, Carried DEF Onward, CallPoints, FinalizerPoints, IdentityPoints,
                                     CreatePoints, DeletePoints, NeedRefs
<1>2. CASE UpdateNetworkFails
  BY <1>2, NetworkTexts, Reported DEF UpdateNetworkFails, UpdateError, ReportingPoints
<1> QED BY <1>1, <1>2

LEMMA SyncShape ==
    ASSUME TypeOK,
           \/ SyncSecurityGroup \/ SyncRouteTable \/ SyncNatGateway \/ SyncLoadbalancer
    PROVE  Shape
<1>1. WriteUpdated("refetch") => Shape
  BY DEF Shape, Shared
<1>2. RefetchReportsError => Shape
  BY RefetchErrorShape DEF TypeOK
<1> QED
  BY <1>1, <1>2, GetShape, WriteStatusShape, UpdateShape, SharedSync
     DEF SyncSecurityGroup, SyncRouteTable, SyncNatGateway, SyncLoadbalancer, SyncAndRefetch,
         SyncAnyNetwork

LEMMA DeletionShape ==
    ASSUME TypeOK,
           \/ DeleteSecurityGroup \/ DeleteRouteTable \/ DeleteNatGateway \/ DeleteLoadbalancer
    PROVE  Shape
<1>1. CASE DeleteFails
  BY <1>1, MemFacts, Returned
     DEF DeleteFails, DeleteError, CallPoints, FinalizerPoints, DeletePoints, TypeOK
<1> QED
  BY <1>1, DeleteShape, SharedDelete
     DEF DeleteSecurityGroup, DeleteRouteTable, DeleteNatGateway, DeleteLoadbalancer,
         DeleteAndWait, TypeOK

\* What the worker does once the references are resolved.
Acts ==
    \/ kind = "SecurityGroup" /\ SecurityGroup
    \/ kind = "RouteTable" /\ RouteTable
    \/ kind = "NatGateway" /\ NatGateway
    \/ kind = "Loadbalancer" /\ Loadbalancer
    \/ WriteError \/ StatusWriteFails

LEMMA ActsShape == ASSUME TypeOK, Acts PROVE Shape
<1>1. CASE WriteError \/ StatusWriteFails
  BY <1>1 DEF Shape, Shared
<1> QED
  BY <1>1, CreationShape, SyncShape, DeletionShape
     DEF Acts, SecurityGroup, RouteTable, NatGateway, Loadbalancer

LEMMA ReconcileBegins == ASSUME TypeOK, ReconcileNetwork PROVE Begins
BY CreateOrSyncBegins DEF ReconcileNetwork, TypeOK

\* A gateway's address: the cloud's own step, that is in no other kind.
LEMMA AddressClouds ==
    ASSUME TypeOK, AddressComes
    PROVE  CloudTypeOK' /\ OnlyRemoves
BY DEF AddressComes, ReadyUnaddressed, Addressed, TypeOK, DependentTypeOK, ReconcilerTypeOK,
       CloudTypeOK, OnlyRemoves, Exists, Standing, Resource, Phases

LEMMA AddressType == ASSUME TypeOK, AddressComes PROVE TypeOK'
<1>1. UNCHANGED <<api, cache, unseen, queue, pc, mem, fresh, budget, fetched, lost, refs, recorded,
                  kind, resolved>>
  BY DEF AddressComes, runtimeVars, objectVars, workerVars, dependencyVars
<1>2. ReconcilerTypeOK' /\ RefsTypeOK'
  BY <1>1, AddressClouds DEF TypeOK, DependentTypeOK, ReconcilerTypeOK, RuntimeTypeOK, RefsTypeOK
<1> QED BY <1>1, <1>2, RestType DEF TypeOK

LEMMA AddressLeak == ASSUME TypeOK, LeakInv, AddressComes PROVE LeakInv' /\ Effect
<1>1. UNCHANGED <<objectVars, pc, mem, fresh, lost>> /\ OnlyRemoves
  BY AddressClouds DEF AddressComes, runtimeVars, workerVars
<1>2. ReconcilerTypeOK'
  BY AddressType DEF TypeOK, DependentTypeOK
<1> QED BY <1>1, <1>2, CloudLeak DEF LeakInv, Effect, Removes, objectVars

LEMMA NextForm == ASSUME TypeOK, Next, ~AddressComes PROVE Form
<1>1. kind # "RouteTableRoute"
  BY NetworkAssumption DEF TypeOK, DependentTypeOK
<1>2. CASE Reconcile /\ UNCHANGED <<dependencyVars, kind>>
  BY <1>1, <1>2, ReconcileBegins DEF Reconcile, Form
<1>3. CASE Acts /\ ForgetRefs /\ UNCHANGED <<dependencyVars, kind>>
  BY <1>3, ActsShape DEF Form
<1>4. Worker => \/ Reconcile /\ UNCHANGED <<dependencyVars, kind>>
                \/ Acts /\ ForgetRefs /\ UNCHANGED <<dependencyVars, kind>>
  BY DEF Worker, Acts
<1> QED BY <1>2, <1>3, <1>4 DEF Next, Around, Form

LEMMA NextType == ASSUME TypeOK, [Next]_vars PROVE TypeOK'
<1>1. CASE AddressComes
  BY <1>1, AddressType
<1> QED BY <1>1, NextForm, FormType, StutterType DEF TypeOK

LEMMA NextLeak == ASSUME Modes, TypeOK, LeakInv, [Next]_vars PROVE LeakInv' /\ Effect
<1>1. CASE AddressComes
  BY <1>1, AddressLeak
<1> QED BY <1>1, NextForm, FormLeak, FormEffect, StutterLeak DEF TypeOK

-----------------------------------------------------------------------------
(* The theorems.                                                           *)

(* Every variable keeps its type, whatever the kinds, the bounds and the    *)
(* lists of references: a load balancer's subnet and the security groups    *)
(* are kept exactly while an update may send them, and are never empty.     *)
THEOREM TypeCorrect == Spec => []TypeOK
<1>1. Init => TypeOK
  BY InitDependent DEF Init, TypeOK
<1>2. TypeOK /\ [Next]_vars => TypeOK'
  BY NextType
<1> QED BY <1>1, <1>2, PTL DEF Spec

(* No group, table, gateway or load balancer is forgotten, though a group   *)
(* and a table are taken to be gone as soon as their deletion is accepted.  *)
THEOREM LeakInvariant == Modes => (Spec => []LeakInv)
<1> SUFFICES ASSUME Modes PROVE Spec => []LeakInv
  OBVIOUS
<1>1. Init => LeakInv
  BY InitDependent DEF Init, LifecycleInv
<1>2. TypeOK /\ LeakInv /\ [Next]_vars => LeakInv'
  BY NextLeak
<1> QED BY <1>1, <1>2, TypeCorrect, PTL DEF Spec

(* A CR never has two resources in Thalassa but for those lost.             *)
THEOREM NeverTwo == Modes => (Spec => []OnePerCR)
<1> SUFFICES ASSUME Modes PROVE Spec => []OnePerCR
  OBVIOUS
<1> QED BY LeakOne, LeakInvariant, PTL

(* The inductive invariant of the refinement: an identity whose creation    *)
(* was never recorded is not handed out again.                              *)
THEOREM LifecycleInvariant == Modes => (Spec => []LifecycleInv)
<1> SUFFICES ASSUME Modes PROVE Spec => []LifecycleInv
  OBVIOUS
<1>1. Init => LifecycleInv
  BY InitDependent DEF Init
<1>2. TypeOK /\ LifecycleInv /\ [Next]_vars => LifecycleInv'
  BY NextLeak, EffectHandedOut DEF LifecycleInv
<1> QED BY <1>1, <1>2, TypeCorrect, PTL DEF Spec

(* Every step of the four reconcilers is one of ManagedResource: one        *)
(* resource at a time, recorded until it is gone, the CR only after it.     *)
THEOREM Lifecycles == Modes => (Spec => ImplementsLifecycle)
<1> SUFFICES ASSUME Modes PROVE Spec => ImplementsLifecycle
  OBVIOUS
<1>1. Init => Lifecycle!Init
  BY InitLifecycle DEF Init, DependentInit
<1>2. TypeOK /\ LifecycleInv /\ [Next]_vars => [Lifecycle!Next]_(Lifecycle!vars)
  BY NextLeak, EffectLifecycle DEF LifecycleInv
<1> QED
  BY <1>1, <1>2, TypeCorrect, LifecycleInvariant, PTL DEF Spec, ImplementsLifecycle, Lifecycle!Spec

(* What a route reads of a gateway, or a load balancer of a security group, *)
(* is written once and goes only with the object.                           *)
THEOREM WrittenOnce == Modes => (Spec => ImplementsReference)
<1> SUFFICES ASSUME Modes PROVE Spec => ImplementsReference
  OBVIOUS
<1>1. Init => Reference!Init
  BY InitLifecycle DEF Init, DependentInit
<1>2. TypeOK /\ LeakInv /\ [Next]_vars => [Reference!Next]_Shown
  BY NextLeak, EffectReference
<1> QED
  BY <1>1, <1>2, TypeCorrect, LeakInvariant, PTL DEF Spec, ImplementsReference, Reference!Spec

-----------------------------------------------------------------------------
(* The controllers come to rest only when there is nothing left to do.     *)

\* The reasons the Error condition can have before any call has failed.
Unfailed == {"", "InvalidSpec"} \cup NotFoundReasons

\* What the Error condition can say, as long as no reference has lost its identity and after.
Sayable(reasons) == reasons = Texts \/ (reasons = Unfailed /\ NotLost)

LEMMA SayableExpected ==
    ASSUME NEW reasons, Sayable(reasons)
    PROVE  Expected(reasons)
BY ReasonsAssumption, DependentReasonsAssumption DEF Sayable, Expected, Unfailed, Reasons,
   NotFoundReasons

\* The steps of a sync that are Reconciler's.
CommonSync ==
    \/ GetNotFound \/ GetFails \/ WriteNotFound \/ WriteUpdating \/ Refetch \/ WriteRefetched
    \/ WriteSynced

LEMMA CommonSyncs == ASSUME CommonSync PROVE Sync(TRUE, TRUE, Sent) /\ pc # "update"
BY DEF CommonSync, Sync, GetNotFound, GetFails, WriteNotFound, WriteUpdating, Refetch,
       WriteRefetched, WriteSynced, PersistAndGo, Step

OwnSync ==
    \/ GetNetwork \/ EndpointReady \/ EndpointFails \/ WriteNetworkStatus
    \/ UpdateNetwork \/ UpdateNetworkFails \/ WriteUpdatedRouteTable

\* What the worker does once the references are resolved, by the lemmas about it.
LEMMA ActsBy ==
    ASSUME Acts
    PROVE  \/ Create(Sent) \/ OwnCreation
           \/ CommonSync \/ OwnSync \/ WriteUpdated("refetch") \/ RefetchReportsError
           \/ Delete \/ DeleteAtOnce \/ DeleteFails \/ WriteError \/ StatusWriteFails
<1>1. CASE CreateSecurityGroup \/ CreateRouteTable \/ CreateNatGateway \/ CreateLoadbalancer
  BY <1>1 DEF CreateSecurityGroup, CreateRouteTable, CreateNatGateway, CreateLoadbalancer,
              CreateAndWait, Create, OwnCreation
<1>2. CASE SyncSecurityGroup \/ SyncRouteTable \/ SyncNatGateway \/ SyncLoadbalancer
  BY <1>2 DEF SyncSecurityGroup, SyncRouteTable, SyncNatGateway, SyncLoadbalancer, SyncAndRefetch,
              SyncAnyNetwork, CommonSync, OwnSync
<1>3. CASE DeleteSecurityGroup \/ DeleteRouteTable \/ DeleteNatGateway \/ DeleteLoadbalancer
  BY <1>3 DEF DeleteSecurityGroup, DeleteRouteTable, DeleteNatGateway, DeleteLoadbalancer,
              DeleteAndWait, DeleteAccepted, Delete
<1> QED BY <1>1, <1>2, <1>3 DEF Acts, SecurityGroup, RouteTable, NatGateway, Loadbalancer

LEMMA SyncStatusFacts ==
    ASSUME TypeOK, NEW resource \in Resource, SyncStatus(resource)
    PROVE  /\ Copy(mem', mem) /\ SameError(mem', mem) /\ mem'.status.id = mem.status.id
           /\ pc' \in {"writeResourceStatus", "writeUpdating", "writeSynced"}
           /\ pc' = "writeSynced" =>
                  ~RequiresUpdate(mem, resource) /\ IsTrue(mem'.status.conds, "Ready")
<1>1. mem \in Object
  BY MemFacts DEF TypeOK
<1>2. CASE SyncSpec(mem, RequiresUpdate(mem, resource))
  BY <1>1, <1>2, SyncSpecCopy
<1>3. CASE /\ pc' = "writeResourceStatus"
           /\ mem' = [mem EXCEPT !.status.res = resource.phase, !.status.err = NoError]
  BY <1>1, <1>3 DEF Copy, Like, SameError, Object, Status
<1> QED BY <1>2, <1>3 DEF SyncStatus

LEMMA GetNetworkFacts ==
    ASSUME TypeOK, GetNetwork
    PROVE  /\ Copy(mem', mem) /\ SameError(mem', mem) /\ mem'.status.id = mem.status.id
           /\ pc = "get" /\ fetched' = cloud[mem.status.id] /\ fetched' \in Resource
           /\ pc' \in {"waitEndpoint", "writeResourceStatus", "writeUpdating", "writeSynced"}
           /\ pc' = "writeSynced" =>
                  ~RequiresUpdate(mem, fetched') /\ IsTrue(mem'.status.conds, "Ready")
           /\ UNCHANGED <<objectVars, queue, fresh, budget, cloud, lost>>
<1>1. cloud[mem.status.id] \in Resource
  BY MemFacts DEF GetNetwork, Exists, ReconcilerTypeOK, CloudTypeOK, TypeOK
<1>2. CASE SyncStatus(cloud[mem.status.id])
  BY <1>1, <1>2, SyncStatusFacts DEF GetNetwork
<1>3. CASE pc' = "waitEndpoint" /\ UNCHANGED mem
  BY <1>1, <1>3 DEF GetNetwork, Copy, Like, SameError
<1> QED BY <1>2, <1>3 DEF GetNetwork

LEMMA UpdateNetworkFacts ==
    ASSUME TypeOK, UpdateNetwork
    PROVE  /\ Copy(mem', mem) /\ SameError(mem', mem) /\ mem'.status.id = mem.status.id
           /\ pc = "update" /\ pc' = "writeUpdated"
           /\ CloudUpdate(mem.status.id, Updated(cloud[mem.status.id].cfg))
           /\ cloud[mem.status.id].cfg \in Cfgs /\ Updated(cloud[mem.status.id].cfg) \in Cfgs
           /\ UNCHANGED <<objectVars, queue, fresh, budget, fetched>>
<1>1. mem \in Object /\ mem.status \in Status
  BY MemFacts DEF TypeOK, Object
<1>2. PICK res : mem' = [mem EXCEPT !.status.res = res, !.status.err = NoError]
  BY DEF UpdateNetwork, Step
<1>3. Copy(mem', mem) /\ SameError(mem', mem) /\ mem'.status.id = mem.status.id
  BY <1>1, <1>2 DEF Copy, Like, SameError, Object, Status
<1>4. cloud[mem.status.id].cfg \in Cfgs
  BY MemFacts DEF UpdateNetwork, CloudUpdate, ReconcilerTypeOK, CloudTypeOK, Resource, TypeOK
<1>5. pc = "update" /\ pc' = "writeUpdated"
      /\ UNCHANGED <<objectVars, queue, fresh, budget, fetched>>
      /\ CloudUpdate(mem.status.id, Updated(cloud[mem.status.id].cfg))
  BY DEF UpdateNetwork, Step
<1> QED BY <1>3, <1>4, <1>5, UpdatedType

LEMMA WriteTableFacts ==
    ASSUME TypeOK, WriteUpdatedRouteTable
    PROVE  /\ Copy(mem', mem) /\ SameError(mem', mem) /\ mem'.status.id = mem.status.id
           /\ IsTrue(mem'.status.conds, "Ready")
           /\ pc = "writeUpdated" /\ pc' = "writeSynced" /\ PersistStatus
           /\ UNCHANGED queue /\ UNCHANGED <<cloud, fetched>>
<1>1. mem \in Object /\ mem' = SetAvailable(mem, "Synced")
  BY MemFacts DEF WriteUpdatedRouteTable, PersistAndGo, Step, TypeOK
<1>2. Copy(mem', mem)
  BY <1>1, StandardCopy
<1>3. SameError(mem', mem) /\ IsTrue(mem'.status.conds, "Ready")
  BY <1>1, StandardCopy
<1>4. mem'.status.id = mem.status.id
  BY <1>1, StandardChange DEF Reasons
<1> QED BY <1>2, <1>3, <1>4 DEF WriteUpdatedRouteTable, PersistAndGo, Step, resourceVars

\* Thalassa refuses an update only after a change behind the cluster's back, or once a
\* reference has lost its identity.
LEMMA UpdateAcceptedNow ==
    ASSUME NEW reasons, Ready(reasons), TypeOK, RefsHeld, FetchedNow, Expected(reasons),
           pc = "update", Undrifted
    PROVE  UpdateAccepted \/ reasons = Texts
<1> SUFFICES ASSUME NotLost PROVE UpdateAccepted
  BY DEF Expected
<1>1. AllLive(resolved.parents) /\ AllLive(resolved.members)
  BY HeldLive DEF TypeOK, NeedRefs
<1>2. cloud[mem.status.id].cfg = fetched.cfg
  BY DEF FetchedNow
<1>3. kind = "Loadbalancer" => 1 \in DOMAIN resolved.parents
  <2>1. resolved.parents \in Seq(RefIds) /\ kind \in Kinds /\ mem \in Object
    BY MemFacts, BoundedIsSeq DEF TypeOK, DependentTypeOK
  <2>2. kind = "Loadbalancer" => resolved.parents # <<>>
    BY <2>1, ParentRefsFacts DEF TypeOK, DependentTypeOK, NeedRefs
  <2> QED BY <2>1, <2>2
<1> QED BY <1>1, <1>2, <1>3 DEF UpdateAccepted, SubnetDiffers, AllLive

LEMMA OwnSyncRest ==
    ASSUME NEW reasons, Ready(reasons), TypeOK, RefsHeld, FetchedNow, Expected(reasons), OwnSync
    PROVE  RestStep(reasons)
<1> USE DEF WorkPoints, IdentityPoints, DeletePoints
<1>0. mem \in Object /\ fetched \in Resource /\ CloudTypeOK /\ ReconcilerTypeOK
  BY MemFacts DEF TypeOK, ReconcilerTypeOK
<1>1. CASE GetNetwork
  <2>1. NoneFalls /\ OnlySpends
    BY <1>0, <1>1, GetNetworkFacts, CloudStands, SameBudget
  <2> QED BY <1>1, <2>1, GetNetworkFacts, RestCall
<1>2. CASE EndpointReady
  <2>1. /\ pc = "waitEndpoint" /\ UNCHANGED <<objectVars, queue, budget>> /\ UNCHANGED cloud
        /\ SyncStatus(fetched)
    BY <1>2 DEF EndpointReady, resourceVars
  <2>2. NoneFalls /\ OnlySpends
    BY <1>0, <2>1, CloudStands, SameBudget
  <2> QED BY <1>0, <2>1, <2>2, SyncStatusFacts, RestCall
<1>3. CASE EndpointFails
  BY <1>3, ReturnErrorRest DEF EndpointFails
<1>4. CASE WriteNetworkStatus
  <2>1. /\ Copy(mem', mem) /\ SameError(mem', mem) /\ mem'.status.id = mem.status.id
        /\ pc' \in {"writeUpdating", "writeSynced"}
    BY <1>0, <1>4, SyncSpecCopy DEF WriteNetworkStatus
  <2> QED BY <1>4, <2>1, RestPersist DEF WriteNetworkStatus, resourceVars
<1>5. CASE UpdateNetwork
  <2>1. NoneFalls /\ OnlySpends
    BY <1>0, <1>5, UpdateNetworkFacts, UpdateStands, SameBudget
  <2> QED BY <1>5, <2>1, UpdateNetworkFacts, RestCall
<1>6. CASE UpdateNetworkFails
  <2>1. PICK e \in Errors : ReportError(mem, "UpdateFailed", e, e)
    BY <1>6 DEF UpdateNetworkFails
  <2>2. e \in Texts /\ "UpdateFailed" \in Texts
    BY NetworkTexts
  <2>3. CASE UpdateError
    BY <1>6, <2>1, <2>2, <2>3, RestLateError DEF UpdateNetworkFails, CallFailed
  <2>4. CASE pc = "update" /\ ~UpdateAccepted /\ UNCHANGED budget
    <3>1. ~Undrifted \/ reasons = Texts
      BY <2>4, UpdateAcceptedNow
    <3> QED BY <1>6, <2>1, <2>2, <2>4, <3>1, RestDisturbed DEF UpdateNetworkFails, CallFailed
  <2> QED BY <1>6, <2>3, <2>4 DEF UpdateNetworkFails
<1>7. CASE WriteUpdatedRouteTable
  BY <1>7, WriteTableFacts, RestPersist
<1> QED BY <1>1, <1>2, <1>3, <1>4, <1>5, <1>6, <1>7 DEF OwnSync

LEMMA WorkerRest ==
    ASSUME NEW reasons, Ready(reasons), TypeOK, RefsHeld, FetchedNow, Expected(reasons),
           Reconcile \/ Acts, ~MissingAgain
    PROVE  RestStep(reasons)
<1>1. CASE Reconcile
  BY <1>1, CreateOrSyncRest, AnyDependentRest DEF Reconcile, ReconcileNetwork, TypeOK
<1>2. CASE Create(Sent)
  BY <1>2, SentType, CreateRest DEF TypeOK
<1>3. CASE OwnCreation
  BY <1>3, OwnCreationRest DEF TypeOK
<1>4. CASE CommonSync
  BY <1>4, CommonSyncs, SentType, SyncRest DEF TypeOK
<1>5. CASE OwnSync
  BY <1>5, OwnSyncRest
<1>6. CASE WriteUpdated("refetch")
  BY <1>6, WriteUpdatedRest
<1>7. CASE RefetchReportsError
  BY <1>7, ReportedTexts, RestLateError DEF RefetchReportsError, CallFailed
<1>8. CASE Delete \/ DeleteAtOnce
  BY <1>8, DeleteRest, DeleteAtOnceRest
<1>9. CASE DeleteFails
  BY <1>9, ReturnErrorRest DEF DeleteFails, DeleteError
<1>10. CASE WriteError \/ StatusWriteFails
  BY <1>10, FailureRest
<1> QED BY <1>1, <1>2, <1>3, <1>4, <1>5, <1>6, <1>7, <1>8, <1>9, <1>10, ActsBy

LEMMA NextBy ==
    ASSUME [Next]_vars
    PROVE  \/ (Reconcile \/ (Acts /\ ForgetRefs)) /\ UNCHANGED <<dependencyVars, kind>>
           \/ Around \/ AddressComes \/ UNCHANGED vars
BY DEF Next, Worker, Acts, Around

\* An address, too, is none of the worker's doing.
LEMMA AddressStands == ASSUME TypeOK, AddressComes PROVE Undisturbed /\ UNCHANGED runtimeVars
BY DEF AddressComes, ReadyUnaddressed, Addressed, Undisturbed, Intact, Standing, TypeOK,
       DependentTypeOK, ReconcilerTypeOK, CloudTypeOK, Resource

LEMMA NextRest ==
    ASSUME NEW reasons, Ready(reasons), TypeOK, RefsHeld, FetchedNow, Expected(reasons),
           [Next]_vars, ~MissingAgain
    PROVE  RestStep(reasons)
<1>1. CASE Reconcile \/ Acts
  BY <1>1, WorkerRest
<1>2. CASE Around
  BY <1>2, AroundRest DEF TypeOK
<1>3. CASE AddressComes
  BY <1>3, AddressStands, RestCloud
<1>4. CASE UNCHANGED vars
  BY <1>4, CloudUntouched, RestCloud DEF vars, resourceVars
<1> QED BY <1>1, <1>2, <1>3, <1>4, NextBy


\* What Get answered is still what the resource is.
FetchPoints == {"waitEndpoint", "writeResourceStatus", "writeUpdating", "update"}

LEMMA FetchedKept ==
    ASSUME NEW reasons, Ready(reasons), FetchedNow, OnlySpends, Undisturbed,
           pc' \in FetchPoints =>
               pc \in FetchPoints /\ mem'.status.id = mem.status.id /\ fetched' = fetched
    PROVE  FetchedNow'
<1> SUFFICES ASSUME Undrifted', pc' \in FetchPoints
             PROVE  fetched'.cfg = cloud'[mem'.status.id].cfg
  BY DEF FetchedNow, FetchPoints
<1>1. Undrifted
  BY ReadyCalm
<1>2. Intact(mem.status.id)
  BY <1>1, WorkIntact DEF FetchPoints, IdentityPoints, DeletePoints
<1> QED BY <1>1, <1>2 DEF FetchedNow, FetchPoints, Undisturbed, Intact

LEMMA WorkerFetched ==
    ASSUME NEW reasons, Ready(reasons), TypeOK, FetchedNow, OnlySpends, Reconcile \/ Acts
    PROVE  FetchedNow'
<1>1. CASE pc' \notin FetchPoints
  BY <1>1 DEF FetchedNow, FetchPoints
<1>2. CASE pc' \in FetchPoints
  <2>1. ~Reconcile
    BY <1>2
       DEF Reconcile, ReconcileNetwork, CreateOrSync, ReconcileAnyDependent, ReconcileNothing,
           ReconcileNoFinalizer, AddFinalizer, ReconcileNotReady, ReconcileNotFound, ReconcileDelete,
           DequeueReporting, Dequeue, DequeueIgnored, DequeueAgain, CanDequeue, UpdateObjectFails,
           Return, FetchPoints
  <2>2. ~(Create(Sent) \/ OwnCreation)
    BY <1>2
       DEF Create, OwnCreation, WriteCreating, CreateResource, CreateResourceFails, WriteResourceId,
           WaitCreated, WaitCreatedFails, WriteCreated, CreateReady, CreateRefused, AwaitCreated,
           GetCreated, GetCreatedFails, WriteResourceIdAvailable, PersistAndGo, Step, ReportError,
           ReturnError, Done, Return, FetchPoints
  <2>3. ~(\/ WriteUpdated("refetch") \/ RefetchReportsError \/ Delete \/ DeleteAtOnce \/ DeleteFails
          \/ WriteError \/ StatusWriteFails)
    BY <1>2
       DEF WriteUpdated, RefetchReportsError, Delete, DeleteResource, DeleteResourceFails, WaitDeleted,
           WaitDeletedFails, RemoveFinalizer, UpdateObjectFails, DeleteAtOnce, DeleteFails,
           WriteError, StatusWriteFails, GiveUp, PersistAndGo, Step, ReportError, ReturnError, Done,
           Return, FetchPoints
  <2>4. CASE CommonSync
    <3>1. WriteUpdating
      BY <1>2, <2>4
         DEF CommonSync, GetNotFound, GetFails, WriteNotFound, Refetch, WriteRefetched, WriteSynced,
             PersistAndGo, Step, ReportError, Done, Return, FetchPoints
    <3>2. pc = "writeUpdating" /\ UNCHANGED <<mem, cloud, fetched>>
      BY <3>1 DEF WriteUpdating, PersistAndGo, Step, resourceVars
    <3> QED BY <3>2, CloudUntouched, FetchedKept DEF FetchPoints
  <2>5. CASE GetNetwork
    BY <2>5, GetNetworkFacts DEF FetchedNow
  <2>6. CASE OwnSync /\ ~GetNetwork
    <3>1. EndpointReady \/ WriteNetworkStatus
      BY <1>2, <2>6
         DEF OwnSync, EndpointFails, UpdateNetwork, UpdateNetworkFails, WriteUpdatedRouteTable,
             PersistAndGo, Step, ReportError, ReturnError, Done, Return, FetchPoints
    <3>2. pc \in FetchPoints /\ UNCHANGED <<cloud, fetched>>
      BY <3>1 DEF EndpointReady, WriteNetworkStatus, resourceVars, FetchPoints
    <3>3. mem'.status.id = mem.status.id
      BY <3>1, MemFacts, SyncStatusFacts, SyncSpecCopy
         DEF EndpointReady, WriteNetworkStatus, TypeOK, ReconcilerTypeOK
    <3> QED BY <3>2, <3>3, CloudUntouched, FetchedKept
  <2> QED BY <2>1, <2>2, <2>3, <2>4, <2>5, <2>6, ActsBy
<1> QED BY <1>1, <1>2

LEMMA NextFetched ==
    ASSUME NEW reasons, Ready(reasons), TypeOK, FetchedNow, OnlySpends, [Next]_vars
    PROVE  FetchedNow'
<1>1. CASE Reconcile \/ Acts
  BY <1>1, WorkerFetched
<1>2. CASE Restarts
  BY <1>2 DEF Restarts, Crash, Restart, FetchedNow
<1>3. CASE Drift
  <2>1. ~Undrifted'
    BY <1>3, DriftShows DEF Drift
  <2> QED BY <2>1 DEF FetchedNow
<1>4. CASE Environment \/ Owners \/ RefUsers \/ AddressComes \/ UNCHANGED vars
  <2>1. UNCHANGED <<pc, mem, fetched>>
    BY <1>4 DEF Environment, Watch, CacheSync, Timer, TimerFires, Users, User, UserEdit,
                UserCreate, UserDelete, UserToggleSuspend, UserWrites, Cloud, runtimeVars,
                workerVars, resourceVars, Owners, RefUsers, AddressComes, vars
  <2>2. Undisturbed
    <3>1. CASE Cloud
      BY <3>1, CloudUndisturbed DEF Cloud, Ready, LeakInv, ReconcilerTypeOK
    <3>2. CASE AddressComes
      BY <3>2, AddressStands
    <3> QED BY <1>4, <3>1, <3>2, CloudUntouched
            DEF Environment, Watch, Timer, Users, Owners, RefUsers, vars, resourceVars
  <2> QED BY <2>1, <2>2, FetchedKept
<1> QED BY <1>1, <1>2, <1>3, <1>4, NextBy DEF Around

\* A load balancer is created in a subnet, and an update does not take it out of it.
LEMMA PlacedKept ==
    ASSUME Placed, UNCHANGED kind,
           \A i \in OwnIds : cloud'[i].phase # "none" =>
               cloud[i].phase # "none" /\ cloud'[i].cfg.parents = cloud[i].cfg.parents
    PROVE  Placed'
BY DEF Placed

LEMMA CreatedPlaced ==
    ASSUME TypeOK, Placed, UNCHANGED kind, pc = "create", NEW i \in OwnIds, NEW phase,
           CloudCreateIn(i, Sent, phase)
    PROVE  Placed'
<1>1. kind = "Loadbalancer" => Sent.parents # <<>>
  BY MemFacts, ParentRefsFacts DEF Sent, TypeOK, DependentTypeOK, NeedRefs
<1>2. \A j \in OwnIds : cloud'[j] = IF j = i THEN [phase |-> phase, cfg |-> Sent] ELSE cloud[j]
  BY MemFacts DEF CloudCreateIn, TypeOK, ReconcilerTypeOK, CloudTypeOK, Ids
<1> QED BY <1>1, <1>2 DEF Placed

LEMMA UpdatedPlaced ==
    ASSUME TypeOK, Placed, UNCHANGED kind, UpdateNetwork
    PROVE  Placed'
<1> DEFINE id == mem.status.id
           cfg == cloud[id].cfg
           new == Updated(cfg)
<1>1. CloudUpdate(id, new) /\ cfg \in Cfgs
  BY UpdateNetworkFacts
<1>2. CloudTypeOK
  BY MemFacts DEF TypeOK, ReconcilerTypeOK
<1>3. cfg.parents # <<>> => new.parents # <<>>
  <2>1. cfg \in [parents : SeqOf(RefIds, MaxRefs), members : SeqOf(Names \cup RefIds, MaxRefs),
                 meta : Metas]
    BY <1>1, DependentAssumption
  <2>2. cfg.parents \in Seq(RefIds)
    BY <2>1, BoundedIsSeq
  <2>3. new.parents = IF SubnetDiffers(fetched) THEN [cfg.parents EXCEPT ![1] = resolved.parents[1]]
                      ELSE cfg.parents
    BY <2>1 DEF Updated
  <2> HIDE DEF cfg, new
  <2>4. DOMAIN new.parents = DOMAIN cfg.parents
    BY <2>3
  <2> QED BY <2>2, <2>4
<1>4. \A j \in OwnIds : cloud'[j].phase # "none" =>
          /\ cloud[j].phase # "none"
          /\ cloud'[j].cfg = IF j = id THEN new ELSE cloud[j].cfg
  <2> HIDE DEF new
  <2> QED BY <1>1, <1>2 DEF CloudUpdate, CloudTypeOK, Ids, Standing
<1> HIDE DEF new
<1> QED BY <1>3, <1>4 DEF Placed

LEMMA NextPlaced ==
    ASSUME TypeOK, TypeOK', Placed, [Next]_vars
    PROVE  Placed'
<1>0. cloud \in [Ids -> Resource] /\ OwnIds \subseteq Ids
  BY MemFacts DEF TypeOK, ReconcilerTypeOK, CloudTypeOK, Ids
<1>1. UNCHANGED kind
  BY NextBy DEF Around, Restarts, Environment, Owners, RefUsers, Drift, AddressComes, vars
<1>2. CASE UNCHANGED cloud
  BY <1>1, <1>2, PlacedKept
<1>3. CASE Create(Sent) \/ OwnCreation
  <2>1. UNCHANGED cloud \/ CreateResource(Sent) \/ CreateResourceFails(Sent) \/ CreateReady(Sent)
    BY <1>3
       DEF Create, OwnCreation, WriteCreating, WriteResourceId, WaitCreated, WaitCreatedFails,
           WriteCreated, CreateRefused, AwaitCreated, GetCreated, GetCreatedFails,
           WriteResourceIdAvailable, PersistAndGo, ReturnError, resourceVars
  <2>2. \/ UNCHANGED cloud
        \/ /\ pc = "create"
           /\ \E i \in OwnIds, phase \in {"pending", "ready"} : CloudCreateIn(i, Sent, phase)
    BY <2>1 DEF CreateResource, CreateResourceFails, CreateReady, CloudCreate, Step
  <2> QED BY <1>1, <1>2, <2>2, CreatedPlaced
<1>4. CASE Reconcile
  BY <1>2, <1>4
     DEF Reconcile, ReconcileNetwork, CreateOrSync, ReconcileAnyDependent, ReconcileNothing,
         ReconcileNoFinalizer, AddFinalizer, ReconcileNotReady, ReconcileNotFound, ReconcileDelete,
         resourceVars
<1>5. CASE \/ CommonSync \/ WriteUpdated("refetch") \/ RefetchReportsError \/ DeleteFails
           \/ WriteError \/ StatusWriteFails
  BY <1>2, <1>5
     DEF CommonSync, GetNotFound, GetFails, WriteNotFound, WriteUpdating, Refetch, WriteRefetched,
         WriteSynced, WriteUpdated, PersistAndGo, RefetchReportsError, DeleteFails, ReturnError,
         WriteError, StatusWriteFails, resourceVars
<1>6. CASE OwnSync
  <2>1. UpdateNetwork \/ UNCHANGED cloud
    BY <1>6
       DEF OwnSync, GetNetwork, EndpointReady, EndpointFails, WriteNetworkStatus,
           UpdateNetworkFails, WriteUpdatedRouteTable, PersistAndGo, ReturnError, resourceVars
  <2> QED BY <1>1, <1>2, <2>1, UpdatedPlaced
<1>7. CASE Delete \/ DeleteAtOnce
  <2>1. UNCHANGED cloud
        \/ \E id, phase : cloud' = [cloud EXCEPT ![id].phase = IF Exists(id) THEN phase ELSE @]
    BY <1>7
       DEF Delete, DeleteResource, DeleteResourceFails, WaitDeleted, WaitDeletedFails,
           RemoveFinalizer, ReturnError, DeleteAtOnce, CloudDelete, resourceVars
  <2>2. ASSUME NEW id, NEW phase,
               cloud' = [cloud EXCEPT ![id].phase = IF Exists(id) THEN phase ELSE @]
        PROVE  Placed'
    <3>1. \A i \in OwnIds : cloud'[i].phase # "none" =>
              cloud[i].phase # "none" /\ cloud'[i].cfg = cloud[i].cfg
      BY <1>0, <2>2 DEF Resource, Exists, Standing
    <3> QED BY <1>1, <3>1, PlacedKept
  <2> QED BY <1>2, <2>1, <2>2
<1>8. CASE Around \/ AddressComes \/ UNCHANGED vars
  <2>1. UNCHANGED cloud \/ Cloud \/ AddressComes \/ Drift
    BY <1>8 DEF Around, Restarts, Crash, Environment, Watch, Timer, Users, Owners, RefUsers,
                resourceVars, vars
  <2>2. CASE Cloud \/ AddressComes
    <3>1. PICK i \in Ids : \E phase :
              cloud[i].phase # "none" /\ cloud' = [cloud EXCEPT ![i].phase = phase]
      BY <2>2 DEF Cloud, CloudProgress, Provisioned, Removed, AddressComes, ReadyUnaddressed,
                  Addressed
    <3>2. \A j \in OwnIds : cloud'[j].phase # "none" =>
              cloud[j].phase # "none" /\ cloud'[j].cfg = cloud[j].cfg
      BY <1>0, <3>1 DEF Resource
    <3> QED BY <1>1, <3>2, PlacedKept
  <2>3. CASE Drift
    <3>1. PICK i \in Ids : \/ OutOfBandDelete(i)
                           \/ \E m \in Metas : OutOfBandEdit(i, [cloud[i].cfg EXCEPT !.meta = m])
      BY <2>3 DEF Drift
    <3>2. cloud[i].cfg \in [parents : SeqOf(RefIds, MaxRefs), members : SeqOf(Names \cup RefIds, MaxRefs),
                            meta : Metas]
      BY <1>0, DependentAssumption DEF Resource
    <3>3. \A j \in OwnIds : cloud'[j].phase # "none" =>
              cloud[j].phase # "none" /\ cloud'[j].cfg.parents = cloud[j].cfg.parents
      <4>1. CASE OutOfBandDelete(i)
        BY <1>0, <4>1 DEF OutOfBandDelete, Resource, Standing
      <4>2. ASSUME NEW m \in Metas, OutOfBandEdit(i, [cloud[i].cfg EXCEPT !.meta = m])
            PROVE  \A j \in OwnIds : cloud'[j].phase # "none" =>
                       cloud[j].phase # "none" /\ cloud'[j].cfg.parents = cloud[j].cfg.parents
        BY <1>0, <3>2, <4>2 DEF OutOfBandEdit, Resource
      <4> QED BY <3>1, <4>1, <4>2
    <3> QED BY <1>1, <3>3, PlacedKept
  <2> QED BY <1>2, <2>1, <2>2, <2>3
<1> QED BY <1>3, <1>4, <1>5, <1>6, <1>7, <1>8, NextBy, ActsBy


\* A resource that needs no update, or has had one, has what the spec describes.
LEMMA UpToDate ==
    ASSUME TypeOK, RefsHeld, NotLost, pc \in NeedRefs, NEW resource \in Resource,
           ~RequiresUpdate(mem, resource)
    PROVE  <<mem.spec, resource.cfg>> \in Matching
BY HeldMatches DEF RequiresUpdate, SubnetDiffers, TypeOK, Resource

LEMMA OwnUpdateApplied ==
    ASSUME TypeOK, RefsHeld, NotLost, LeakInv, FetchedNow, Placed, Undrifted, UpdateNetwork
    PROVE  <<mem'.spec, cloud'[mem'.status.id].cfg>> \in Matching
<1> DEFINE id == mem.status.id
           cfg == cloud[id].cfg
           new == Updated(cfg)
<1>1. /\ CloudUpdate(id, new) /\ cfg \in Cfgs /\ new \in Cfgs /\ pc = "update"
      /\ mem'.spec = mem.spec /\ mem'.status.id = id
  BY UpdateNetworkFacts DEF Copy, Like
<1>2. CloudTypeOK /\ mem \in Object /\ pc \in NeedRefs
  BY <1>1, MemFacts DEF TypeOK, ReconcilerTypeOK, NeedRefs
<1>3. cloud'[id].cfg = new
  <2> HIDE DEF new
  <2> QED BY <1>1, <1>2, UpdateStands
<1>4. cfg \in [parents : SeqOf(RefIds, MaxRefs), members : SeqOf(Names \cup RefIds, MaxRefs),
               meta : Metas]
  BY <1>1, DependentAssumption
<1>5. new.meta = mem.spec.meta /\ new.members = resolved.members
      /\ new.parents = IF SubnetDiffers(fetched) THEN [cfg.parents EXCEPT ![1] = resolved.parents[1]]
                       ELSE cfg.parents
  BY <1>4 DEF Updated
<1>6. fetched.cfg = cfg
  BY <1>1 DEF FetchedNow
<1>7. kind = "Loadbalancer" => new.parents[1] = resolved.parents[1]
  <2> SUFFICES ASSUME kind = "Loadbalancer" PROVE new.parents[1] = resolved.parents[1]
    OBVIOUS
  <2>1. id \in OwnIds /\ cloud[id].phase # "none"
    BY <1>1, <1>2, SpecFacts DEF LeakInv, WorkerAgrees, WellFormed, CloudUpdate, Standing,
       IdentityPoints
  <2>2. cfg.parents # <<>> /\ cfg.parents \in Seq(RefIds)
    BY <1>4, <2>1, BoundedIsSeq DEF Placed
  <2>3. 1 \in DOMAIN cfg.parents
    BY <2>2
  <2> HIDE DEF cfg, new
  <2> QED BY <1>5, <1>6, <2>3 DEF SubnetDiffers
<1> HIDE DEF new
<1> QED BY <1>1, <1>2, <1>3, <1>5, <1>7, HeldMatches DEF TypeOK

LEMMA OwnSyncApplied ==
    ASSUME NEW reasons, Ready(reasons), TypeOK, RefsHeld, NotLost, FetchedNow, Placed,
           NEW agree, agree = Matching, Applied(agree), OnlySpends, OwnSync
    PROVE  Applied(agree)'
<1> SUFFICES ASSUME Undrifted' PROVE Applied(agree)'
  BY DEF Applied
<1> USE DEF AppliedPoints, LastWrites
<1>0. mem \in Object /\ fetched \in Resource /\ ReconcilerTypeOK /\ Undrifted /\ LeakInv
  BY MemFacts, ReadyCalm DEF TypeOK, ReconcilerTypeOK, Ready
<1>1. CASE EndpointFails \/ UpdateNetworkFails
  BY <1>1, AppliedNowhere
     DEF EndpointFails, UpdateNetworkFails, ReportError, ReturnError, Done, Return
<1>2. CASE GetNetwork
  <2>1. /\ pc \in NeedRefs /\ fetched' \in Resource /\ fetched' = cloud'[mem'.status.id]
        /\ mem'.spec = mem.spec
        /\ pc' \in {"waitEndpoint", "writeResourceStatus", "writeUpdating", "writeSynced"}
        /\ pc' = "writeSynced" => ~RequiresUpdate(mem, fetched') /\ IsTrue(mem'.status.conds, "Ready")
    BY <1>2, GetNetworkFacts DEF NeedRefs, Copy, Like
  <2>2. PICK resource \in Resource : resource = fetched'
    BY <2>1
  <2>3. pc' = "writeSynced" => <<mem.spec, resource.cfg>> \in Matching
    <3> SUFFICES ASSUME pc' = "writeSynced" PROVE <<mem.spec, resource.cfg>> \in Matching
      OBVIOUS
    <3>1. ~RequiresUpdate(mem, resource)
      BY <2>1, <2>2
    <3> QED BY <2>1, <3>1, UpToDate
  <2>4. (pc \in AppliedPoints => <<mem.spec, cloud[mem.status.id].cfg>> \in agree)'
    <3>1. cloud'[mem'.status.id].cfg = resource.cfg
      BY <2>1, <2>2
    <3> QED BY <2>1, <2>3, <3>1
  <2>5. (pc = "writeResourceStatus" => fetched.cfg = cloud[mem.status.id].cfg)'
    BY <2>1
  <2>6. (pc \in LastWrites => IsTrue(mem.status.conds, "Ready"))'
    BY <2>1
  <2> QED BY <2>4, <2>5, <2>6 DEF Applied
<1>3. CASE EndpointReady
  <2>1. /\ pc = "waitEndpoint" /\ UNCHANGED <<cloud, fetched>> /\ SyncStatus(fetched)
        /\ pc \in NeedRefs
    BY <1>3 DEF EndpointReady, resourceVars, NeedRefs
  <2>2. /\ mem'.spec = mem.spec /\ mem'.status.id = mem.status.id
        /\ pc' \in {"writeResourceStatus", "writeUpdating", "writeSynced"}
        /\ pc' = "writeSynced" => ~RequiresUpdate(mem, fetched) /\ IsTrue(mem'.status.conds, "Ready")
    BY <1>0, <2>1, SyncStatusFacts DEF Copy, Like
  <2>3. fetched.cfg = cloud[mem.status.id].cfg
    BY <1>0, <2>1 DEF FetchedNow
  <2>4. pc' = "writeSynced" => <<mem.spec, fetched.cfg>> \in Matching
    BY <1>0, <2>1, <2>2, UpToDate
  <2> QED BY <2>1, <2>2, <2>3, <2>4 DEF Applied
<1>4. CASE WriteNetworkStatus
  <2>1. /\ pc = "writeResourceStatus" /\ UNCHANGED <<cloud, fetched>>
        /\ SyncSpec(mem, RequiresUpdate(mem, fetched)) /\ pc \in NeedRefs
    BY <1>4 DEF WriteNetworkStatus, resourceVars, NeedRefs
  <2>2. /\ mem'.spec = mem.spec /\ mem'.status.id = mem.status.id
        /\ pc' \in {"writeUpdating", "writeSynced"}
        /\ pc' = "writeSynced" => ~RequiresUpdate(mem, fetched) /\ IsTrue(mem'.status.conds, "Ready")
    BY <1>0, <2>1, SyncSpecCopy DEF Copy, Like
  <2>3. fetched.cfg = cloud[mem.status.id].cfg
    BY <1>0, <2>1 DEF FetchedNow
  <2>4. pc' = "writeSynced" => <<mem.spec, fetched.cfg>> \in Matching
    BY <1>0, <2>1, <2>2, UpToDate
  <2> QED BY <2>1, <2>2, <2>3, <2>4 DEF Applied
<1>5. CASE UpdateNetwork
  <2>1. pc' = "writeUpdated"
    BY <1>5, UpdateNetworkFacts
  <2>2. <<mem'.spec, cloud'[mem'.status.id].cfg>> \in Matching
    BY <1>0, <1>5, OwnUpdateApplied
  <2> QED BY <2>1, <2>2 DEF Applied
<1>6. CASE WriteUpdatedRouteTable
  BY <1>6, WriteTableFacts, CloudUntouched, AppliedKept DEF Copy, Like
<1> QED BY <1>1, <1>2, <1>3, <1>4, <1>5, <1>6 DEF OwnSync

LEMMA NextApplied ==
    ASSUME NEW reasons, Ready(reasons), TypeOK, RefsHeld, NotLost, FetchedNow, Placed,
           NEW agree, agree = Matching, Applied(agree), OnlySpends, [Next]_vars
    PROVE  Applied(agree)'
<1>1. CASE Reconcile
  BY <1>1, SharedApplied, AnyDependentApplied DEF Reconcile, ReconcileNetwork
<1>2. CASE Create(Sent) \/ OwnCreation
  <2>1. pc = "create" => <<mem.spec, Sent>> \in agree
    BY SentMatches DEF TypeOK
  <2> QED BY <1>2, <2>1, SentType, CreateApplied, OwnCreationApplied DEF TypeOK
<1>3. CASE CommonSync
  <2>1. Sync(TRUE, TRUE, Sent) /\ pc # "update" /\ Sent \in Cfgs
    BY <1>3, CommonSyncs, SentType DEF TypeOK
  <2> QED BY <2>1, SyncApplied
<1>4. CASE OwnSync
  BY <1>4, OwnSyncApplied
<1>5. CASE WriteUpdated("refetch")
  BY <1>5, WriteUpdatedApplied
<1>6. CASE RefetchReportsError \/ DeleteAtOnce \/ DeleteFails
  BY <1>6, AppliedNowhere
     DEF RefetchReportsError, DeleteAtOnce, DeleteFails, ReportError, ReturnError, Step, Done,
         Return, AppliedPoints, LastWrites
<1>7. CASE Delete \/ WriteError \/ StatusWriteFails
  BY <1>7, SharedApplied
<1>8. CASE Around
  BY <1>8, AroundApplied DEF TypeOK
<1>9. CASE AddressComes
  BY <1>9, AddressStands, EnvironmentApplied DEF AddressComes, runtimeVars, workerVars
<1>10. CASE UNCHANGED vars
  BY <1>10, CloudUntouched, EnvironmentApplied DEF vars, runtimeVars, workerVars, resourceVars
<1> QED BY <1>1, <1>2, <1>3, <1>4, <1>5, <1>6, <1>7, <1>8, <1>9, <1>10, NextBy, ActsBy

\* What a step does to the references.
LEMMA NextRefs ==
    ASSUME RefsAnchored, TypeOK, RefsDistinct, RefsHeld, [Next]_vars
    PROVE  /\ RefsDistinct' /\ RefsHeld' /\ UNCHANGED kind
           /\ NotLost' => NotLost /\ Matching \subseteq Matching'
<1>1. CASE Form
  BY <1>1, FormRefs, FormHeld, MatchingStays DEF TypeOK, DependentTypeOK
<1>2. CASE AddressComes \/ UNCHANGED vars
  <2>1. UNCHANGED <<pc, mem, refs, recorded, kind, resolved>>
    BY <1>2 DEF AddressComes, runtimeVars, workerVars, dependencyVars, vars
  <2>2. RefsDistinct' /\ (NotLost' => NotLost) /\ RefsKeep /\ recorded \subseteq recorded'
    BY <2>1 DEF RefsDistinct, RefsKnown, NotLost, RefsKeep
  <2> QED BY <2>1, <2>2, HeldAround, MatchingSame DEF TypeOK
<1> QED BY <1>1, <1>2, NextForm

\* No reference has lost its identity: a reconcile that has nothing more to do leaves the
\* resource as its CR says, or has reported a reference to what is not there.
LEMMA StepDone ==
    ASSUME Ready(Unfailed), TypeOK, TypeOK', RefsHeld, FetchedNow, NotLost, NotLost',
           NEW before, NEW after, before = Matching, after = Matching', before \subseteq after,
           Applied(before), RestsDone, UNCHANGED kind, [Next]_vars
    PROVE  RestsDone'
<1> SUFFICES ASSUME Calm', Unattended', ~RefReportedMissing'
             PROVE  ~api'.deleting /\ Settled(after)'
  BY DEF RestsDone, Settled
<1>1. RestStep(Unfailed)
  BY NextRest, SayableExpected, MissingAgainKeeps DEF Sayable, TypeOK
<1>2. Blameless(Unfailed)
  BY DEF Blameless, CallFailed, Unfailed, NotFoundReasons
<1>3. ~Adopts(api') /\ api'.spec.valid
  BY SpecFacts DEF TypeOK, DependentTypeOK, ReconcilerTypeOK, RuntimeTypeOK
<1>4. CASE Calm /\ Unattended /\ RefReportedMissing
  <2>1. pc = "idle"
    BY <1>4 DEF Unattended
  <2>2. UNCHANGED api
    BY <1>1, <1>2, <1>3, <2>1 DEF RestStep, Finishes, WritesLast, LastWrites
  <2> QED BY <1>4, <2>2, ReportedStays
<1>5. CASE Calm /\ Unattended => ~RefReportedMissing
  <2>1. Calm /\ Unattended => ~api.deleting /\ Settled(before)
    BY <1>5 DEF RestsDone, Settled
  <2> QED BY <1>1, <1>2, <1>3, <2>1, RestsSettled
<1> QED BY <1>4, <1>5

(* The inductive invariant of RestsInSync: that of the shared reconcile,    *)
(* that the worker sends what the references stood for when it looked them  *)
(* up, which is what the spec's stand for as long as none of them loses its *)
(* identity, and that what Get answered is still true when the update goes  *)
(* out.                                                                     *)
THEOREM RestInvariant == Modes /\ RefsAnchored => (Spec => []RestInv)
<1> SUFFICES ASSUME Modes, RefsAnchored PROVE Spec => []RestInv
  OBVIOUS
<1>1. Init => RestInv
  <2> SUFFICES ASSUME Init PROVE RestInv
    OBVIOUS
  <2>1. LeakInv /\ TypeOK
    BY InitDependent DEF Init, TypeOK, LifecycleInv
  <2>2. "" \in Unfailed
    BY DEF Unfailed
  <2>3. VersionInv /\ ErrorsAmong(Unfailed) /\ ~Unattended
    BY <2>2, InitRest DEF Init, DependentInit
  <2>4. Applied(Matching) /\ RefsHeld /\ FetchedNow
    BY DEF Init, DependentInit, ReconcilerInit, RuntimeInit, Applied, AppliedPoints, LastWrites,
           RefsHeld, FetchedNow, NeedRefs
  <2>5. RefsDistinct
    BY RefsAssumption DEF Init, DependentInit, RefsInit, RefsDistinct, RefsKnown, RefIds
  <2>6. Placed
    BY IdsAssumption DEF Init, DependentInit, ReconcilerInit, CloudInit, Placed, Ids
  <2> QED BY <2>1, <2>3, <2>4, <2>5, <2>6 DEF RestInv, RestsDone, Unfailed
<1>2. RestInv /\ [Next]_vars => RestInv'
  <2> SUFFICES ASSUME RestInv, [Next]_vars PROVE RestInv'
    OBVIOUS
  <2>1. LeakInv' /\ TypeOK' /\ TypeOK
    BY NextLeak, NextType DEF RestInv
  <2>2. /\ RefsDistinct' /\ RefsHeld' /\ UNCHANGED kind
        /\ NotLost' => NotLost /\ Matching \subseteq Matching'
    BY NextRefs DEF RestInv
  <2>3. Ready(Texts)
    <3>1. ErrorsAmong(Texts)
      BY <2>1 DEF TypeOK, DependentTypeOK, ReconcilerTypeOK, RuntimeTypeOK, ErrorsAmong, Object,
                  Status, Conditions, ConditionTypes, Condition
    <3> QED BY <2>1, <3>1, TextsAssumption DEF RestInv, Ready
  <2>4. VersionInv' /\ OnlySpends
    BY <2>1, <2>2, <2>3, NextRest, SayableExpected, MissingAgainKeeps
       DEF RestInv, Sayable, RestStep, TypeOK
  <2>5. FetchedNow' /\ Placed'
    BY <2>1, <2>3, <2>4, NextFetched, NextPlaced DEF RestInv
  <2>6. ASSUME NotLost' PROVE ErrorsAmong(Unfailed)' /\ Applied(Matching)' /\ RestsDone'
    <3>1. NotLost /\ Ready(Unfailed)
      BY <2>1, <2>2, <2>6 DEF RestInv, Ready, Unfailed
    <3>2. ErrorsAmong(Unfailed)'
      BY <2>1, <2>2, <3>1, NextRest, SayableExpected, MissingAgainKeeps
         DEF RestInv, Sayable, RestStep, TypeOK
    <3>3. PICK before, after : before = Matching /\ after = Matching'
      OBVIOUS
    <3>4. before \subseteq after /\ Applied(before)
      BY <2>2, <2>6, <3>1, <3>3 DEF RestInv, Applied
    <3>5. Applied(before)'
      BY <2>1, <2>3, <2>4, <3>1, <3>3, <3>4, NextApplied DEF RestInv
    <3>6. Applied(Matching)'
      BY <3>3, <3>4, <3>5 DEF Applied
    <3>7. RestsDone'
      BY <2>1, <2>2, <2>6, <3>1, <3>3, <3>4, StepDone DEF RestInv
    <3> QED BY <3>2, <3>6, <3>7
  <2>7. ~NotLost' => RestsDone'
    BY DEF RestsDone
  <2> QED BY <2>1, <2>2, <2>4, <2>5, <2>6, <2>7 DEF RestInv, Unfailed
<1> QED BY <1>1, <1>2, PTL DEF Spec

(* A group, table, gateway or load balancer is left alone only once it is   *)
(* what its CR describes, security groups and subnet resolved to the        *)
(* identities they have now: whatever the lists of references, and however  *)
(* the worker's lookups and the objects' own steps interleave.  Beside what *)
(* RestsInSync excepts, a suspension is left out, and a reference by        *)
(* identity is to something Thalassa has.                                   *)
THEOREM RestsWhenDone ==
    Modes /\ RefsAnchored => (Spec => [](NeverSuspended => RestsInSync))
<1> SUFFICES ASSUME Modes, RefsAnchored
             PROVE  Spec => [](NeverSuspended => RestsInSync)
  OBVIOUS
<1>1. RestInv => (NeverSuspended => RestsInSync)
  <2> SUFFICES ASSUME RestInv, OneFault, NeverSuspended, AtRest, Undrifted, RefsKept, WantsResource
               PROVE  ~api.deleting /\ InSync
    BY DEF RestsInSync
  <2>1. Calm /\ Unattended /\ NotLost /\ ~RefReportedMissing
    BY DEF Calm, Unattended, AtRest, CacheIsCurrent, WantsResource, RefsKept, NoneGone,
           RefReportedMissing
  <2>2. ~api.deleting /\ Settled(Matching)
    BY <2>1 DEF RestInv, RestsDone
  <2> QED BY <2>2 DEF Settled, InSync, Matching
<1> QED BY <1>1, RestInvariant, PTL

===============================================================================
