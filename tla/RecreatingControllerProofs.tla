----------------------- MODULE RecreatingControllerProofs -----------------------
(***************************************************************************)
(* Theorems about RecreatingController, for its three kinds and any lists  *)
(* of references: the types, and under Modes, as long as no route is moved *)
(* to another table, that no group, route or peering is forgotten although *)
(* status.resourceId is taken back, and that the reconcilers implement     *)
(* their abstract specifications.                                          *)
(***************************************************************************)
EXTENDS RecreatingController, DependentReconcilerProofs

-----------------------------------------------------------------------------
(* The shape of each action of the worker.                                 *)

LEMMA RecreatingTexts ==
    /\ Errors \subseteq Texts
    /\ {"UpdateFailed", "AcceptFailed", "RejectFailed", "Active", "Rejected", "Synced", ""}
           \subseteq Texts
    /\ Phases \subseteq Texts
BY ErrorsAssumption, ReasonsAssumption, TextsAssumption, RecreatingReasonsAssumption DEF Reasons

LEMMA SyncedVariant == ASSUME NEW obj \in Object PROVE Variant(Synced(obj), obj)
<1>1. Variant(SetAvailable(obj, "Synced"), obj)
  BY VariantReported, RecreatingTexts
<1>2. SetAvailable(obj, "Synced") \in Object /\ "ready" \in Phases
  BY <1>1 DEF Variant, Phases, Standing
<1>3. Variant(Synced(obj), SetAvailable(obj, "Synced"))
  BY <1>2, VariantStatus DEF Synced
<1> QED BY <1>1, <1>3, VariantAgain

LEMMA ReadyVariant ==
    ASSUME NEW obj \in Object, NEW phase \in Phases \cup {""}
    PROVE  Variant(SetReadyFromPeeringStatus(obj, phase), obj)
<1>1. PeeringReason(phase) \in Texts /\ "" \in Texts
  BY RecreatingTexts DEF PeeringReason
<1>2. obj.status.conds \in Conditions /\ "Ready" \in ConditionTypes
  BY DEF Object, Status, ConditionTypes
<1>3. SetStatusCondition(obj.status.conds, "Ready", IF phase = "ready" THEN "True" ELSE "False",
                         PeeringReason(phase), "") \in Conditions
  BY <1>1, <1>2, SetStatusConditionType
<1> QED BY <1>3, VariantConditions DEF SetReadyFromPeeringStatus

LEMMA PeeringVariant ==
    ASSUME NEW obj \in Object, NEW phase \in Phases
    PROVE  Variant(PeeringSynced(obj, phase), obj)
<1>1. Variant(SetReadyFromPeeringStatus(obj, phase), obj)
  BY ReadyVariant
<1>2. SetReadyFromPeeringStatus(obj, phase) \in Object
  BY <1>1 DEF Variant
<1>3. Variant(PeeringSynced(obj, phase), SetReadyFromPeeringStatus(obj, phase))
  BY <1>2, VariantStatus DEF PeeringSynced
<1> QED BY <1>1, <1>3, VariantAgain

\* An update in place, of a resource that may have gone meanwhile.
LEMMA InPlaceCloud ==
    ASSUME ReconcilerTypeOK, NEW i, NEW cfg, i \in Ids => cfg \in Cfgs, UpdateInPlace(i, cfg)
    PROVE  CloudTypeOK' /\ OnlyRemoves
<1>1. CASE i \in Ids
  BY <1>1 DEF UpdateInPlace, ReconcilerTypeOK, CloudTypeOK, OnlyRemoves, Exists, Standing, Resource,
              Phases
<1>2. CASE i \notin Ids
  <2>1. UNCHANGED cloud
    BY <1>2 DEF UpdateInPlace, ReconcilerTypeOK, CloudTypeOK
  <2> QED BY <2>1, SameCloud
<1> QED BY <1>1, <1>2

LEMMA InPlaceCfg ==
    ASSUME ReconcilerTypeOK, NEW i \in Ids, NEW meta \in Metas,
           NEW members \in SeqOf(Names \cup RefIds, MaxRefs)
    PROVE  /\ [cloud[i].cfg EXCEPT !.meta = meta] \in Cfgs
           /\ [cloud[i].cfg EXCEPT !.members = members] \in Cfgs
           /\ [cloud[i].cfg EXCEPT !.meta = meta, !.members = members] \in Cfgs
<1>1. cloud[i].cfg \in Cfgs
  BY DEF ReconcilerTypeOK, CloudTypeOK, Resource
<1>2. cloud[i].cfg \in [parents : SeqOf(RefIds, MaxRefs),
                        members : SeqOf(Names \cup RefIds, MaxRefs), meta : Metas]
  BY <1>1, DependentAssumption
<1> QED BY <1>2, DependentAssumption

LEMMA CreationShape ==
    ASSUME TypeOK, CreateTargetGroup \/ CreateRouteTableRoute \/ CreateVpcPeeringConnection
    PROVE  Shape
<1> USE DEF TypeOK
<1>1. CASE WriteCreatedTargetGroup
  BY <1>1, RequeueType, NoResourceType, CacheType
     DEF WriteCreatedTargetGroup, Shape, Ends, FinalizerPoints, IdentityPoints
<1>2. CASE CreatePeering
  <2>1. PICK i \in OwnIds, phase \in {"pending", "ready"} :
            /\ Step("create", "writeResourceId",
                    [mem EXCEPT !.status.id = i, !.status.res = phase, !.status.err = NoError])
            /\ CloudCreateIn(i, Sent, phase)
            /\ UNCHANGED <<objectVars, fresh, budget, fetched, lost>>
    BY <1>2 DEF CreatePeering
  <2>2. Step("create", "writeResourceId", mem') /\ phase \in Standing /\ phase \in Phases
    BY <2>1 DEF Step, Phases, Standing
  <2>3. mem' = [mem EXCEPT !.status.id = i, !.status.res = phase, !.status.err = NoError]
    BY <2>1 DEF Step
  <2>4. Variant(mem, mem)
    BY MemFacts, VariantSame
  <2> QED BY <2>1, <2>2, <2>3, <2>4, GivenIdentity
<1>3. CASE WriteResourceIdPeering
  <2>1. mem.status.res \in Phases \cup {""} /\ fetched \in Resource
    BY MemFacts DEF Object, Status, ReconcilerTypeOK
  <2>2. Variant(mem', mem)
    BY <1>3, <2>1, MemFacts, ReadyVariant DEF WriteResourceIdPeering, PersistAndGo, Step
  <2> QED
    BY <1>3, <2>1, <2>2
       DEF WriteResourceIdPeering, PersistAndGo, Step, resourceVars, Shape, Writes, IdentityPoints,
           DeletePoints, NeedRefs
<1> QED
  BY <1>1, <1>2, <1>3, CreateResourceShape, CreateRefusedShape, SharedCreate, WriteAvailableShape
     DEF CreateTargetGroup, CreateRouteTableRoute, CreateVpcPeeringConnection

LEMMA UpdatingShape ==
    ASSUME TypeOK, UpdateTargetGroup \/ SetAttachments \/ UpdateRouteTableRoute \/ UpdatePeering
    PROVE  Shape
<1> USE DEF CallPoints, FinalizerPoints, IdentityPoints, CreatePoints, DeletePoints, TypeOK
<1> DEFINE id == mem.status.id
<1>1. Variant(mem, mem) /\ Variant(Synced(mem), mem) /\ ReconcilerTypeOK
  BY MemFacts, VariantSame, SyncedVariant
<1>2. /\ id \in Ids => [cloud[id].cfg EXCEPT !.meta = mem.spec.meta] \in Cfgs
      /\ id \in Ids => [cloud[id].cfg EXCEPT !.members = mem.spec.members] \in Cfgs
      /\ id \in Ids => [cloud[id].cfg EXCEPT !.meta = mem.spec.meta,
                                             !.members = resolved.members] \in Cfgs
  BY MemFacts, InPlaceCfg
<1>3. \/ UpdateInPlace(id, [cloud[id].cfg EXCEPT !.meta = mem.spec.meta])
      \/ UpdateInPlace(id, [cloud[id].cfg EXCEPT !.members = mem.spec.members])
      \/ UpdateInPlace(id, [cloud[id].cfg EXCEPT !.meta = mem.spec.meta,
                                                 !.members = resolved.members])
  BY DEF UpdateTargetGroup, SetAttachments, UpdateRouteTableRoute, UpdatePeering
<1>4. CloudTypeOK' /\ OnlyRemoves
  BY <1>1, <1>2, <1>3, InPlaceCloud
<1>5. /\ pc \in {"update", "attach"} /\ pc' \in {"attach", "writeSynced", "refetch"}
      /\ mem' = mem \/ mem' = Synced(mem)
      /\ UNCHANGED <<objectVars, queue, fresh, budget, fetched, lost>>
  BY DEF UpdateTargetGroup, SetAttachments, UpdateRouteTableRoute, UpdatePeering, Step
<1>6. Onward
  BY <1>5 DEF Onward, NeedRefs
<1> QED BY <1>1, <1>4, <1>5, <1>6, Carried

LEMMA FailingShape ==
    ASSUME TypeOK,
           \/ SetAttachmentsFails \/ UpdateFails \/ UpdateRouteTableRouteFails \/ DeleteFails
           \/ AnswerFails("accept", "AcceptFailed") \/ AnswerFails("reject", "RejectFailed")
    PROVE  Shape
<1> USE DEF CallPoints, FinalizerPoints, IdentityPoints, CreatePoints, DeletePoints, TypeOK
<1> ReconcilerTypeOK /\ mem \in Object
  BY MemFacts
<1>1. CASE SetAttachmentsFails
  <2>1. Variant(mem', mem) /\ pc = "attach" /\ pc' = "writeSynced"
    BY <1>1, SyncedVariant DEF SetAttachmentsFails, Step
  <2>2. Onward
    BY <2>1 DEF Onward, NeedRefs
  <2> QED
    BY <1>1, <2>1, <2>2, SameCloud
       DEF SetAttachmentsFails, Step, resourceVars, Shape, Moves, ReconcilerTypeOK
<1>2. CASE UpdateFails
  BY <1>2, RecreatingTexts, Reported DEF UpdateFails, UpdateError, ReportingPoints
<1>3. CASE UpdateRouteTableRouteFails
  BY <1>3, RecreatingTexts, Reported DEF UpdateRouteTableRouteFails, ReportingPoints
<1>4. CASE DeleteFails
  BY <1>4, Returned DEF DeleteFails, DeleteError
<1>5. CASE AnswerFails("accept", "AcceptFailed")
  BY <1>5, RecreatingTexts, Reported DEF AnswerFails, ReportingPoints
<1>6. CASE AnswerFails("reject", "RejectFailed")
  BY <1>6, RecreatingTexts, Reported DEF AnswerFails, ReportingPoints
<1> QED BY <1>1, <1>2, <1>3, <1>4, <1>5, <1>6

LEMMA AnswerOrSyncVariant ==
    ASSUME NEW obj \in Object, NEW resource \in Resource, AnswerOrSync(obj, resource)
    PROVE  Variant(mem', obj) /\ pc' \in {"accept", "reject", "update", "writeSynced"}
<1>1. resource.phase \in Phases
  BY DEF Resource
<1> QED BY <1>1, VariantSame, PeeringVariant DEF AnswerOrSync

LEMMA GettingShape ==
    ASSUME TypeOK, GetTargetGroup \/ GetPeering \/ WritePeeringStatus \/ RefetchPeering
    PROVE  Shape
<1> USE DEF CallPoints, FinalizerPoints, IdentityPoints, CreatePoints, DeletePoints, TypeOK
<1> ReconcilerTypeOK /\ mem \in Object /\ fetched \in Resource
  BY MemFacts DEF ReconcilerTypeOK
<1>1. CASE GetTargetGroup
  <2>1. Onward
    BY <1>1 DEF GetTargetGroup, Step, Onward, NeedRefs
  <2> QED BY <1>1, <2>1, VariantSame, Answered DEF GetTargetGroup, Step, resourceVars
<1>2. CASE GetPeering
  <2>1. cloud[mem.status.id] \in Resource /\ cloud[mem.status.id].phase \in Phases
    BY <1>2, PhaseType DEF GetPeering
  <2>2. Variant(mem', mem)
        /\ pc' \in {"writeResourceStatus", "accept", "reject", "update", "writeSynced"}
    BY <1>2, <2>1, AnswerOrSyncVariant, VariantStatus DEF GetPeering
  <2>3. pc = "get" /\ fetched' \in Resource
        /\ UNCHANGED <<objectVars, queue, fresh, budget, cloud, lost>>
    BY <1>2, <2>1 DEF GetPeering
  <2>4. Onward
    BY <2>2, <2>3 DEF Onward, NeedRefs
  <2> QED BY <2>2, <2>3, <2>4, Answered
<1>3. CASE WritePeeringStatus
  <2>1. Variant(mem', mem) /\ pc' \in {"accept", "reject", "update", "writeSynced"}
    BY <1>3, AnswerOrSyncVariant DEF WritePeeringStatus
  <2> QED BY <1>3, <2>1 DEF WritePeeringStatus, resourceVars, Shape, Writes, NeedRefs
<1>4. CASE RefetchPeering
  <2>1. cloud[mem.status.id].phase \in Phases
    BY <1>4, PhaseType DEF RefetchPeering
  <2>2. Variant(mem', mem)
    BY <1>4, <2>1, PeeringVariant DEF RefetchPeering, Step
  <2>3. Onward
    BY <1>4 DEF RefetchPeering, Step, Onward, NeedRefs
  <2> QED BY <1>4, <2>2, <2>3, Answered DEF RefetchPeering, Step, resourceVars
<1> QED BY <1>1, <1>2, <1>3, <1>4

LEMMA AnsweringShape ==
    ASSUME TypeOK, Answer("accept", "ready") \/ Answer("reject", "rejected")
    PROVE  Shape
<1> USE DEF CallPoints, FinalizerPoints, IdentityPoints, CreatePoints, DeletePoints, TypeOK
<1> DEFINE id == mem.status.id
<1>1. PICK from \in {"accept", "reject"}, phase \in {"ready", "rejected"} : Answer(from, phase)
  OBVIOUS
<1>2. ReconcilerTypeOK /\ Variant(PeeringSynced(mem, phase), mem)
  BY MemFacts, PeeringVariant DEF Phases, Standing
<1>3. CloudTypeOK' /\ OnlyRemoves
  <2>1. CASE id \in Ids
    BY <1>1, <1>2, <2>1 DEF Answer, ReconcilerTypeOK, CloudTypeOK, OnlyRemoves, Exists, Standing,
                            Resource, Phases
  <2>2. CASE id \notin Ids
    <3>1. UNCHANGED cloud
      BY <1>1, <1>2, <2>2 DEF Answer, ReconcilerTypeOK, CloudTypeOK
    <3> QED BY <1>2, <3>1, SameCloud
  <2> QED BY <2>1, <2>2
<1>4. /\ pc \in {"accept", "reject"} /\ pc' = "writeSynced" /\ mem' = PeeringSynced(mem, phase)
      /\ UNCHANGED <<objectVars, queue, fresh, budget, fetched, lost>>
  BY <1>1 DEF Answer, Step
<1>5. Onward
  BY <1>4 DEF Onward, NeedRefs
<1> QED BY <1>2, <1>3, <1>4, <1>5, Carried

-----------------------------------------------------------------------------
(* Forgetting: status.resourceId is cleared in memory, then written.       *)

Forgets == GetForgotten \/ (kind = "RouteTableRoute" /\ UpdateForgotten)

\* What the worker does once the references are resolved.
Acts ==
    \/ kind = "TargetGroup" /\ TargetGroup
    \/ kind = "RouteTableRoute" /\ RouteTableRoute
    \/ kind = "VpcPeeringConnection" /\ VpcPeeringConnection
    \/ WriteError \/ StatusWriteFails

LEMMA ActsShape ==
    ASSUME TypeOK, Acts
    PROVE  \/ Shape \/ Forgets \/ WriteForgotten
           \/ kind = "RouteTableRoute" /\ DeleteRoute
<1>1. CASE WriteError \/ StatusWriteFails
  BY <1>1 DEF Shape, Shared
<1>2. CASE TargetGroup
  BY <1>2, CreationShape, UpdatingShape, FailingShape, GettingShape, SharedSync, SharedDelete,
     DeleteShape
     DEF TargetGroup, SyncTargetGroup, DeleteTargetGroup, Forgets, TypeOK
<1>3. CASE kind = "RouteTableRoute" /\ RouteTableRoute
  BY <1>3, CreationShape, UpdatingShape, FailingShape, SharedSync, SharedDelete
     DEF RouteTableRoute, SyncRouteTableRoute, DeleteRouteTableRoute, Forgets
<1>4. CASE VpcPeeringConnection
  BY <1>4, CreationShape, UpdatingShape, FailingShape, GettingShape, AnsweringShape, SharedSync,
     SharedDelete, DeleteShape, RefetchErrorShape
     DEF VpcPeeringConnection, SyncVpcPeeringConnection, DeleteVpcPeeringConnection, Forgets, TypeOK
<1> QED BY <1>1, <1>2, <1>3, <1>4 DEF Acts

LEMMA ReconcileBegins ==
    ASSUME TypeOK, ReconcileTargetGroup \/ ReconcileRouteTableRoute \/ ReconcilePeering
    PROVE  Begins
<1>1. CASE ReconcileTargetGroup
  BY <1>1, CreateOrSyncBegins DEF ReconcileTargetGroup, TypeOK
<1>2. CASE ReconcileRouteTableRoute
  <2>1. CASE cache.status.id = NoId
    BY <1>2, <2>1, CreateOrSyncBegins DEF ReconcileRouteTableRoute, TypeOK
  <2>2. CASE cache.status.id # NoId
    BY <1>2, <2>2, ObservedBegins DEF ReconcileRouteTableRoute, TypeOK
  <2> QED BY <2>1, <2>2
<1>3. CASE ReconcilePeering
  BY <1>3, ObservedBegins DEF ReconcilePeering, TypeOK
<1> QED BY <1>1, <1>2, <1>3

\* The steps that have no shape the other kinds know.
ForgetsOrLeaves ==
    /\ Forgets \/ WriteForgotten \/ (kind = "RouteTableRoute" /\ DeleteRoute)
    /\ ForgetRefs
    /\ UNCHANGED <<dependencyVars, kind>>

BeginsDelete ==
    kind = "RouteTableRoute" /\ ReconcileDeleteRoute /\ UNCHANGED <<dependencyVars, kind>>

TablesGo == kind = "RouteTableRoute" /\ \E n \in Names : TableGone(n)

Own == ForgetsOrLeaves \/ BeginsDelete \/ OtherSideRejects \/ TablesGo

LEMMA NextForm == ASSUME TypeOK, Next PROVE Form \/ Own
<1>1. CASE Worker
  <2>1. CASE Reconcile /\ UNCHANGED <<dependencyVars, kind>>
    BY <2>1, ReconcileBegins DEF Reconcile, Form, Own, BeginsDelete
  <2>2. CASE Acts /\ ForgetRefs /\ UNCHANGED <<dependencyVars, kind>>
    BY <2>2, ActsShape DEF Form, Own, ForgetsOrLeaves
  <2> QED BY <1>1, <2>1, <2>2 DEF Worker, Acts
<1>2. CASE OtherUsers
  <2>1. CASE kind = "RouteTableRoute" /\ \E n \in Names : TableGone(n)
    BY <2>1 DEF Own, TablesGo
  <2>2. ASSUME NEW n \in Names, RefCreated(n),
               UNCHANGED <<objectVars, workerVars, resourceVars, kind, resolved>>
        PROVE  RefUsers
    BY <2>2 DEF RefUsers
  <2> QED BY <1>2, <2>1, <2>2 DEF OtherUsers, Form, Around
<1> QED BY <1>1, <1>2 DEF Next, Form, Around, Own

LEMMA ForgetType == ASSUME TypeOK, Forgets PROVE ReconcilerTypeOK'
<1>1. mem \in Object /\ "writeForgotten" \in ProgramPoints
  BY MemFacts DEF TypeOK, ProgramPoints, StatusWrites
<1>2. mem' = [mem EXCEPT !.status.id = NoId, !.status.res = ""]
  BY DEF Forgets, GetForgotten, UpdateForgotten, Forget, Step
<1>3. mem' \in Object
  BY <1>1, <1>2 DEF Object, Status
<1>4. /\ pc' = "writeForgotten"
      /\ UNCHANGED <<objectVars, queue, fresh, budget, cloud, fetched, lost>>
  BY DEF Forgets, GetForgotten, UpdateForgotten, Forget, Step, resourceVars
<1> QED
  BY <1>1, <1>3, <1>4
     DEF TypeOK, DependentTypeOK, ReconcilerTypeOK, RuntimeTypeOK, CloudTypeOK, objectVars

LEMMA WriteForgottenType == ASSUME TypeOK, WriteForgotten PROVE ReconcilerTypeOK'
BY CacheType, PersistType, RequeueType, ReturnType, NoResourceType
   DEF WriteForgotten, TypeOK, ReconcilerTypeOK, RuntimeTypeOK, CloudTypeOK, ProgramPoints

LEMMA DeleteRouteClouds ==
    ASSUME TypeOK, DeleteRoute
    PROVE  CloudTypeOK' /\ OnlyRemoves
<1> ReconcilerTypeOK
  BY CacheType DEF TypeOK
<1>1. CASE mem.status.id \in Ids
  BY <1>1 DEF DeleteRoute, ReconcilerTypeOK, CloudTypeOK, OnlyRemoves, Exists, Standing, Resource,
              Phases, Found
<1>2. CASE mem.status.id \notin Ids
  <2>1. UNCHANGED cloud
    BY <1>2 DEF DeleteRoute, ReconcilerTypeOK, CloudTypeOK
  <2> QED BY <2>1, SameCloud
<1> QED BY <1>1, <1>2

LEMMA ForgetsOrLeavesType == ASSUME TypeOK, ForgetsOrLeaves PROVE TypeOK'
<1>1. ReconcilerTypeOK'
  <2>1. CASE DeleteRoute
    BY <2>1, MemFacts, DeleteRouteClouds
       DEF DeleteRoute, Step, TypeOK, ReconcilerTypeOK, RuntimeTypeOK, objectVars, ProgramPoints
  <2> QED BY <2>1, ForgetType, WriteForgottenType DEF ForgetsOrLeaves
<1>2. pc' \notin NeedRefs
  BY DEF ForgetsOrLeaves, Forgets, GetForgotten, UpdateForgotten, Forget, WriteForgotten, Return,
         DeleteRoute, Step, NeedRefs
<1> QED BY <1>1, <1>2, ForgetRefsType DEF ForgetsOrLeaves, TypeOK

LEMMA BeginsDeleteType == ASSUME TypeOK, BeginsDelete PROVE TypeOK'
<1>1. Observed(cache) \in Object /\ ReconcilerTypeOK
  BY CacheType, ObservedChange DEF TypeOK
<1>2. PICK at \in {"delete", "removeFinalizer"} :
          /\ Dequeue(Observed(cache), at)
          /\ at = "delete" => TableOf(cache) \in RefIds
  BY DEF BeginsDelete, ReconcileDeleteRoute
<1>3. ReconcilerTypeOK'
  BY <1>1, <1>2, DequeueType DEF BeginsDelete, ReconcileDeleteRoute, ProgramPoints
<1>4. pc' = at /\ UNCHANGED <<refs, recorded, kind>> /\ RefsTypeOK'
  BY <1>2 DEF Dequeue, BeginsDelete, dependencyVars, TypeOK, DependentTypeOK, RefsTypeOK
<1>5. at = "removeFinalizer" => resolved' = NoRefs
  BY <1>4 DEF BeginsDelete, ReconcileDeleteRoute, NoRefs
<1>6. at = "delete" => resolved' = [parents |-> <<TableOf(cache)>>, members |-> <<>>]
  BY <1>4 DEF BeginsDelete, ReconcileDeleteRoute, NoRefs
<1>7. at = "delete" => <<TableOf(cache)>> \in SeqOf(RefIds, MaxRefs)
  <2>1. at = "delete" => <<TableOf(cache)>> \in [1 .. 1 -> RefIds]
    BY <1>2
  <2>2. 1 \in 0 .. MaxRefs
    BY DependentAssumption
  <2> QED BY <2>1, <2>2 DEF SeqOf
<1>8. <<>> \in SeqOf(RefIds, MaxRefs)
  BY EmptyBounded
<1>9. CASE at = "delete"
  <2>1. resolved' \in [parents : SeqOf(RefIds, MaxRefs), members : SeqOf(RefIds, MaxRefs)]
        /\ resolved'.parents # <<>> /\ pc' \in NeedRefs'
    BY <1>4, <1>6, <1>7, <1>8, <1>9 DEF BeginsDelete, NeedRefs
  <2> QED BY <1>3, <1>4, <2>1 DEF TypeOK, DependentTypeOK
<1>10. CASE at = "removeFinalizer"
  <2>1. resolved' = NoRefs /\ pc' \notin NeedRefs'
    BY <1>4, <1>5, <1>10 DEF NeedRefs
  <2> QED BY <1>3, <1>4, <1>8, <2>1 DEF TypeOK, DependentTypeOK, NoRefs
<1> QED BY <1>2, <1>9, <1>10

\* What the other side, or the table, does to the resources.
LEMMA OthersClouds ==
    ASSUME TypeOK, OtherSideRejects \/ TablesGo
    PROVE  CloudTypeOK' /\ OnlyRemoves
<1> ReconcilerTypeOK
  BY CacheType DEF TypeOK
<1>1. CASE OtherSideRejects
  BY <1>1 DEF OtherSideRejects, Rejected, ReconcilerTypeOK, CloudTypeOK, OnlyRemoves, Exists,
              Standing, Resource, Phases
<1>2. CASE TablesGo
  <2>1. PICK n \in Names :
          cloud' = [i \in Ids |->
                       IF Exists(i) /\ cloud[i].cfg.parents[1] = refs[n]
                       THEN [cloud[i] EXCEPT !.phase = "gone"] ELSE cloud[i]]
    BY <1>2 DEF TablesGo, TableGone
  <2>2. ASSUME NEW i \in Ids
        PROVE  cloud'[i] \in Resource /\ (Exists(i)' => Exists(i))
               /\ (cloud'[i].phase = "none" => cloud[i].phase = "none")
    BY <2>1 DEF ReconcilerTypeOK, CloudTypeOK, Resource, Exists, Standing, Phases
  <2> QED BY <2>1, <2>2 DEF CloudTypeOK, OnlyRemoves
<1> QED BY <1>1, <1>2

LEMMA OthersType == ASSUME TypeOK, OtherSideRejects \/ TablesGo PROVE TypeOK'
<1>1. /\ UNCHANGED <<api, cache, unseen, queue, pc, mem, fresh, fetched, lost, kind, resolved>>
      /\ CloudTypeOK'
  BY OthersClouds DEF OtherSideRejects, TablesGo, TableGone, runtimeVars, objectVars, workerVars
<1>2. budget' \in [Interferences -> Nat]
  BY SpendType DEF OtherSideRejects, TablesGo, TableGone, RefGone, RefForgotten, runtimeVars,
                   Interferences, TypeOK, DependentTypeOK, ReconcilerTypeOK, RuntimeTypeOK
<1>3. RefsTypeOK'
  BY DEF OtherSideRejects, TablesGo, TableGone, RefGone, RefForgotten, dependencyVars, TypeOK,
         DependentTypeOK, RefsTypeOK
<1>4. ReconcilerTypeOK'
  BY <1>1, <1>2 DEF TypeOK, DependentTypeOK, ReconcilerTypeOK, RuntimeTypeOK
<1> QED BY <1>1, <1>3, <1>4, RestType DEF TypeOK

LEMMA NextType == ASSUME TypeOK, [Next]_vars PROVE TypeOK'
<1>1. CASE Form \/ UNCHANGED vars
  BY <1>1, FormType, StutterType DEF TypeOK
<1>2. CASE Own
  BY <1>2, ForgetsOrLeavesType, BeginsDeleteType, OthersType DEF Own
<1> QED BY <1>1, <1>2, NextForm

(* Every variable keeps its type, whatever the kinds, the bounds and the    *)
(* lists of references: among others that a worker about to update or       *)
(* delete a route holds the identity of a table.                            *)
THEOREM TypeCorrect == Spec => []TypeOK
<1>1. Init => TypeOK
  BY InitDependent DEF Init, TypeOK
<1>2. TypeOK /\ [Next]_vars => TypeOK'
  BY NextType
<1> QED BY <1>1, <1>2, PTL DEF Spec

-----------------------------------------------------------------------------
(* Tables and their routes.                                                *)

\* No route is moved to another table.
NotMoved == "RouteTableRoute" \in Kinds => OneTable

LEMMA TableFacts ==
    ASSUME NotMoved, TypeOK, kind = "RouteTableRoute", NEW a \in Object, NEW b \in Object
    PROVE  /\ TableOf(a) = TableOf(b)
           /\ a.spec.parents[1] = b.spec.parents[1]
           /\ a.spec.parents[1] \in Names \cup RefIds
<1>1. OneTable
  BY DEF NotMoved, TypeOK, DependentTypeOK
<1>2. a.spec \in Specs /\ b.spec \in Specs /\ a.spec.parents \in Seq(Names \cup RefIds)
      /\ Len(a.spec.parents) = 2
  BY SpecFacts
<1>3. a.spec.parents[1] = b.spec.parents[1] /\ a.spec.parents[1] \in Names \cup RefIds
  BY <1>1, <1>2 DEF OneTable
<1> QED BY <1>3 DEF TableOf

\* While it is needed, the worker has the identity of a table.
LEMMA TableKnown ==
    ASSUME TypeOK, kind = "RouteTableRoute", pc \in NeedRefs
    PROVE  Table \in RefIds
<1>1. ParentReasons[kind] # <<>>
  BY DEF ParentReasons
<1>2. resolved.parents # <<>> /\ resolved.parents \in Seq(RefIds)
  BY <1>1, MemFacts, BoundedIsSeq DEF TypeOK, DependentTypeOK
<1> QED BY <1>2 DEF Table

LEMMA RefsStep ==
    ASSUME TypeOK, Next
    PROVE  \/ UNCHANGED dependencyVars
           \/ /\ \E n \in Names :
                    RefRecorded(n) \/ RefCreated(n) \/ RefGone(n) \/ RefForgotten(n)
              /\ UNCHANGED <<api, kind, pc, resolved>>
              /\ UNCHANGED cloud \/ TablesGo
<1>1. CASE Form
  BY <1>1 DEF Form, Around, Restarts, Environment, Owners, RefUsers, Drift, objectVars, workerVars,
              resourceVars
<1>2. CASE Own
  BY <1>2 DEF Own, ForgetsOrLeaves, BeginsDelete, OtherSideRejects, TablesGo, TableGone, objectVars,
              workerVars
<1> QED BY <1>1, <1>2, NextForm

LEMMA DistinctKept ==
    ASSUME TypeOK, RefsDistinct, [Next]_vars
    PROVE  RefsDistinct'
<1> USE DEF RefsDistinct, RefsKnown
<1>1. refs \in [Names -> {Missing, NoId} \cup OwnRefIds] /\ recorded \subseteq OwnRefIds
      /\ Missing \notin OwnRefIds /\ NoId \notin OwnRefIds
  BY RefsAssumption DEF TypeOK, DependentTypeOK, RefsTypeOK, RefIds
<1>2. CASE UNCHANGED dependencyVars
  BY <1>2 DEF dependencyVars
<1>3. ASSUME NEW n \in Names, RefRecorded(n) PROVE RefsDistinct'
  <2>1. PICK i \in OwnRefIds \ recorded :
            refs' = [refs EXCEPT ![n] = i] /\ recorded' = recorded \cup {i}
    BY <1>3 DEF RefRecorded
  <2> QED BY <1>1, <2>1
<1>4. ASSUME NEW n \in Names, RefCreated(n) \/ RefGone(n) \/ RefForgotten(n) PROVE RefsDistinct'
  BY <1>1, <1>4 DEF RefCreated, RefGone, RefForgotten
<1>5. CASE UNCHANGED vars
  BY <1>2, <1>5 DEF vars, dependencyVars
<1> QED BY <1>2, <1>3, <1>4, <1>5, RefsStep

\* What a step leaves of the routes is where it was.
KeepsTables ==
    \A i \in OwnIds : Exists(i)' => /\ Exists(i)
                                    /\ cloud'[i].cfg.parents = cloud[i].cfg.parents

\* A request for a route, to a table Thalassa has.
MakesRoute ==
    /\ pc = "create" /\ ~Refused /\ pc' \notin NeedRefs
    /\ \E i \in OwnIds, phase \in Phases :
           cloud' = [cloud EXCEPT ![i] = [phase |-> phase, cfg |-> Sent]]

LEMMA SameTables == ASSUME UNCHANGED cloud PROVE KeepsTables
BY DEF KeepsTables, Exists, Standing

LEMMA RouteActs ==
    ASSUME TypeOK, kind = "RouteTableRoute", RouteTableRoute
    PROVE  KeepsTables \/ MakesRoute
<1> ReconcilerTypeOK
  BY CacheType DEF TypeOK
<1> USE DEF ReconcilerTypeOK, CloudTypeOK
<1>1. CASE UpdateRouteTableRoute
  <2> DEFINE id == mem.status.id
  <2>1. /\ cloud[id].phase \in Standing
        /\ cloud' = [cloud EXCEPT ![id].cfg = [cloud[id].cfg EXCEPT !.meta = mem.spec.meta,
                                                                   !.members = resolved.members]]
    BY <1>1 DEF UpdateRouteTableRoute, UpdateInPlace
  <2>2. \A i \in Ids : cloud[i].cfg \in [parents : SeqOf(RefIds, MaxRefs),
                                         members : SeqOf(Names \cup RefIds, MaxRefs), meta : Metas]
    BY DependentAssumption DEF Resource
  <2>3. \A i \in Ids : cloud'[i].phase = cloud[i].phase /\ cloud'[i].cfg.parents = cloud[i].cfg.parents
    BY <2>1, <2>2 DEF Resource
  <2> QED BY <2>3 DEF KeepsTables, Exists, Ids
<1>2. CASE DeleteRoute
  <2> DEFINE id == mem.status.id
             phase == IF Found(id) THEN "gone" ELSE cloud[id].phase
  <2>1. cloud' = [cloud EXCEPT ![id].phase = phase]
    BY <1>2 DEF DeleteRoute
  <2>2. id \in Ids => (phase = "gone" \/ phase = cloud[id].phase)
    OBVIOUS
  <2> HIDE DEF phase
  <2>3. ASSUME NEW i \in Ids
        PROVE  /\ cloud'[i].phase \in {cloud[i].phase, "gone"}
               /\ cloud'[i].cfg.parents = cloud[i].cfg.parents
    BY <2>1, <2>2 DEF Resource
  <2> QED BY <2>3 DEF KeepsTables, Exists, Ids, Standing
<1>3. CASE ~Refused /\ CreateReady(Sent)
  BY <1>3 DEF CreateReady, CloudCreateIn, Step, MakesRoute, NeedRefs, Phases, Standing
<1>4. CASE ~Refused /\ CreateResourceFails(Sent)
  <2>1. pc = "create" /\ pc' \notin NeedRefs
    BY <1>4 DEF CreateResourceFails, ReportError, Done, Return, NeedRefs
  <2> QED
    BY <1>4, <2>1, SameTables
       DEF CreateResourceFails, CloudCreate, CloudCreateIn, MakesRoute, Phases, Standing
<1>5. CASE \/ CreateRefused \/ WriteCreating \/ WriteResourceIdAvailable \/ WriteCreated
           \/ UpdateForgotten \/ UpdateRouteTableRouteFails \/ WriteForgotten \/ WriteSynced
           \/ DeleteFails \/ RemoveFinalizer
  BY <1>5, SameTables
     DEF CreateRefused, WriteCreating, WriteResourceIdAvailable, WriteCreated, UpdateForgotten,
         UpdateRouteTableRouteFails, WriteForgotten, WriteSynced, DeleteFails, ReturnError,
         RemoveFinalizer, resourceVars
<1> QED
  BY <1>1, <1>2, <1>3, <1>4, <1>5
     DEF RouteTableRoute, CreateRouteTableRoute, SyncRouteTableRoute, DeleteRouteTableRoute

LEMMA AroundTables ==
    ASSUME TypeOK, Environment \/ Drift \/ TablesGo
    PROVE  KeepsTables
<1> ReconcilerTypeOK
  BY CacheType DEF TypeOK
<1> USE DEF ReconcilerTypeOK, CloudTypeOK
<1>1. CASE Watch \/ Timer \/ Users
  BY <1>1, SameTables DEF Watch, Timer, Users, resourceVars
<1>2. CASE Cloud
  <2>1. \A i \in Ids : cloud'[i].cfg = cloud[i].cfg /\ (Exists(i)' => Exists(i))
    BY <1>2 DEF Cloud, CloudProgress, Provisioned, Removed, Resource, Exists, Standing
  <2> QED BY <2>1 DEF KeepsTables, Ids
<1>3. CASE Drift
  <2>1. PICK j \in Ids : \/ OutOfBandDelete(j)
                         \/ \E m \in Metas : OutOfBandEdit(j, [cloud[j].cfg EXCEPT !.meta = m])
    BY <1>3 DEF Drift
  <2>2. cloud[j].cfg \in [parents : SeqOf(RefIds, MaxRefs),
                          members : SeqOf(Names \cup RefIds, MaxRefs), meta : Metas]
    BY DependentAssumption DEF Resource
  <2>3. OnlyRemoves
    BY <1>3, DriftClouds DEF TypeOK
  <2>4. cloud'[j].cfg.parents = cloud[j].cfg.parents
    <3>1. CASE OutOfBandDelete(j)
      BY <3>1 DEF OutOfBandDelete, Resource
    <3>2. ASSUME NEW m \in Metas, OutOfBandEdit(j, [cloud[j].cfg EXCEPT !.meta = m])
          PROVE  cloud'[j].cfg.parents = cloud[j].cfg.parents
      <4>1. [cloud[j].cfg EXCEPT !.meta = m].parents = cloud[j].cfg.parents
        BY <2>2
      <4> QED BY <3>2, <4>1 DEF OutOfBandEdit, Resource
    <3> QED BY <2>1, <3>1, <3>2
  <2>5. \A i \in Ids : i # j => cloud'[i] = cloud[i]
    BY <2>1 DEF OutOfBandDelete, OutOfBandEdit
  <2> QED BY <2>3, <2>4, <2>5 DEF KeepsTables, OnlyRemoves, Ids
<1>4. CASE TablesGo
  <2>1. PICK n \in Names :
          cloud' = [i \in Ids |->
                       IF Exists(i) /\ cloud[i].cfg.parents[1] = refs[n]
                       THEN [cloud[i] EXCEPT !.phase = "gone"] ELSE cloud[i]]
    BY <1>4 DEF TablesGo, TableGone
  <2>2. \A i \in Ids : cloud'[i].cfg = cloud[i].cfg
    BY <2>1 DEF Resource
  <2> QED BY <1>4, <2>2, OthersClouds DEF KeepsTables, OnlyRemoves, Ids
<1> QED BY <1>1, <1>2, <1>3, <1>4 DEF Environment

LEMMA CloudStep ==
    ASSUME TypeOK, kind = "RouteTableRoute", Next
    PROVE  KeepsTables \/ MakesRoute
<1>1. CASE Worker
  <2>1. CASE Reconcile
    <3>1. UNCHANGED cloud
      BY <2>1 DEF Reconcile, ReconcileRouteTableRoute, ReconcileDeleteRoute, CreateOrSync,
                  ReconcileAnyDependent, ReconcileNothing, ReconcileNoFinalizer, AddFinalizer,
                  ReconcileNotReady, ReconcileNotFound, resourceVars
    <3> QED BY <3>1, SameTables
  <2>2. CASE WriteError \/ StatusWriteFails
    BY <2>2, SameTables DEF WriteError, StatusWriteFails
  <2> QED BY <1>1, <2>1, <2>2, RouteActs DEF Worker
<1>2. CASE OtherUsers
  <2>1. UNCHANGED cloud \/ TablesGo
    BY <1>2 DEF OtherUsers, TablesGo, resourceVars
  <2> QED BY <2>1, SameTables, AroundTables
<1>3. CASE Restarts \/ Owners
  BY <1>3, SameTables DEF Restarts, Crash, Owners, resourceVars
<1> QED BY <1>1, <1>2, <1>3, AroundTables DEF Next, OtherSideRejects

\* The table of a reconcile is the one the CR names when it starts.
LEMMA BegunTable ==
    ASSUME TypeOK, kind = "RouteTableRoute", KeepRefs
    PROVE  Table' = TableOf(cache)
<1>1. /\ ParentRefs(cache) \in Seq(Names \cup RefIds) /\ ParentRefs(cache) # <<>>
      /\ ParentRefs(cache)[1] = cache.spec.parents[1]
  BY CacheType, ParentRefsFacts DEF TypeOK, ParentReasons
<1>2. 1 \in DOMAIN ParentRefs(cache)
  BY <1>1
<1>3. Resolve(ParentRefs(cache))[1] = ResolveRef(ParentRefs(cache)[1])
  BY <1>2 DEF Resolve
<1> QED BY <1>1, <1>3 DEF KeepRefs, Table, TableOf

LEMMA ResolvedStep ==
    ASSUME TypeOK, kind = "RouteTableRoute", Next, pc' \in NeedRefs
    PROVE  \/ pc \in NeedRefs /\ resolved' = resolved
           \/ Table' = TableOf(cache)
<1>1. CASE Begins
  BY <1>1, BegunTable DEF Begins
<1>2. CASE (Shape \/ ReconcileAnyDependent) /\ ForgetRefs
  BY <1>2, ShapeRefs, AnyDependentRefs DEF ForgetRefs
<1>3. CASE Around
  <2>1. pc' = "idle" \/ (pc' = pc /\ resolved' = resolved)
    BY <1>3 DEF Around, Restarts, Crash, Restart, Environment, Watch, CacheSync, Timer, TimerFires,
                Users, User, UserEdit, UserCreate, UserDelete, UserToggleSuspend, UserWrites, Cloud,
                Owners, RefUsers, Drift, runtimeVars, workerVars
  <2> QED BY <2>1 DEF NeedRefs
<1>4. CASE Own
  <2>1. CASE ForgetsOrLeaves
    BY <2>1 DEF ForgetsOrLeaves, Forgets, GetForgotten, UpdateForgotten, Forget, WriteForgotten,
                Return, DeleteRoute, Step, NeedRefs
  <2>2. CASE BeginsDelete
    <3>1. pc' = "delete"
      BY <2>2 DEF BeginsDelete, ReconcileDeleteRoute, Dequeue, NeedRefs
    <3> QED BY <2>2, <3>1 DEF BeginsDelete, ReconcileDeleteRoute, NoRefs, Table
  <2>3. CASE OtherSideRejects \/ TablesGo
    BY <2>3 DEF OtherSideRejects, TablesGo, TableGone, workerVars
  <2> QED BY <1>4, <2>1, <2>2, <2>3 DEF Own
<1> QED BY <1>1, <1>2, <1>3, <1>4, NextForm DEF Form

LEMMA NextKind == ASSUME TypeOK, Next PROVE kind' = kind
<1>1. CASE Form
  BY <1>1 DEF Form, Around, Restarts, Environment, Owners, RefUsers, Drift
<1>2. CASE Own
  BY <1>2 DEF Own, ForgetsOrLeaves, BeginsDelete, OtherSideRejects, TablesGo, TableGone
<1> QED BY <1>1, <1>2, NextForm

LEMMA TableSteps ==
    ASSUME TypeOK, kind = "RouteTableRoute", Next, ~UNCHANGED dependencyVars
    PROVE  \E n \in Names :
               /\ TableGone(n) \/ ((RefRecorded(n) \/ RefCreated(n)) /\ UNCHANGED cloud)
               /\ UNCHANGED <<api, kind, pc, resolved>>
<1>1. Owners \/ OtherUsers
  BY DEF Next, Worker, Restarts, Environment, OtherSideRejects, Drift
<1>2. CASE Owners
  BY <1>2 DEF Owners, objectVars, workerVars, resourceVars
<1>3. CASE OtherUsers
  BY <1>3 DEF OtherUsers, TableGone, objectVars, workerVars, resourceVars
<1> QED BY <1>1, <1>2, <1>3

\* RoutesInTable, by its two parts.
RoutesHere ==
    \A i \in OwnIds : Exists(i) =>
        /\ TableOf(api) \in RefIds /\ Live(TableOf(api))
        /\ cloud[i].cfg.parents[1] = TableOf(api)

TableStands ==
    \/ Table = TableOf(api)
    \/ Table \in recorded /\ ~Live(Table) /\ \A i \in OwnIds : ~Exists(i)

LEMMA RoutesParts ==
    ASSUME kind = "RouteTableRoute"
    PROVE  RoutesInTable <=> RoutesHere /\ (pc \in NeedRefs => TableStands)
BY DEF RoutesInTable, RoutesHere, TableStands

LEMMA RoutesPartsNext ==
    ASSUME kind = "RouteTableRoute", kind' = kind
    PROVE  RoutesInTable' <=> RoutesHere' /\ (pc' \in NeedRefs => TableStands')
BY DEF RoutesInTable, RoutesHere, TableStands, NeedRefs

\* The references stay: a route is made in the table the CR names, which is live.
LEMMA RoutesKept ==
    ASSUME NotMoved, TypeOK, TypeOK', kind = "RouteTableRoute", RoutesInTable, Next,
           UNCHANGED dependencyVars
    PROVE  RoutesInTable'
<1>1. RoutesHere /\ (pc \in NeedRefs => TableStands)
  BY RoutesParts
<1>2. UNCHANGED <<refs, recorded, kind>>
  BY NextKind DEF dependencyVars
<1>3. TableOf(api)' = TableOf(api) /\ TableOf(cache) = TableOf(api)
  <2>1. api' \in Object /\ api \in Object /\ cache \in Object
    BY DEF TypeOK, DependentTypeOK, ReconcilerTypeOK, RuntimeTypeOK
  <2>2. TableOf(api') = TableOf(api) /\ TableOf(cache) = TableOf(api)
        /\ api'.spec.parents[1] = api.spec.parents[1]
    BY <2>1, TableFacts
  <2> QED BY <1>2, <2>2 DEF TableOf, ResolveRef
<1>4. \A id : Live(id)' <=> Live(id)
  BY <1>2 DEF Live
<1>5. RoutesHere'
  <2>1. CASE KeepsTables
    BY <1>1, <1>3, <1>4, <2>1 DEF RoutesHere, KeepsTables
  <2>2. CASE MakesRoute
    <3>1. pc \in NeedRefs /\ AllLive(resolved.parents)
      BY <2>2 DEF MakesRoute, NeedRefs, Refused
    <3>2. Table \in RefIds
      BY <3>1, TableKnown
    <3>3. 1 \in DOMAIN resolved.parents
      <4>1. ParentReasons[kind] # <<>>
        BY DEF ParentReasons
      <4>2. resolved.parents # <<>> /\ resolved.parents \in Seq(RefIds)
        BY <3>1, <4>1, MemFacts, BoundedIsSeq DEF TypeOK, DependentTypeOK
      <4> QED BY <4>2
    <3>4. Live(Table)
      BY <3>1, <3>3 DEF AllLive, Table
    <3>5. Table = TableOf(api)
      BY <1>1, <3>1, <3>4 DEF TableStands
    <3>6. PICK i \in OwnIds, phase \in Phases :
              cloud' = [cloud EXCEPT ![i] = [phase |-> phase, cfg |-> Sent]]
      BY <2>2 DEF MakesRoute
    <3>7. Sent.parents[1] = TableOf(api)
      BY <3>5 DEF Sent, Table
    <3>8. ASSUME NEW j \in OwnIds, Exists(j)'
          PROVE  cloud'[j].cfg.parents[1] = TableOf(api)
      <4>1. cloud \in [Ids -> Resource] /\ i \in Ids /\ j \in Ids
        BY DEF TypeOK, DependentTypeOK, ReconcilerTypeOK, CloudTypeOK, Ids
      <4>2. CASE j = i
        BY <3>6, <3>7, <4>1, <4>2
      <4>3. CASE j # i
        <5>1. cloud'[j] = cloud[j] /\ Exists(j)
          BY <3>6, <3>8, <4>1, <4>3 DEF Exists
        <5> QED BY <1>1, <5>1 DEF RoutesHere
      <4> QED BY <4>2, <4>3
    <3> QED BY <1>3, <1>4, <3>2, <3>4, <3>5, <3>8 DEF RoutesHere
  <2> QED BY <2>1, <2>2, CloudStep
<1>6. ASSUME pc' \in NeedRefs PROVE TableStands'
  <2>1. CASE Table' = TableOf(cache)
    BY <1>3, <2>1 DEF TableStands
  <2>2. CASE pc \in NeedRefs /\ resolved' = resolved
    <3>1. Table' = Table
      BY <2>2 DEF Table
    <3>2. KeepsTables
      BY <1>6, CloudStep DEF MakesRoute
    <3> QED BY <1>1, <1>2, <1>3, <1>4, <2>2, <3>1, <3>2 DEF TableStands, KeepsTables
  <2> QED BY <1>6, <2>1, <2>2, ResolvedStep
<1> QED BY <1>2, <1>5, <1>6, RoutesPartsNext

\* One of the references changes: a table that goes takes its routes with it, and
\* an identity it had is nobody else's.
LEMMA RoutesMoved ==
    ASSUME NotMoved, TypeOK, TypeOK', kind = "RouteTableRoute", RoutesInTable, RefsDistinct,
           NEW n \in Names,
           TableGone(n) \/ ((RefRecorded(n) \/ RefCreated(n)) /\ UNCHANGED cloud),
           UNCHANGED <<api, kind, pc, resolved>>
    PROVE  RoutesInTable'
<1> DEFINE p == api.spec.parents[1]
<1>1. RoutesHere /\ (pc \in NeedRefs => TableStands)
  BY RoutesParts
<1>2. p \in Names \cup RefIds /\ TableOf(api) = ResolveRef(p) /\ TableOf(api)' = ResolveRef(p)'
  <2>1. api \in Object
    BY DEF TypeOK, DependentTypeOK, ReconcilerTypeOK, RuntimeTypeOK
  <2> QED BY <2>1, TableFacts DEF TableOf
<1>3. /\ refs \in [Names -> {Missing, NoId} \cup OwnRefIds] /\ recorded \subseteq OwnRefIds
      /\ Missing \notin RefIds /\ NoId \notin RefIds
      /\ OwnRefIds \cap ExtRefIds = {} /\ Names \cap RefIds = {}
      /\ RefIds = OwnRefIds \cup ExtRefIds
  BY RefsAssumption DEF TypeOK, DependentTypeOK, RefsTypeOK, RefIds
<1>4. Table' = Table /\ (pc \in NeedRefs => Table \in RefIds)
  BY TableKnown DEF Table
<1>5. KeepsTables
  BY SameTables, AroundTables DEF TablesGo
<1>6. \A i \in OwnIds : Exists(i)' => Exists(i) /\ cloud'[i].cfg.parents = cloud[i].cfg.parents
  BY <1>5 DEF KeepsTables
<1>7. CASE RefRecorded(n)
  <2>1. PICK v \in OwnRefIds \ recorded :
            refs[n] = NoId /\ refs' = [refs EXCEPT ![n] = v] /\ recorded' = recorded \cup {v}
    BY <1>7 DEF RefRecorded
  <2>2. \A id \in RefIds : Live(id) => Live(id)'
    BY <1>3, <2>1 DEF Live
  <2>3. \A id \in recorded : ~Live(id) => ~Live(id)'
    BY <1>3, <2>1 DEF Live
  <2>4. TableOf(api) \in RefIds => TableOf(api)' = TableOf(api)
    BY <1>2, <1>3, <2>1 DEF ResolveRef
  <2>5. RoutesHere'
    BY <1>1, <1>6, <2>2, <2>4 DEF RoutesHere
  <2>6. pc \in NeedRefs => TableStands'
    BY <1>1, <1>4, <1>6, <2>1, <2>3, <2>4 DEF TableStands
  <2> QED BY <2>5, <2>6, RoutesPartsNext
<1>8. CASE RefCreated(n)
  <2>1. refs[n] = Missing /\ refs' = [refs EXCEPT ![n] = NoId] /\ recorded' = recorded
    BY <1>8 DEF RefCreated
  <2>2. \A id \in RefIds : Live(id)' <=> Live(id)
    BY <1>3, <2>1 DEF Live
  <2>3. TableOf(api) \in RefIds => TableOf(api)' = TableOf(api)
    BY <1>2, <1>3, <2>1 DEF ResolveRef
  <2>4. RoutesHere'
    BY <1>1, <1>6, <2>2, <2>3 DEF RoutesHere
  <2>5. pc \in NeedRefs => TableStands'
    BY <1>1, <1>3, <1>4, <1>6, <2>1, <2>2, <2>3 DEF TableStands
  <2> QED BY <2>4, <2>5, RoutesPartsNext
<1>9. CASE TableGone(n)
  <2>1. PICK v \in {Missing, NoId} :
            refs[n] # Missing /\ refs' = [refs EXCEPT ![n] = v] /\ recorded' = recorded
    BY <1>3, <1>9 DEF TableGone, RefGone, RefForgotten
  <2>2. cloud' = [i \in Ids |->
                     IF Exists(i) /\ cloud[i].cfg.parents[1] = refs[n]
                     THEN [cloud[i] EXCEPT !.phase = "gone"] ELSE cloud[i]]
    BY <1>9 DEF TableGone
  <2>3. \A id \in RefIds : Live(id)' => Live(id)
    BY <1>3, <2>1 DEF Live
  <2>4. \A id \in RefIds : id # refs[n] /\ Live(id) => Live(id)'
    BY <1>3, <2>1 DEF Live
  <2>5. \A id \in OwnRefIds : id = refs[n] => id \in recorded /\ ~Live(id)'
    BY <1>3, <2>1 DEF Live, RefsDistinct, RefsKnown
  <2>6. CASE TableOf(api) = refs[n]
    <3>1. \A i \in OwnIds : ~Exists(i)'
      <4> SUFFICES ASSUME NEW i \in OwnIds, Exists(i)' PROVE FALSE
        OBVIOUS
      <4>1. Exists(i) /\ cloud[i].cfg.parents[1] = refs[n] /\ i \in Ids /\ cloud[i] \in Resource
        BY <1>1, <1>6, <2>6
           DEF RoutesHere, Ids, TypeOK, DependentTypeOK, ReconcilerTypeOK, CloudTypeOK
      <4>2. cloud'[i].phase = "gone"
        BY <2>2, <4>1 DEF Resource
      <4> QED BY <4>2 DEF Exists, Standing
    <3>2. RoutesHere'
      BY <3>1 DEF RoutesHere
    <3>3. pc \in NeedRefs => TableStands'
      <4>1. CASE Table = TableOf(api) /\ pc \in NeedRefs
        <5>1. Table = refs[n] /\ refs[n] \in OwnRefIds
          BY <1>3, <1>4, <2>6, <4>1
        <5>2. Table \in recorded /\ ~Live(Table)'
          BY <1>4, <2>5, <5>1
        <5> QED BY <1>4, <2>1, <3>1, <5>2 DEF TableStands
      <4>2. CASE pc \in NeedRefs /\ Table \in recorded /\ ~Live(Table)
        BY <1>3, <1>4, <2>1, <2>3, <3>1, <4>2 DEF TableStands
      <4> QED BY <1>1, <4>1, <4>2 DEF TableStands
    <3> QED BY <3>2, <3>3, RoutesPartsNext
  <2>7. CASE TableOf(api) # refs[n]
    <3>1. TableOf(api)' = TableOf(api)
      BY <1>2, <1>3, <2>1, <2>7 DEF ResolveRef
    <3>2. RoutesHere'
      BY <1>1, <1>6, <2>4, <2>7, <3>1 DEF RoutesHere
    <3>3. pc \in NeedRefs => TableStands'
      BY <1>1, <1>3, <1>4, <1>6, <2>1, <2>3, <3>1 DEF TableStands
    <3> QED BY <3>2, <3>3, RoutesPartsNext
  <2> QED BY <2>6, <2>7
<1> QED BY <1>7, <1>8, <1>9

LEMMA NextRoutes ==
    ASSUME NotMoved, TypeOK, RefsDistinct, RoutesInTable, [Next]_vars
    PROVE  RoutesInTable'
<1>1. TypeOK' /\ kind' = kind
  BY NextType, NextKind DEF vars
<1>2. CASE kind # "RouteTableRoute"
  BY <1>1, <1>2 DEF RoutesInTable
<1>3. CASE kind = "RouteTableRoute" /\ UNCHANGED vars
  <2>1. UNCHANGED <<api, pc, cloud, refs, recorded, kind, resolved>>
    BY <1>3 DEF vars, runtimeVars, objectVars, workerVars, resourceVars, dependencyVars
  <2>2. RoutesHere' = RoutesHere /\ TableStands' = TableStands
    BY <2>1 DEF RoutesHere, TableStands, TableOf, Table, ResolveRef, Live, Exists
  <2> QED BY <1>3, <2>1, <2>2, RoutesParts, RoutesPartsNext
<1>4. CASE kind = "RouteTableRoute" /\ Next /\ UNCHANGED dependencyVars
  BY <1>1, <1>4, RoutesKept
<1>5. CASE kind = "RouteTableRoute" /\ Next /\ ~UNCHANGED dependencyVars
  <2>1. PICK n \in Names :
            /\ TableGone(n) \/ ((RefRecorded(n) \/ RefCreated(n)) /\ UNCHANGED cloud)
            /\ UNCHANGED <<api, kind, pc, resolved>>
    BY <1>5, TableSteps
  <2> QED BY <1>1, <1>5, <2>1, RoutesMoved
<1> QED BY <1>2, <1>3, <1>4, <1>5

-----------------------------------------------------------------------------
(* No resource is forgotten.                                               *)

\* NotFound about a route that exists would be about its table; and its table is
\* the worker's.
LEMMA RouteFound ==
    ASSUME TypeOK, LeakInv, RoutesInTable, kind = "RouteTableRoute", pc \in {"update", "delete"},
           Exists(mem.status.id)
    PROVE  Found(mem.status.id)
<1>1. pc \in NeedRefs /\ mem.status.id \in OwnIds
  BY OwnIdentity DEF NeedRefs
<1> QED BY <1>1 DEF RoutesInTable, Found

LEMMA ForgetsLeak ==
    ASSUME TypeOK, LeakInv, RoutesInTable, Forgets
    PROVE  CacheAgrees' /\ WorkerAgrees' /\ NoLeak' /\ UNCHANGED <<api, cloud, lost>>
<1>1. pc \in {"get", "update"} /\ ~Exists(mem.status.id)
  BY RouteFound DEF Forgets, GetForgotten, UpdateForgotten, Forget, Step
<1>2. /\ pc' = "writeForgotten" /\ mem' = [mem EXCEPT !.status.id = NoId, !.status.res = ""]
      /\ UNCHANGED <<api, cache, unseen, fresh, cloud, lost>>
  BY DEF Forgets, GetForgotten, UpdateForgotten, Forget, Step, objectVars, resourceVars
<1>3. mem \in Object /\ mem.status \in Status
  BY MemFacts DEF TypeOK, Object
<1>4. Like(mem', mem) /\ mem'.status.id = NoId
  BY <1>2, <1>3 DEF Like, Object, Status
<1>5. /\ ~Adopts(mem) /\ ~Adopts(api) /\ mem.fin /\ mem.fin = api.fin
      /\ mem.status.id = api.status.id /\ mem.exists
  BY <1>1 DEF LeakInv, WorkerAgrees, WellFormed, AdoptPoints, FinalizerPoints, IdentityPoints
<1>6. /\ WellFormed(mem') /\ ~Adopts(mem') /\ mem'.fin /\ ~Adopts(api')
  BY <1>2, <1>4, <1>5 DEF WellFormed, Adopts, Like
<1>7. CacheAgrees'
  BY <1>2 DEF LeakInv, CacheAgrees, WellFormed, Adopts
<1>8. ~Exists(api.status.id)'
  BY <1>1, <1>2, <1>5 DEF Exists
<1>9. WorkerAgrees'
  <2>1. /\ WellFormed(mem)' /\ mem'.fin = api'.fin
        /\ Adopts(mem)' = FALSE /\ Adopts(api)' = FALSE
    BY <1>2, <1>5, <1>6 DEF WellFormed, Adopts
  <2>2. /\ (pc \in AdoptPoints)' = FALSE /\ (pc \in IdentityPoints)' = FALSE
        /\ (pc \in CreatePoints)' = FALSE /\ (pc \in DeletePoints)' = FALSE
        /\ (pc = "removeFinalizer")' = FALSE /\ (pc = "writeResourceId")' = FALSE
    BY <1>2 DEF AdoptPoints, IdentityPoints, CreatePoints, DeletePoints
  <2>3. mem'.status.id = NoId /\ mem'.fin /\ pc' = "writeForgotten"
    BY <1>2, <1>4, <1>6
  <2> QED BY <1>8, <2>1, <2>2, <2>3 DEF WorkerAgrees
<1>10. NoLeak'
  BY <1>1, <1>2 DEF LeakInv, NoLeak, Recorded, InFlight, Exists
<1> QED BY <1>2, <1>7, <1>9, <1>10

\* Nothing is owned when status.resourceId is cleared, and the CR stays.
LEMMA WriteForgottenFacts ==
    ASSUME TypeOK, LeakInv, WriteForgotten
    PROVE  /\ Owned = {} /\ UNCHANGED <<cloud, lost>>
           /\ api.exists /\ api'.exists /\ api'.deleting = api.deleting
           /\ ~Adopts(api) /\ ~Adopts(api') /\ api'.fin /\ api'.status.id = NoId
           /\ api.status.id \in OwnIds \cup {NoId}
           /\ pc' = "idle" /\ fresh' = FALSE
           /\ WellFormed(api') /\ cache' = api /\ unseen'
<1>1. /\ ~Adopts(mem) /\ Adopts(mem) = Adopts(api) /\ mem.fin /\ api.fin
      /\ mem.status.id = NoId /\ ~Exists(api.status.id) /\ pc = "writeForgotten"
  BY DEF WriteForgotten, LeakInv, WorkerAgrees, AdoptPoints
<1>2. Owned = {}
  BY <1>1 DEF LeakInv, NoLeak, Owned, Recorded, InFlight
<1>3. api \in Object /\ mem \in Object
  BY DEF LeakInv, ReconcilerTypeOK, RuntimeTypeOK
<1>4. api' = [api EXCEPT !.status = mem.status] /\ api.exists /\ cache' = api /\ unseen'
  BY DEF WriteForgotten, PersistStatus, CacheIsCurrent
<1>5. /\ api'.exists /\ api'.deleting = api.deleting /\ api'.spec = api.spec /\ api'.fin
      /\ api'.status.id = NoId
  BY <1>1, <1>3, <1>4 DEF Object
<1>6. WellFormed(api') /\ ~Adopts(api')
  BY <1>1, <1>5 DEF WellFormed, Adopts
<1>7. api.status.id \in OwnIds \cup {NoId}
  BY <1>1 DEF LeakInv, CacheAgrees, WellFormed
<1> QED BY <1>1, <1>2, <1>4, <1>5, <1>6, <1>7 DEF WriteForgotten, Return

LEMMA WriteForgottenLeak ==
    ASSUME TypeOK, LeakInv, WriteForgotten
    PROVE  CacheAgrees' /\ WorkerAgrees' /\ NoLeak'
<1>1. CacheAgrees'
  <2>1. WellFormed(cache') /\ Adopts(cache') = Adopts(api)
    BY WriteForgottenFacts DEF LeakInv, CacheAgrees, WellFormed, Adopts
  <2> QED BY <2>1, WriteForgottenFacts DEF CacheAgrees, WellFormed, Adopts
<1>2. WorkerAgrees'
  BY WriteForgottenFacts DEF WorkerAgrees
<1>3. NoLeak'
  <2>1. \A i \in OwnIds : Exists(i)' => i \in lost'
    BY WriteForgottenFacts DEF Owned, Exists
  <2> QED BY <2>1 DEF NoLeak
<1> QED BY <1>1, <1>2, <1>3

\* The deletion of a route reaches it.
LEMMA DeleteRouteShape ==
    ASSUME TypeOK, LeakInv, RoutesInTable, kind = "RouteTableRoute", DeleteRoute
    PROVE  Shape
<1> USE DEF CallPoints, FinalizerPoints, IdentityPoints, CreatePoints, DeletePoints
<1> DEFINE id == mem.status.id
<1>1. /\ pc = "delete" /\ pc' = "removeFinalizer" /\ mem' = mem
      /\ UNCHANGED <<objectVars, queue, fresh, budget, fetched, lost>>
      /\ cloud' = [cloud EXCEPT ![id].phase = IF Found(id) THEN "gone" ELSE @]
  BY DEF DeleteRoute, Step
<1>2. id \in Ids /\ cloud \in [Ids -> Resource] /\ Variant(mem, mem) /\ fetched \in Resource
  BY <1>1, MemFacts, OwnIdentity, VariantSame DEF Ids, TypeOK, ReconcilerTypeOK, CloudTypeOK
<1>3. ~Exists(id)'
  <2>1. Exists(id) => cloud'[id].phase = "gone"
    BY <1>1, <1>2, RouteFound DEF Resource
  <2>2. ~Found(id) => cloud'[id].phase = cloud[id].phase
    BY <1>1, <1>2 DEF Resource
  <2>3. Found(id) => Exists(id)
    BY DEF Found
  <2> QED BY <1>1, <2>1, <2>2, <2>3 DEF Exists, Standing
<1>4. Onward
  BY <1>1 DEF Onward, NeedRefs
<1> QED BY <1>1, <1>2, <1>3, <1>4, DeleteRouteClouds DEF Shape, Moves

\* A route whose table has no identity is not there.
LEMMA BeginsDeleteLeak ==
    ASSUME Modes, NotMoved, TypeOK, LeakInv, RoutesInTable, BeginsDelete
    PROVE  CacheAgrees' /\ WorkerAgrees' /\ NoLeak' /\ UNCHANGED <<api, cloud, lost>>
<1>1. Observed(cache) \in Object /\ Like(Observed(cache), cache)
      /\ Observed(cache).status.id = cache.status.id /\ cache \in Object /\ api \in Object
  BY CacheType, ObservedChange DEF TypeOK, ReconcilerTypeOK, RuntimeTypeOK
<1>2. PICK at \in {"delete", "removeFinalizer"} :
          /\ Dequeue(Observed(cache), at)
          /\ at = "delete" => cache.status.id # NoId
          /\ at = "removeFinalizer" => cache.status.id = NoId \/ TableOf(cache) \notin RefIds
  BY DEF BeginsDelete, ReconcileDeleteRoute
<1>3. cache.exists /\ cache.deleting /\ cache.fin /\ ~Adopts(cache) /\ UNCHANGED resourceVars
  BY <1>1, SpecFacts DEF BeginsDelete, ReconcileDeleteRoute, Reconciles
<1>4. cache.status.id \in OwnIds \cup {NoId}
  BY <1>3 DEF LeakInv, CacheAgrees, WellFormed
<1>5. at = "removeFinalizer" => cache.status.id = NoId \/ ~Exists(cache.status.id)
  BY <1>1, <1>2, <1>4, TableFacts DEF RoutesInTable, BeginsDelete
<1>6. at \in ProgramPoints /\ at \notin AdoptPoints /\ at \notin CreatePoints
      /\ at \notin {"writeResourceId", "writeForgotten"}
  BY DEF ProgramPoints, AdoptPoints, CreatePoints
<1>7. CacheAgrees' /\ WorkerAgrees' /\ NoLeak'
  BY <1>1, <1>2, <1>3, <1>5, <1>6, DequeueLeak DEF IdentityPoints
<1> QED BY <1>2, <1>3, <1>7 DEF Dequeue, objectVars, resourceVars

LEMMA OthersLeak ==
    ASSUME TypeOK, LeakInv, OtherSideRejects \/ TablesGo
    PROVE  CacheAgrees' /\ WorkerAgrees' /\ NoLeak' /\ Effect
<1>1. UNCHANGED <<objectVars, pc, mem, fresh, lost>> /\ OnlyRemoves
  BY OthersClouds DEF OtherSideRejects, TablesGo, TableGone, runtimeVars, workerVars
<1> QED BY <1>1, CloudLeak DEF Effect, Removes, objectVars

LEMMA NextLeak ==
    ASSUME Modes, NotMoved, TypeOK, LeakInv, RoutesInTable, [Next]_vars
    PROVE  LeakInv' /\ (Effect \/ WriteForgotten)
<1>1. CASE Form \/ UNCHANGED vars
  BY <1>1, FormLeak, FormEffect, StutterLeak DEF TypeOK
<1>2. CASE Own
  <2>1. ReconcilerTypeOK'
    BY NextType DEF TypeOK, DependentTypeOK
  <2>2. CASE Forgets \/ BeginsDelete
    BY <2>1, <2>2, ForgetsLeak, BeginsDeleteLeak, QuietEffect DEF LeakInv
  <2>3. CASE WriteForgotten
    BY <2>1, <2>3, WriteForgottenLeak DEF LeakInv
  <2>4. CASE kind = "RouteTableRoute" /\ DeleteRoute
    BY <2>1, <2>4, DeleteRouteShape, ShapeLeak, ShapeEffect DEF LeakInv
  <2>5. CASE OtherSideRejects \/ TablesGo
    BY <2>1, <2>5, OthersLeak DEF LeakInv
  <2> QED BY <1>2, <2>2, <2>3, <2>4, <2>5 DEF Own, ForgetsOrLeaves
<1> QED BY <1>1, <1>2, NextForm

LEMMA NextRecreating ==
    ASSUME Modes, NotMoved, TypeOK, RecreatingInv, [Next]_vars
    PROVE  RecreatingInv'
<1>1. LeakInv /\ LifecycleInv /\ RefsDistinct /\ RoutesInTable
  BY DEF RecreatingInv, LifecycleInv
<1>2. LeakInv' /\ (Effect \/ WriteForgotten)
  BY <1>1, NextLeak
<1>3. WriteForgotten => HandedOut'
  BY <1>1, WriteForgottenFacts DEF LifecycleInv, HandedOut
<1>4. LifecycleInv'
  BY <1>1, <1>2, <1>3, EffectHandedOut DEF LifecycleInv
<1> QED BY <1>1, <1>4, DistinctKept, NextRoutes DEF RecreatingInv

LEMMA WriteForgottenRefines ==
    ASSUME TypeOK, LeakInv, WriteForgotten
    PROVE  /\ UNCHANGED Lifecycle!vars
           /\ [Reference!Next \/ Reference!Forget]_Shown
<1>1. Owned' = Owned /\ Strays' = Strays
  BY WriteForgottenFacts, ObjectOnly
<1>2. Holding' = Holding
  BY <1>1, WriteForgottenFacts DEF Holding
<1>3. Stage' = Stage
  BY WriteForgottenFacts DEF Stage
<1>4. Shown = api.status.id /\ Shown' = NoId
  BY WriteForgottenFacts DEF Shown
<1>5. [Reference!Next \/ Reference!Forget]_Shown
  BY <1>4, WriteForgottenFacts DEF Reference!Forget
<1> QED BY <1>1, <1>2, <1>3, <1>5 DEF Lifecycle!vars

LEMMA InitRecreating == Init => RecreatingInv
<1> SUFFICES ASSUME Init PROVE RecreatingInv
  OBVIOUS
<1>1. LifecycleInv /\ pc = "idle" /\ LeakInv
  BY InitDependent DEF Init, DependentInit, ReconcilerInit, RuntimeInit, LifecycleInv
<1>2. RefsDistinct
  BY RefsAssumption DEF Init, DependentInit, RefsInit, RefsDistinct, RefsKnown, RefIds
<1>3. \A i \in OwnIds : ~Exists(i)
  BY IdsAssumption DEF Init, DependentInit, ReconcilerInit, CloudInit, Exists, Ids, Standing
<1>4. RoutesInTable
  BY <1>1, <1>3 DEF RoutesInTable, NeedRefs
<1> QED BY <1>1, <1>2, <1>4 DEF RecreatingInv

-----------------------------------------------------------------------------
(* The theorems.  What Modes is for is in ReconcilerProofs; NotMoved       *)
(* is needed: the run route_moved shows a route forgotten without it.      *)

(* Every route there is is in the table the CR names, whatever becomes of   *)
(* the object of that table meanwhile (deleted, recreated under its name,   *)
(* or given another identity), and at every call of the worker.             *)
THEOREM RoutesInvariant == NotMoved => (Spec => [](RefsDistinct /\ RoutesInTable))
<1> SUFFICES ASSUME NotMoved PROVE Spec => [](RefsDistinct /\ RoutesInTable)
  OBVIOUS
<1>1. Init => RefsDistinct /\ RoutesInTable
  BY InitRecreating DEF RecreatingInv
<1>2. TypeOK /\ RefsDistinct /\ RoutesInTable /\ [Next]_vars => (RefsDistinct /\ RoutesInTable)'
  BY DistinctKept, NextRoutes
<1> QED BY <1>1, <1>2, TypeCorrect, PTL DEF Spec

(* No target group, route or peering is forgotten, though status.resourceId *)
(* is cleared when Thalassa answers NotFound, and though NotFound about a   *)
(* route may be about its table.                                            *)
THEOREM RecreatingInvariant == Modes /\ NotMoved => (Spec => []RecreatingInv)
<1> SUFFICES ASSUME Modes, NotMoved PROVE Spec => []RecreatingInv
  OBVIOUS
<1>1. Init => RecreatingInv
  BY InitRecreating
<1>2. TypeOK /\ RecreatingInv /\ [Next]_vars => RecreatingInv'
  BY NextRecreating
<1> QED BY <1>1, <1>2, TypeCorrect, PTL DEF Spec

(* A CR never has two resources in Thalassa but for those lost, although    *)
(* the second is created when the first is found gone.                      *)
THEOREM NeverTwo == Modes /\ NotMoved => (Spec => []OnePerCR)
<1> SUFFICES ASSUME Modes, NotMoved PROVE Spec => []OnePerCR
  OBVIOUS
<1>1. RecreatingInv => OnePerCR
  BY LeakOne DEF RecreatingInv, LifecycleInv
<1> QED BY <1>1, RecreatingInvariant, PTL

(* Every step of the three reconcilers is one of ManagedResource: what is   *)
(* cleared from the status is only ever the identity of nothing.            *)
THEOREM Lifecycles == Modes /\ NotMoved => (Spec => ImplementsLifecycle)
<1> SUFFICES ASSUME Modes, NotMoved PROVE Spec => ImplementsLifecycle
  OBVIOUS
<1>1. Init => Lifecycle!Init
  BY InitLifecycle DEF Init, DependentInit
<1>2. TypeOK /\ RecreatingInv /\ [Next]_vars => [Lifecycle!Next]_(Lifecycle!vars)
  BY NextLeak, EffectLifecycle, WriteForgottenRefines DEF RecreatingInv, LifecycleInv
<1> QED
  BY <1>1, <1>2, TypeCorrect, RecreatingInvariant, PTL DEF Spec, ImplementsLifecycle, Lifecycle!Spec

(* What the others read of a target group is written once, taken back when  *)
(* Thalassa no longer has it, and never replaced at once by another: what   *)
(* Dependencies assumes of the objects in Recreated.                        *)
THEOREM WrittenAgain == Modes /\ NotMoved => (Spec => ImplementsRecreatedReference)
<1> SUFFICES ASSUME Modes, NotMoved PROVE Spec => ImplementsRecreatedReference
  OBVIOUS
<1>1. Init => Reference!Init
  BY InitLifecycle DEF Init, DependentInit
<1>2. TypeOK /\ RecreatingInv /\ [Next]_vars => [Reference!Next \/ Reference!Forget]_Shown
  BY NextLeak, EffectReference, WriteForgottenRefines DEF RecreatingInv, LifecycleInv
<1> QED
  BY <1>1, <1>2, TypeCorrect, RecreatingInvariant, PTL
     DEF Spec, ImplementsRecreatedReference, Reference!RecreatedSpec
===============================================================================
