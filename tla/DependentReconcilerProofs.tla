---------------------- MODULE DependentReconcilerProofs ----------------------
(***************************************************************************)
(* Lemmas about DependentReconciler: what resolving a list of references   *)
(* answers, and the few shapes the steps of the kinds have.  A shape says  *)
(* of a step all that the invariants and the abstract specifications need: *)
(* so the proofs about a kind only have to find the shape of each of its   *)
(* actions.                                                                *)
(***************************************************************************)
EXTENDS DependentReconciler, ReconcilerRestProofs, SequenceTheorems

-----------------------------------------------------------------------------
(* References.                                                             *)

LEMMA SpecFacts ==
    ASSUME NEW obj \in Object
    PROVE  /\ obj.spec \in Specs /\ ~Adopts(obj) /\ obj.spec.valid
           /\ obj.spec.parents \in Seq(Names \cup RefIds) /\ Len(obj.spec.parents) = 2
           /\ obj.spec.members \in SeqOf(Names \cup RefIds, MaxRefs)
           /\ obj.spec.meta \in Metas
BY DependentAssumption DEF Object, Adopts

LEMMA BoundedIsSeq ==
    ASSUME NEW S, NEW s \in SeqOf(S, MaxRefs)
    PROVE  s \in Seq(S)
BY DependentAssumption DEF SeqOf

LEMMA EmptyBounded ==
    ASSUME NEW S
    PROVE  <<>> \in SeqOf(S, MaxRefs)
<1>1. <<>> \in [1 .. 0 -> S] /\ 0 \in 0 .. MaxRefs
  BY DependentAssumption
<1> QED BY <1>1 DEF SeqOf

LEMMA BoundedMonotone ==
    ASSUME NEW S, NEW T, S \subseteq T
    PROVE  SeqOf(S, MaxRefs) \subseteq SeqOf(T, MaxRefs)
BY DEF SeqOf

\* A kind has at most two references of one each.
LEMMA ReasonsFacts ==
    ASSUME kind \in Kinds
    PROVE  /\ ParentReasons[kind] \in Seq(NotFoundReasons) /\ Len(ParentReasons[kind]) \in 0 .. 2
           /\ kind = "Loadbalancer" => Len(ParentReasons[kind]) = 2
           /\ kind \in DOMAIN MemberReasons => MemberReasons[kind] \in NotFoundReasons
<1>1. kind \in {"BlockVolume", "Snapshot", "SnapshotPolicy", "TfsInstance", "SecurityGroup",
                "RouteTable", "NatGateway", "Loadbalancer", "TargetGroup", "RouteTableRoute",
                "VpcPeeringConnection"}
  BY KindsAssumption DEF ParentReasons
<1>2. ParentReasons[kind] \in {<<>>, <<"VolumeNotFound">>, <<"VPCNotFound", "SubnetNotFound">>,
                              <<"VPCNotFound">>, <<"SubnetNotFound">>,
                              <<"SubnetNotFound", "TargetGroupNotFound">>,
                              <<"RouteTableNotFound">>, <<"RequesterVPCNotFound">>}
  BY <1>1 DEF ParentReasons
<1>3. kind = "Loadbalancer" => ParentReasons[kind] = <<"SubnetNotFound", "TargetGroupNotFound">>
  BY DEF ParentReasons
<1>4. ParentReasons[kind] \in Seq(NotFoundReasons) /\ Len(ParentReasons[kind]) \in 0 .. 2
  <2>1. {"VolumeNotFound", "VPCNotFound", "SubnetNotFound", "TargetGroupNotFound",
         "RouteTableNotFound", "RequesterVPCNotFound"} \subseteq NotFoundReasons
    BY DEF NotFoundReasons
  <2>2. CASE ParentReasons[kind] = <<>>
    BY <2>2, EmptySeq
  <2>3. CASE ParentReasons[kind] = <<"VolumeNotFound">>
    BY <2>1, <2>3
  <2>4. CASE ParentReasons[kind] = <<"VPCNotFound", "SubnetNotFound">>
    BY <2>1, <2>4
  <2>5. CASE ParentReasons[kind] = <<"VPCNotFound">>
    BY <2>1, <2>5
  <2>6. CASE ParentReasons[kind] = <<"SubnetNotFound">>
    BY <2>1, <2>6
  <2>7. CASE ParentReasons[kind] = <<"SubnetNotFound", "TargetGroupNotFound">>
    BY <2>1, <2>7
  <2>8. CASE ParentReasons[kind] = <<"RouteTableNotFound">>
    BY <2>1, <2>8
  <2>9. CASE ParentReasons[kind] = <<"RequesterVPCNotFound">>
    BY <2>1, <2>9
  <2> QED BY <1>2, <2>2, <2>3, <2>4, <2>5, <2>6, <2>7, <2>8, <2>9
<1>5. kind \in DOMAIN MemberReasons =>
          MemberReasons[kind] \in {"VolumeNotFound", "SecurityGroupNotFound", "TargetGatewayNotFound"}
  BY <1>1 DEF MemberReasons
<1> QED BY <1>3, <1>4, <1>5 DEF NotFoundReasons

LEMMA ParentRefsFacts ==
    ASSUME kind \in Kinds, NEW obj \in Object
    PROVE  /\ ParentRefs(obj) \in Seq(Names \cup RefIds)
           /\ ParentRefs(obj) \in SeqOf(Names \cup RefIds, MaxRefs)
           /\ Len(ParentRefs(obj)) <= Len(ParentReasons[kind])
           /\ ParentRefs(obj) = <<>> <=> ParentReasons[kind] = <<>>
           /\ kind = "Loadbalancer" => ParentRefs(obj) # <<>>
           /\ ParentRefs(obj) # <<>> => ParentRefs(obj)[1] = obj.spec.parents[1]
<1> DEFINE n == IF kind = "Loadbalancer" /\ obj.status.id # NoId THEN 1
                ELSE Len(ParentReasons[kind])
<1>1. n \in 0 .. 2 /\ n <= Len(ParentReasons[kind]) /\ (n = 0 <=> ParentReasons[kind] = <<>>)
      /\ (kind = "Loadbalancer" => n # 0)
  BY ReasonsFacts
<1>2. ParentRefs(obj) = SubSeq(obj.spec.parents, 1, n)
  BY DEF ParentRefs
<1> HIDE DEF n
<1>3. /\ ParentRefs(obj) \in Seq(Names \cup RefIds) /\ Len(ParentRefs(obj)) = n
      /\ \A k \in 1 .. n : ParentRefs(obj)[k] = obj.spec.parents[k]
  <2>1. \A k \in 1 .. n : obj.spec.parents[k] \in Names \cup RefIds
    BY <1>1, SpecFacts
  <2> QED BY <1>1, <1>2, <2>1, SubSeqProperties
<1>4. ParentRefs(obj) \in [1 .. n -> Names \cup RefIds] /\ n \in 0 .. MaxRefs
  BY <1>1, <1>3, DependentAssumption
<1>5. ParentRefs(obj) \in SeqOf(Names \cup RefIds, MaxRefs)
  BY <1>4 DEF SeqOf
<1> QED BY <1>1, <1>3, <1>5

LEMMA MemberRefsFacts ==
    ASSUME NEW obj \in Object
    PROVE  /\ MemberRefs(obj.spec) \in SeqOf(Names \cup RefIds, MaxRefs)
           /\ MemberRefs(obj.spec) \in Seq(Names \cup RefIds)
           /\ kind \notin DOMAIN MemberReasons => MemberRefs(obj.spec) = <<>>
BY SpecFacts, EmptyBounded, BoundedIsSeq DEF MemberRefs

LEMMA InOrderFacts ==
    ASSUME NEW S, NEW parents \in Seq(S), NEW members \in Seq(S),
           kind = "Loadbalancer" => parents # <<>>
    PROVE  /\ InOrder(parents, members) \in Seq(S)
           /\ Len(InOrder(parents, members)) = Len(parents) + Len(members)
<1>1. CASE kind # "Loadbalancer"
  BY <1>1, ConcatProperties DEF InOrder
<1>2. CASE kind = "Loadbalancer"
  <2>1. /\ <<parents[1]>> \in Seq(S) /\ Len(<<parents[1]>>) = 1
        /\ Tail(parents) \in Seq(S) /\ Len(Tail(parents)) = Len(parents) - 1
    BY <1>2, HeadTailProperties, EmptySeq
  <2>2. /\ <<parents[1]>> \o members \in Seq(S)
        /\ Len(<<parents[1]>> \o members) = 1 + Len(members)
    BY <2>1, ConcatProperties
  <2> QED BY <1>2, <2>1, <2>2, ConcatProperties DEF InOrder
<1> QED BY <1>1, <1>2

\* What a reported missing reference writes into the Error condition is a text.
LEMMA NotFoundTexts ==
    ASSUME kind \in Kinds, NEW obj \in Object, NEW k \in FirstUnresolved(obj, Missing)
    PROVE  /\ NotFoundReason(obj, k) \in NotFoundReasons /\ NotFoundReason(obj, k) \in Texts
           /\ AllRefs(obj)[k] \in Texts /\ k \in DOMAIN AllRefs(obj)
<1> DEFINE reasons == SubSeq(ParentReasons[kind], 1, Len(ParentRefs(obj)))
           same == [m \in DOMAIN MemberRefs(obj.spec) |-> MemberReasons[kind]]
<1>1. /\ AllRefs(obj) \in Seq(Names \cup RefIds)
      /\ Len(AllRefs(obj)) = Len(ParentRefs(obj)) + Len(MemberRefs(obj.spec))
  BY InOrderFacts, ParentRefsFacts, MemberRefsFacts DEF AllRefs
<1>2. k \in 1 .. Len(AllRefs(obj)) /\ ResolveRef(AllRefs(obj)[k]) = Missing
  BY <1>1 DEF FirstUnresolved
<1>3. AllRefs(obj)[k] \in Names
  BY <1>1, <1>2, RefsAssumption DEF ResolveRef
<1>4. reasons \in Seq(NotFoundReasons) /\ Len(reasons) = Len(ParentRefs(obj))
      /\ (kind = "Loadbalancer" => reasons # <<>>)
  <2>1. Len(ParentRefs(obj)) \in 0 .. Len(ParentReasons[kind])
        /\ (kind = "Loadbalancer" => Len(ParentRefs(obj)) # 0)
    BY ReasonsFacts, ParentRefsFacts, EmptySeq
  <2>2. \A i \in 1 .. Len(ParentRefs(obj)) : ParentReasons[kind][i] \in NotFoundReasons
    BY <2>1, ReasonsFacts
  <2> QED BY <2>1, <2>2, SubSeqProperties
<1>5. same \in Seq(NotFoundReasons) /\ Len(same) = Len(MemberRefs(obj.spec))
  <2>1. DOMAIN MemberRefs(obj.spec) = 1 .. Len(MemberRefs(obj.spec))
        /\ Len(MemberRefs(obj.spec)) \in Nat
    BY MemberRefsFacts
  <2>2. \A m \in DOMAIN MemberRefs(obj.spec) : MemberReasons[kind] \in NotFoundReasons
    BY <2>1, ReasonsFacts, MemberRefsFacts
  <2> QED BY <2>1, <2>2
<1>6. NotFoundReason(obj, k) = InOrder(reasons, same)[k]
  BY DEF NotFoundReason
<1> HIDE DEF reasons, same
<1>7. InOrder(reasons, same) \in Seq(NotFoundReasons) /\ Len(InOrder(reasons, same)) = Len(AllRefs(obj))
  <2>1. InOrder(reasons, same) \in Seq(NotFoundReasons)
        /\ Len(InOrder(reasons, same)) = Len(reasons) + Len(same)
    BY <1>4, <1>5, InOrderFacts
  <2> QED BY <1>1, <1>4, <1>5, <2>1
<1>8. NotFoundReason(obj, k) \in NotFoundReasons
  BY <1>2, <1>6, <1>7
<1>9. k \in DOMAIN AllRefs(obj) /\ NotFoundReasons \subseteq Texts
  BY DependentReasonsAssumption DEF FirstUnresolved, NotFoundReasons
<1> QED BY <1>3, <1>8, <1>9, DependentReasonsAssumption

\* Once all are resolved, what is kept of them are identities.
LEMMA ResolveFacts ==
    ASSUME NEW list \in SeqOf(Names \cup RefIds, MaxRefs),
           \A ref \in Range(list) : ResolveRef(ref) \in RefIds
    PROVE  /\ Resolve(list) \in SeqOf(RefIds, MaxRefs)
           /\ Resolve(list) = <<>> <=> list = <<>>
<1>1. PICK m \in 0 .. MaxRefs : list \in [1 .. m -> Names \cup RefIds]
  BY DEF SeqOf
<1>2. \A k \in 1 .. m : ResolveRef(list[k]) \in RefIds
  BY <1>1 DEF Range
<1>3. Resolve(list) \in [1 .. m -> RefIds]
  BY <1>1, <1>2 DEF Resolve
<1>4. Resolve(list) \in SeqOf(RefIds, MaxRefs)
  BY <1>3 DEF SeqOf
<1>5. list \in Seq(Names \cup RefIds) /\ Resolve(list) \in Seq(RefIds)
  BY <1>4, BoundedIsSeq
<1>6. Len(list) = m /\ Len(Resolve(list)) = m
  BY <1>1, <1>3, <1>5, DependentAssumption
<1> QED BY <1>4, <1>5, <1>6

LEMMA KeepRefsType ==
    ASSUME kind \in Kinds, cache \in Object, AllResolved(cache), KeepRefs
    PROVE  /\ resolved' \in [parents : SeqOf(RefIds, MaxRefs), members : SeqOf(RefIds, MaxRefs)]
           /\ ParentReasons[kind] # <<>> => resolved'.parents # <<>>
<1>1. /\ Resolve(ParentRefs(cache)) \in SeqOf(RefIds, MaxRefs)
      /\ Resolve(MemberRefs(cache.spec)) \in SeqOf(RefIds, MaxRefs)
      /\ Resolve(ParentRefs(cache)) = <<>> <=> ParentReasons[kind] = <<>>
  BY ParentRefsFacts, MemberRefsFacts, ResolveFacts DEF AllResolved
<1> QED BY <1>1 DEF KeepRefs

-----------------------------------------------------------------------------
(* Changes to the status that leave the identity alone.                    *)

Variant(a, b) == a \in Object /\ Like(a, b) /\ a.status.id = b.status.id

LEMMA VariantSame == ASSUME NEW obj \in Object PROVE Variant(obj, obj)
BY DEF Variant, Like

LEMMA VariantAgain ==
    ASSUME NEW a, NEW b, NEW c, Variant(a, b), Variant(b, c)
    PROVE  Variant(a, c)
BY DEF Variant, Like

LEMMA VariantConditions ==
    ASSUME NEW obj \in Object, NEW conds \in Conditions
    PROVE  Variant([obj EXCEPT !.status.conds = conds], obj)
BY ConditionsChange DEF Variant

LEMMA VariantReported ==
    ASSUME NEW obj \in Object, NEW reason \in Texts
    PROVE  /\ Variant(SetAvailable(obj, reason), obj)
           /\ Variant(SetDegraded(obj, reason), obj)
           /\ Variant(SetProgressing(obj, reason), obj)
<1>1. obj.status.conds \in Conditions
  BY DEF Object, Status
<1> QED
  BY <1>1, StandardConditionsType, VariantConditions
     DEF SetAvailable, SetDegraded, SetProgressing

LEMMA VariantObserved == ASSUME NEW obj \in Object PROVE Variant(Observed(obj), obj)
BY ObservedChange DEF Variant

LEMMA VariantError ==
    ASSUME NEW obj \in Object, NEW reason \in Texts, NEW message \in Texts, NEW err \in Texts
    PROVE  Variant(SetErrorCondition(obj, reason, message, err), obj)
BY ErrorChange DEF Variant

LEMMA VariantStatus ==
    ASSUME NEW obj \in Object, NEW res \in Phases
    PROVE  /\ Variant([obj EXCEPT !.status.res = res], obj)
           /\ Variant([obj EXCEPT !.status.err = NoError], obj)
           /\ Variant([obj EXCEPT !.status.res = res, !.status.err = NoError], obj)
BY TextsAssumption DEF Variant, Like, Object, Status, NoError

-----------------------------------------------------------------------------
(* The shapes.                                                             *)

CallPoints == FinalizerPoints \ {"writeResourceId", "removeFinalizer"}

\* Entered only where the references, the identity or its absence are known.
Onward ==
    /\ pc' \in IdentityPoints => pc \in IdentityPoints \/ mem.status.id # NoId
    /\ pc' \in CreatePoints => pc \in CreatePoints \/ mem.status.id = NoId
    /\ pc' \in DeletePoints => pc \in DeletePoints
    /\ pc' \in NeedRefs => pc \in NeedRefs

\* A call to Thalassa, whose answer leads to another point.
Moves ==
    /\ pc \in CallPoints /\ pc' \in CallPoints \cup {"writeError", "removeFinalizer"}
    /\ Onward
    /\ pc' = "removeFinalizer" => ~Exists(mem.status.id)'
    /\ Variant(mem', mem)
    /\ UNCHANGED <<objectVars, queue, lost>>
    /\ UNCHANGED budget \/ Spend("faults")
    /\ fresh' \in {fresh, FALSE} /\ fetched' \in Resource
    /\ CloudTypeOK' /\ OnlyRemoves

\* A status write that leads to another point.
Writes ==
    /\ \/ pc \in IdentityPoints \cup {"writeResourceId"} /\ pc' \in IdentityPoints \ DeletePoints
       \/ pc = "writeCreating" /\ pc' = "listVolumeTypes"
    /\ pc' \in NeedRefs => pc \in NeedRefs
    /\ PersistStatus
    /\ Variant(mem', mem)
    /\ fresh' = FALSE /\ fetched' \in Resource
    /\ UNCHANGED <<queue, cloud, lost>>

\* The end of a reconcile, with a last status write or without.
Ends ==
    /\ \E requeue \in {"empty", "waiting", "ready"} : Return(requeue)
    /\ \/ PersistStatus
       \/ pc # "writeResourceId" /\ UNCHANGED objectVars /\ (UNCHANGED budget \/ Spend("faults"))
    /\ pc \in FinalizerPoints
    /\ fetched' \in Resource
    /\ UNCHANGED <<cloud, lost>>

\* The creation, answered.
Given ==
    /\ pc = "create" /\ pc' = "writeResourceId"
    /\ \E i \in OwnIds, cfg \in Cfgs, phase \in Standing :
           /\ CloudCreateIn(i, cfg, phase)
           /\ mem' \in Object /\ Like(mem', mem) /\ mem'.status.id = i
    /\ UNCHANGED <<objectVars, queue, fresh, budget, fetched, lost>>

\* What the lemmas about Reconciler say already.
Shared ==
    \/ \E cfg \in Cfgs : Create(cfg) \/ Sync(FALSE, FALSE, cfg)
    \/ WriteUpdated("refetch") \/ Delete \/ WriteError \/ StatusWriteFails

Shape == Moves \/ Writes \/ Ends \/ Given \/ Shared

LEMMA NewCloudType ==
    ASSUME ReconcilerTypeOK, NEW i, NEW cfg \in Cfgs, NEW phase \in Phases,
           cloud' = [cloud EXCEPT ![i] = [phase |-> phase, cfg |-> cfg]]
    PROVE  CloudTypeOK'
BY DEF ReconcilerTypeOK, CloudTypeOK, Resource

LEMMA SharedType == ASSUME ReconcilerTypeOK, Shared PROVE ReconcilerTypeOK'
BY CreateType, SyncType, WriteUpdatedType, DeleteType, StatusWriteType DEF Shared

LEMMA ShapeType == ASSUME ReconcilerTypeOK, Shape PROVE ReconcilerTypeOK'
<1> USE DEF AdoptPoints, DeletePoints, FinalizerPoints, IdentityPoints, CreatePoints, CallPoints
<1>1. CASE Moves
  <2>1. pc' \in ProgramPoints
    BY <1>1 DEF Moves, ProgramPoints, StatusWrites
  <2>2. budget' \in [Interferences -> Nat]
    BY <1>1, SpendType DEF Moves, Interferences, ReconcilerTypeOK, RuntimeTypeOK
  <2> QED
    BY <1>1, <2>1, <2>2 DEF Moves, Variant, ReconcilerTypeOK, RuntimeTypeOK, objectVars
<1>2. CASE Writes
  <2>1. pc' \in ProgramPoints
    BY <1>2 DEF Writes, ProgramPoints, StatusWrites
  <2>2. api' \in Object /\ cache' \in Object /\ unseen' \in BOOLEAN
        /\ budget' \in [Interferences -> Nat]
    BY <1>2, PersistType DEF Writes
  <2> QED
    BY <1>2, <2>1, <2>2 DEF Writes, Variant, ReconcilerTypeOK, RuntimeTypeOK, CloudTypeOK
<1>3. CASE Ends
  <2>1. pc' \in ProgramPoints /\ fresh' = FALSE /\ mem' \in Object
        /\ queue' \in {"empty", "waiting", "ready"}
    BY <1>3, ReturnType DEF Ends, ProgramPoints
  <2>2. api' \in Object /\ cache' \in Object /\ unseen' \in BOOLEAN
        /\ budget' \in [Interferences -> Nat]
    BY <1>3, PersistType, SpendType
       DEF Ends, Interferences, ReconcilerTypeOK, RuntimeTypeOK, objectVars
  <2> QED
    BY <1>3, <2>1, <2>2 DEF Ends, ReconcilerTypeOK, RuntimeTypeOK, CloudTypeOK
<1>4. CASE Given
  <2>1. CloudTypeOK'
    BY <1>4, NewCloudType DEF Given, CloudCreateIn, Phases
  <2>2. mem' \in Object /\ pc' \in ProgramPoints
    BY <1>4 DEF Given, ProgramPoints, StatusWrites
  <2> QED BY <1>4, <2>1, <2>2 DEF Given, ReconcilerTypeOK, RuntimeTypeOK, objectVars
<1>5. CASE Shared
  BY <1>5, SharedType
<1> QED BY <1>1, <1>2, <1>3, <1>4, <1>5 DEF Shape

LEMMA SharedLeak ==
    ASSUME LeakInv, Shared
    PROVE  CacheAgrees' /\ WorkerAgrees' /\ NoLeak'
BY CreateLeak, SyncLeak, WriteUpdatedLeak, DeleteLeak, WriteErrorLeak, FailureLeak DEF Shared

LEMMA ShapeLeak ==
    ASSUME LeakInv, Shape
    PROVE  CacheAgrees' /\ WorkerAgrees' /\ NoLeak'
<1> USE DEF AdoptPoints, DeletePoints, FinalizerPoints, IdentityPoints, CreatePoints, CallPoints
<1>1. CASE Moves
  <2>1. mem.status.id = NoId => api.status.id = NoId
    BY <1>1 DEF Moves, LeakInv, WorkerAgrees
  <2>2. \A i \in OwnIds : ~(Exists(i)' /\ ~Exists(i))
    BY <1>1 DEF Moves, OnlyRemoves, Ids
  <2>3. /\ pc \notin {"idle", "writeResourceId", "writeForgotten"} \cup AdoptPoints
        /\ pc' \notin {"idle", "writeResourceId", "writeForgotten"} \cup AdoptPoints
        /\ pc \in FinalizerPoints
    BY <1>1 DEF Moves
  <2>4. /\ pc' \in IdentityPoints => pc \in IdentityPoints \/ mem.status.id # NoId
        /\ pc' \in CreatePoints => pc \in CreatePoints \/ api.status.id = NoId
        /\ pc' \in DeletePoints => pc \in DeletePoints
        /\ pc' = "removeFinalizer" => ~Exists(mem.status.id)'
    BY <1>1, <2>1 DEF Moves, Onward
  <2>5. /\ UNCHANGED <<api, cache, unseen>> /\ fresh' \in {fresh, FALSE} /\ lost \subseteq lost'
        /\ Like(mem', mem) /\ mem'.status.id = mem.status.id
    BY <1>1 DEF Moves, Variant, objectVars
  <2> HIDE DEF AdoptPoints, DeletePoints, FinalizerPoints, IdentityPoints, CreatePoints, CallPoints
  <2> QED BY <2>2, <2>3, <2>4, <2>5, StepLeak
<1>2. CASE Writes
  BY <1>2, PersistAndGoLeak DEF Writes, Variant
<1>3. CASE Ends
  <2>1. PICK requeue \in {"empty", "waiting", "ready"} : Return(requeue)
    BY <1>3 DEF Ends
  <2>2. CASE PersistStatus
    BY <1>3, <2>1, <2>2, PersistAndReturnLeak DEF Ends
  <2>3. CASE ~PersistStatus
    <3>1. \A i \in OwnIds : ~(Exists(i)' /\ ~Exists(i))
      BY <1>3 DEF Ends, Exists, Standing
    <3> QED BY <1>3, <2>1, <2>3, <3>1, ReturnLeak DEF Ends, InFlight
  <2> QED BY <2>2, <2>3
<1>4. CASE Given
  <2>1. PICK i \in OwnIds, cfg \in Cfgs, phase \in Standing :
            CloudCreateIn(i, cfg, phase) /\ Like(mem', mem) /\ mem'.status.id = i
    BY <1>4 DEF Given
  <2> QED BY <1>4, <2>1, CreatedLeak DEF Given, objectVars
<1>5. CASE Shared
  BY <1>5, SharedLeak
<1> QED BY <1>1, <1>2, <1>3, <1>4, <1>5 DEF Shape

LEMMA SharedEffect == ASSUME LeakInv, Shared PROVE Effect
BY CreateEffect, SyncEffect, WriteUpdatedEffect, DeleteEffect, FailureEffect DEF Shared

LEMMA ShapeEffect == ASSUME LeakInv, Shape PROVE Effect
<1>1. CASE Moves
  BY <1>1 DEF Moves, Effect, Removes, objectVars
<1>2. CASE Writes
  BY <1>2 DEF Writes, Effect, Persists, IdentityPoints
<1>3. CASE Ends
  <2>1. CASE PersistStatus
    BY <1>3, <2>1
       DEF Ends, Effect, Persists, FinalizerPoints, IdentityPoints, CreatePoints, DeletePoints
  <2>2. CASE ~PersistStatus
    BY <1>3, <2>2, QuietEffect DEF Ends, objectVars
  <2> QED BY <2>1, <2>2
<1>4. CASE Given
  <2>1. PICK i \in OwnIds, cfg \in Cfgs, phase \in Standing :
            CloudCreateIn(i, cfg, phase) /\ mem'.status.id = i
    BY <1>4 DEF Given
  <2> QED BY <1>4, <2>1, CreatedEffect DEF Given, objectVars
<1>5. CASE Shared
  BY <1>5, SharedEffect
<1> QED BY <1>1, <1>2, <1>3, <1>4, <1>5 DEF Shape

\* The identities of the references are needed up to a point and not again.
LEMMA SharedRefs == ASSUME Shared, pc' \in NeedRefs PROVE pc \in NeedRefs
<1> USE DEF NeedRefs
<1>1. ASSUME NEW cfg \in Cfgs, Create(cfg) PROVE pc \in NeedRefs
  BY <1>1 DEF Create, WriteCreating, CreateResource, CreateResourceFails, WriteResourceId,
              WaitCreated, WaitCreatedFails, WriteCreated, PersistAndGo, Step, ReportError,
              ReturnError, Done, Return
<1>2. ASSUME NEW cfg \in Cfgs, Sync(FALSE, FALSE, cfg) PROVE pc \in NeedRefs
  BY <1>2 DEF Sync, GetResource, GetNotFound, GetFails, WriteNotFound, WriteResourceStatus,
              WriteUpdating, UpdateResource, Refetch, WriteRefetched, WriteSynced, SyncSpec,
              PersistAndGo, Step, ReportError, Done, Return
<1>3. CASE Delete
  BY <1>3 DEF Delete, DeleteResource, DeleteResourceFails, WaitDeleted, WaitDeletedFails,
              RemoveFinalizer, UpdateObjectFails, Step, ReturnError, Done, Return
<1>4. CASE WriteUpdated("refetch") \/ WriteError \/ StatusWriteFails
  BY <1>4 DEF WriteUpdated, PersistAndGo, Step, WriteError, StatusWriteFails, GiveUp, Return
<1> QED BY <1>1, <1>2, <1>3, <1>4 DEF Shared

LEMMA ShapeRefs == ASSUME Shape, pc' \in NeedRefs PROVE pc \in NeedRefs
<1>1. CASE Ends \/ Given
  BY <1>1 DEF Ends, Given, Return, NeedRefs
<1> QED BY <1>1, SharedRefs DEF Shape, Moves, Onward, Writes

-----------------------------------------------------------------------------
(* The shapes of what the kinds share.                                     *)

LEMMA SameCloud ==
    ASSUME ReconcilerTypeOK, UNCHANGED cloud
    PROVE  CloudTypeOK' /\ OnlyRemoves
BY DEF ReconcilerTypeOK, CloudTypeOK, OnlyRemoves, Exists, Standing

\* Thalassa changes a resource it has, or lets it go.
LEMMA ChangedCloud ==
    ASSUME ReconcilerTypeOK, NEW i, NEW cfg \in Cfgs, NEW phase \in Phases \ {"none"},
           phase \in {"deleting", "gone"} \/ cloud[i].phase \in Standing,
           phase = "gone" \/ Exists(i) \/ cloud[i].phase \in Standing,
           cloud' = [cloud EXCEPT ![i] = [phase |-> phase, cfg |-> cfg]]
    PROVE  CloudTypeOK' /\ OnlyRemoves
<1>1. CASE i \in Ids
  BY <1>1 DEF ReconcilerTypeOK, CloudTypeOK, OnlyRemoves, Exists, Standing, Resource
<1>2. CASE i \notin Ids
  <2>1. UNCHANGED cloud
    BY <1>2 DEF ReconcilerTypeOK, CloudTypeOK
  <2> QED BY <2>1, SameCloud
<1> QED BY <1>1, <1>2

\* An error that goes into the status.
LEMMA Reported ==
    ASSUME ReconcilerTypeOK, NEW reason \in Texts, NEW message \in Texts, NEW err \in Texts,
           ReportError(mem, reason, message, err), pc \in ReportingPoints,
           UNCHANGED <<objectVars, cloud, lost>>, UNCHANGED budget \/ Spend("faults")
    PROVE  Shape
<1> USE DEF AdoptPoints, DeletePoints, FinalizerPoints, IdentityPoints, CreatePoints, CallPoints
<1>1. pc \in CallPoints
  BY DEF ReportingPoints
<1>2. CASE pc' = "writeError"
  <2>1. mem' = SetErrorCondition(mem, reason, message, err)
    BY <1>2 DEF ReportError, Done, Return
  <2>2. Variant(mem', mem)
    BY <2>1, VariantError DEF ReconcilerTypeOK, RuntimeTypeOK
  <2>3. fresh' \in {fresh, FALSE} /\ UNCHANGED <<queue, fetched>> /\ fetched \in Resource
    BY <1>2 DEF ReportError, Done, Return, ReconcilerTypeOK
  <2>4. Onward
    BY <1>2 DEF Onward, NeedRefs
  <2> QED BY <1>1, <1>2, <2>2, <2>3, <2>4, SameCloud DEF Shape, Moves, objectVars
<1>3. CASE pc' # "writeError"
  <2>1. Return(queue) /\ fetched' \in Resource /\ queue \in {"empty", "waiting", "ready"}
    BY <1>3, NoResourceType DEF ReportError, Done, ReconcilerTypeOK, RuntimeTypeOK
  <2> QED BY <1>1, <2>1 DEF Shape, Ends, objectVars
<1> QED BY <1>2, <1>3

\* An error that goes back to the queue.
LEMMA Returned ==
    ASSUME ReconcilerTypeOK, ReturnError, pc \in CallPoints, UNCHANGED budget \/ Spend("faults")
    PROVE  Shape
BY RequeueType, NoResourceType DEF ReturnError, Shape, Ends, CallPoints

\* An answer that changes nothing in Thalassa.
LEMMA Answered ==
    ASSUME ReconcilerTypeOK, pc \in CallPoints, pc' \in CallPoints, Onward,
           Variant(mem', mem), fetched' \in Resource,
           UNCHANGED <<objectVars, queue, fresh, budget, cloud, lost>>
    PROVE  Shape
BY SameCloud DEF Shape, Moves, CallPoints

\* An answer to a call that does.
LEMMA Carried ==
    ASSUME ReconcilerTypeOK, pc \in CallPoints, pc' \in CallPoints, Onward,
           Variant(mem', mem), CloudTypeOK', OnlyRemoves,
           UNCHANGED <<objectVars, queue, fresh, budget, fetched, lost>>
    PROVE  Shape
BY DEF Shape, Moves, CallPoints, ReconcilerTypeOK

LEMMA SharedCreate ==
    ASSUME WriteCreating \/ WriteResourceId \/ WaitCreatedFails \/ WriteCreated
    PROVE  Shape
<1>1. PICK c : c \in Cfgs
  BY CfgsAssumption
<1> QED BY <1>1 DEF Create, Shared, Shape

LEMMA SharedSync ==
    ASSUME \/ GetNotFound \/ GetFails \/ WriteNotFound \/ WriteUpdating \/ Refetch
           \/ WriteRefetched \/ WriteSynced
    PROVE  Shape
<1>1. PICK c : c \in Cfgs
  BY CfgsAssumption
<1> QED BY <1>1 DEF Sync, Shared, Shape

LEMMA SharedDelete ==
    ASSUME DeleteResource \/ WaitDeleted \/ WaitDeletedFails \/ RemoveFinalizer
    PROVE  Shape
BY DEF Delete, Shared, Shape

LEMMA MemFacts ==
    ASSUME DependentTypeOK
    PROVE  /\ ReconcilerTypeOK /\ mem \in Object /\ mem.spec.meta \in Metas
           /\ mem.spec.members \in SeqOf(Names \cup RefIds, MaxRefs)
           /\ resolved.parents \in SeqOf(RefIds, MaxRefs)
           /\ resolved.members \in SeqOf(RefIds, MaxRefs)
           /\ resolved.members \in SeqOf(Names \cup RefIds, MaxRefs)
BY SpecFacts, BoundedMonotone DEF DependentTypeOK, ReconcilerTypeOK, RuntimeTypeOK

LEMMA SentType == ASSUME DependentTypeOK PROVE Sent \in Cfgs
BY MemFacts, DependentAssumption DEF Sent

LEMMA ReportedTexts ==
    /\ Errors \subseteq Texts
    /\ {"FailedCreate", "GetFailed", "GetFailed after create", "GetFailed after update"}
           \subseteq Texts
BY ErrorsAssumption, ReasonsAssumption, DependentReasonsAssumption DEF Reasons

\* An identity answered with the status it is reported with.
LEMMA GivenIdentity ==
    ASSUME DependentTypeOK, NEW i \in OwnIds, NEW phase \in Standing, NEW obj, Variant(obj, mem),
           CloudCreateIn(i, Sent, phase), Step("create", "writeResourceId", mem'),
           \/ \E res \in Phases :
                  mem' = [obj EXCEPT !.status.id = i, !.status.res = res, !.status.err = NoError]
           \/ mem' = [obj EXCEPT !.status.id = i, !.status.err = NoError],
           UNCHANGED <<objectVars, fresh, budget, fetched, lost>>
    PROVE  Shape
<1>1. obj \in Object /\ i \in Ids /\ NoError \in Texts
  BY TextsAssumption DEF Variant, Ids, NoError
<1>2. mem' \in Object /\ Like(mem', obj) /\ mem'.status.id = i
  <2>1. ASSUME NEW res \in Phases,
               mem' = [obj EXCEPT !.status.id = i, !.status.res = res, !.status.err = NoError]
        PROVE  mem' \in Object /\ Like(mem', obj) /\ mem'.status.id = i
    BY <1>1, <2>1 DEF Like, Object, Status
  <2>2. CASE mem' = [obj EXCEPT !.status.id = i, !.status.err = NoError]
    BY <1>1, <2>2 DEF Like, Object, Status
  <2> QED BY <2>1, <2>2
<1>3. Like(mem', mem)
  BY <1>2 DEF Variant, Like
<1> QED BY <1>2, <1>3, SentType DEF Given, Shape, Step

LEMMA CreateResourceShape ==
    ASSUME DependentTypeOK, CreateResource(Sent) \/ CreateResourceFails(Sent) \/ CreateReady(Sent)
    PROVE  Shape
<1>1. CASE CreateResource(Sent) \/ CreateResourceFails(Sent)
  BY <1>1, SentType DEF Create, Shared, Shape
<1>2. CASE CreateReady(Sent)
  <2>1. PICK i \in OwnIds :
            /\ Step("create", "writeResourceId",
                    [mem EXCEPT !.status.id = i, !.status.res = "ready", !.status.err = NoError])
            /\ CloudCreateIn(i, Sent, "ready")
            /\ UNCHANGED <<objectVars, fresh, budget, fetched, lost>>
    BY <1>2 DEF CreateReady
  <2>2. Step("create", "writeResourceId", mem') /\ "ready" \in Standing /\ "ready" \in Phases
    BY <2>1 DEF Step, Phases, Standing
  <2>3. mem' = [mem EXCEPT !.status.id = i, !.status.res = "ready", !.status.err = NoError]
    BY <2>1 DEF Step
  <2>4. Variant(mem, mem)
    BY MemFacts, VariantSame
  <2> QED BY <2>1, <2>2, <2>3, <2>4, GivenIdentity
<1> QED BY <1>1, <1>2

LEMMA CreateRefusedShape == ASSUME DependentTypeOK, CreateRefused PROVE Shape
BY MemFacts, ReportedTexts, Reported DEF CreateRefused, ReportingPoints

LEMMA WriteAvailableShape == ASSUME DependentTypeOK, WriteResourceIdAvailable PROVE Shape
<1>1. Variant(mem', mem)
  BY MemFacts, VariantReported, ReasonsAssumption
     DEF WriteResourceIdAvailable, PersistAndGo, Step, Reasons
<1> QED
  BY <1>1 DEF WriteResourceIdAvailable, PersistAndGo, Step, resourceVars, Shape, Writes,
              IdentityPoints, DeletePoints, NeedRefs, DependentTypeOK, ReconcilerTypeOK

LEMMA CreateAndWaitShape == ASSUME DependentTypeOK, CreateAndWait PROVE Shape
<1> USE DEF AdoptPoints, DeletePoints, FinalizerPoints, IdentityPoints, CreatePoints, CallPoints
<1> ReconcilerTypeOK /\ mem \in Object /\ fetched \in Resource
  BY MemFacts DEF ReconcilerTypeOK
<1>1. CASE AwaitCreated
  BY <1>1, VariantSame, Answered
     DEF AwaitCreated, Step, resourceVars, Onward, NeedRefs
<1>2. CASE GetCreated
  <2>1. Variant(SetAvailable(mem, "Created"), mem)
    BY VariantReported, ReasonsAssumption DEF Reasons
  <2>2. cloud[mem.status.id].phase \in Phases
    BY <1>2 DEF GetCreated, Exists, Phases, Standing
  <2>3. Variant(mem', SetAvailable(mem, "Created"))
    BY <1>2, <2>1, <2>2, VariantStatus DEF GetCreated, Step, Variant
  <2>4. Variant(mem', mem)
    BY <2>1, <2>3, VariantAgain
  <2>5. pc = "getCreated" /\ pc' = "writeCreated"
        /\ UNCHANGED <<objectVars, queue, fresh, budget, cloud, fetched, lost>>
    BY <1>2 DEF GetCreated, Step, resourceVars
  <2> QED BY <2>4, <2>5, Answered DEF Onward, NeedRefs
<1>3. CASE GetCreatedFails
  BY <1>3, ReportedTexts, Reported DEF GetCreatedFails, ReportingPoints
<1> QED
  BY <1>1, <1>2, <1>3, SharedCreate, CreateResourceShape, CreateRefusedShape DEF CreateAndWait

LEMMA RefetchErrorShape == ASSUME DependentTypeOK, RefetchReportsError PROVE Shape
BY MemFacts, ReportedTexts, Reported DEF RefetchReportsError, RefetchError, ReportingPoints

LEMMA DeleteShape ==
    ASSUME DependentTypeOK, DeleteAccepted \/ DeleteAtOnce
    PROVE  Shape
<1>1. CASE DeleteAccepted
  BY <1>1, SharedDelete DEF DeleteAccepted
<1>2. CASE DeleteAtOnce
  <2>1. CloudTypeOK' /\ OnlyRemoves /\ ~Exists(mem.status.id)'
    BY <1>2, MemFacts
       DEF DeleteAtOnce, Step, ReconcilerTypeOK, CloudTypeOK, OnlyRemoves, Exists, Standing, Phases,
           Resource
  <2>2. Variant(mem', mem) /\ fetched' \in Resource
    BY <1>2, MemFacts, VariantSame DEF DeleteAtOnce, Step, ReconcilerTypeOK
  <2> QED
    BY <1>2, <2>1, <2>2
       DEF DeleteAtOnce, Step, Shape, Moves, Onward, CallPoints, FinalizerPoints, DeletePoints,
           IdentityPoints, CreatePoints, NeedRefs
<1> QED BY <1>1, <1>2

-----------------------------------------------------------------------------
(* Reconcile up to the first call.                                         *)

\* All references are resolved, and what they stand for is kept.
Begins ==
    /\ Provisions /\ AllResolved(cache) /\ KeepRefs
    /\ \E obj, at :
          /\ Dequeue(obj, at) /\ Variant(obj, cache)
          /\ at \in {"getRegion", "writeCreating", "create", "get", "update"}
          /\ at \in IdentityPoints => cache.status.id # NoId
          /\ at \in CreatePoints => cache.status.id = NoId
    /\ UNCHANGED resourceVars

LEMMA CacheType == ASSUME DependentTypeOK PROVE cache \in Object /\ ReconcilerTypeOK /\ kind \in Kinds
BY DEF DependentTypeOK, ReconcilerTypeOK, RuntimeTypeOK

\* Wherever the identities are not asked for again, what becomes of resolved is right.
LEMMA ForgetRefsType ==
    ASSUME DependentTypeOK, ReconcilerTypeOK', pc' \in NeedRefs => pc \in NeedRefs, ForgetRefs,
           UNCHANGED <<dependencyVars, kind>>
    PROVE  DependentTypeOK'
<1>1. NoRefs \in [parents : SeqOf(RefIds, MaxRefs), members : SeqOf(RefIds, MaxRefs)]
  BY EmptyBounded DEF NoRefs
<1>2. UNCHANGED <<refs, recorded, kind, NeedRefs>> /\ RefsTypeOK'
  BY DEF dependencyVars, DependentTypeOK, RefsTypeOK, NeedRefs
<1> HIDE DEF NeedRefs
<1>3. CASE pc' \in NeedRefs
  BY <1>2, <1>3 DEF DependentTypeOK, ForgetRefs
<1>4. CASE pc' \notin NeedRefs
  BY <1>1, <1>2, <1>4 DEF DependentTypeOK, ForgetRefs, NoRefs
<1> QED BY <1>3, <1>4

LEMMA ShapeCorrect ==
    ASSUME DependentTypeOK, Shape, ForgetRefs, UNCHANGED <<dependencyVars, kind>>
    PROVE  DependentTypeOK'
<1>1. ReconcilerTypeOK'
  BY ShapeType DEF DependentTypeOK
<1> QED BY <1>1, ShapeRefs, ForgetRefsType

LEMMA BeginsCorrect ==
    ASSUME DependentTypeOK, Begins, UNCHANGED <<dependencyVars, kind>>
    PROVE  DependentTypeOK'
<1>1. PICK obj, at :
        /\ Dequeue(obj, at) /\ Variant(obj, cache)
        /\ at \in {"getRegion", "writeCreating", "create", "get", "update"}
  BY DEF Begins
<1>2. ReconcilerTypeOK'
  BY <1>1, CacheType, DequeueType DEF Begins, Variant, ProgramPoints, StatusWrites
<1>3. pc' \in NeedRefs
  BY <1>1 DEF Dequeue, NeedRefs
<1>4. UNCHANGED <<refs, recorded, kind, NeedRefs>> /\ RefsTypeOK'
  BY DEF dependencyVars, DependentTypeOK, RefsTypeOK, NeedRefs
<1>5. /\ resolved' \in [parents : SeqOf(RefIds, MaxRefs), members : SeqOf(RefIds, MaxRefs)]
      /\ ParentReasons[kind] # <<>> => resolved'.parents # <<>>
  BY CacheType, KeepRefsType DEF Begins
<1> HIDE DEF NeedRefs
<1> QED BY <1>2, <1>3, <1>4, <1>5 DEF DependentTypeOK

LEMMA BeginsLeak ==
    ASSUME Modes, LeakInv, Begins
    PROVE  CacheAgrees' /\ WorkerAgrees' /\ NoLeak'
<1>1. PICK obj, at :
        /\ Dequeue(obj, at) /\ Variant(obj, cache)
        /\ at \in {"getRegion", "writeCreating", "create", "get", "update"}
        /\ at \in IdentityPoints => cache.status.id # NoId
        /\ at \in CreatePoints => cache.status.id = NoId
  BY DEF Begins
<1>2. cache.exists /\ ~Adopts(cache) /\ cache.fin /\ UNCHANGED resourceVars
  BY DEF Begins, Provisions, Reconciles
<1>3. /\ at \in ProgramPoints /\ at \notin AdoptPoints /\ at \notin DeletePoints
      /\ at \notin {"writeResourceId", "writeForgotten", "removeFinalizer"}
  BY <1>1 DEF ProgramPoints, StatusWrites, AdoptPoints, DeletePoints
<1> QED BY <1>1, <1>2, <1>3, DequeueLeak DEF Variant

LEMMA BeginsEffect == ASSUME Begins PROVE Effect
<1>1. UNCHANGED <<api, cloud, lost>>
  BY DEF Begins, Dequeue, objectVars, resourceVars
<1> QED BY <1>1, QuietEffect

\* CreateOrSync is the beginning of most kinds.
LEMMA CreateOrSyncBegins ==
    ASSUME DependentTypeOK, Provisions, AllResolved(cache), CreateOrSync, KeepRefs
    PROVE  Begins
<1>1. Variant(Observed(cache), cache) /\ Observed(cache) \in Object
  BY CacheType, VariantObserved DEF Variant
<1>2. Variant(SetProgressing(Observed(cache), "Creating"), cache)
  <2>1. Variant(SetProgressing(Observed(cache), "Creating"), Observed(cache))
    BY <1>1, VariantReported, ReasonsAssumption DEF Reasons
  <2> QED BY <1>1, <2>1, VariantAgain
<1>3. CASE cache.status.id = NoId
  BY <1>2, <1>3 DEF CreateOrSync, Begins, IdentityPoints
<1>4. CASE cache.status.id # NoId
  BY <1>1, <1>4 DEF CreateOrSync, Begins, CreatePoints
<1> QED BY <1>3, <1>4

LEMMA ObservedBegins ==
    ASSUME DependentTypeOK, Provisions, AllResolved(cache), KeepRefs, UNCHANGED resourceVars,
           NEW at \in {"getRegion", "create", "get", "update"}, Dequeue(Observed(cache), at),
           at = "create" => cache.status.id = NoId,
           at \in {"get", "update"} => cache.status.id # NoId
    PROVE  Begins
<1>1. Variant(Observed(cache), cache)
  BY CacheType, VariantObserved
<1>2. /\ at \in IdentityPoints => cache.status.id # NoId
      /\ at \in CreatePoints => cache.status.id = NoId
  BY DEF IdentityPoints, CreatePoints
<1> QED BY <1>1, <1>2 DEF Begins

\* The other ways a reconcile starts.
LEMMA AnyDependentType ==
    ASSUME DependentTypeOK, ReconcileAnyDependent \/ ReconcileDelete
    PROVE  ReconcilerTypeOK'
<1> ReconcilerTypeOK
  BY CacheType
<1>1. CASE ReconcileNothing \/ ReconcileNoFinalizer \/ AddFinalizer \/ ReconcileDelete
  BY <1>1, ReconcileType DEF ReconcileAnyKind
<1>2. CASE ReconcileNotReady
  BY <1>2 DEF ReconcileNotReady, DequeueAgain, ReconcilerTypeOK, RuntimeTypeOK, CloudTypeOK,
              objectVars, resourceVars
<1>3. CASE ReconcileNotFound
  <2>1. PICK k \in FirstUnresolved(cache, Missing) :
            DequeueReporting(NotFoundReason(cache, k), AllRefs(cache)[k])
    BY <1>3 DEF ReconcileNotFound
  <2>2. NotFoundReason(cache, k) \in Texts /\ AllRefs(cache)[k] \in Texts
    BY CacheType, NotFoundTexts
  <2> QED BY <1>3, <2>1, <2>2, DequeueReportingType DEF ReconcileNotFound
<1> QED BY <1>1, <1>2, <1>3 DEF ReconcileAnyDependent

LEMMA AnyDependentRefs ==
    ASSUME ReconcileAnyDependent \/ (ReconcileDelete /\ kind # "RouteTableRoute")
    PROVE  pc' \notin NeedRefs \/ pc' = pc
BY DEF ReconcileAnyDependent, ReconcileNothing, ReconcileNoFinalizer, AddFinalizer, ReconcileNotReady,
       ReconcileNotFound, ReconcileDelete, DequeueReporting, Dequeue, DequeueIgnored, DequeueAgain,
       UpdateObjectFails, Return, NeedRefs

LEMMA AnyDependentCorrect ==
    ASSUME DependentTypeOK, ReconcileAnyDependent \/ (ReconcileDelete /\ kind # "RouteTableRoute"),
           ForgetRefs, UNCHANGED <<dependencyVars, kind>>
    PROVE  DependentTypeOK'
<1>1. ReconcilerTypeOK'
  BY AnyDependentType
<1>2. pc' \in NeedRefs => pc \in NeedRefs
  BY AnyDependentRefs
<1> QED BY <1>1, <1>2, ForgetRefsType

LEMMA AnyDependentLeak ==
    ASSUME Modes, DependentTypeOK, LeakInv, ReconcileAnyDependent \/ ReconcileDelete
    PROVE  CacheAgrees' /\ WorkerAgrees' /\ NoLeak'
<1>1. CASE ReconcileNothing \/ ReconcileNoFinalizer \/ AddFinalizer \/ ReconcileDelete
  BY <1>1, ReconcileLeak DEF ReconcileAnyKind
<1>2. CASE ReconcileNotReady
  BY <1>2, IgnoredLeak DEF ReconcileNotReady
<1>3. CASE ReconcileNotFound
  <2>1. PICK k \in FirstUnresolved(cache, Missing) :
            DequeueReporting(NotFoundReason(cache, k), AllRefs(cache)[k])
    BY <1>3 DEF ReconcileNotFound
  <2>2. NotFoundReason(cache, k) \in Texts /\ AllRefs(cache)[k] \in Texts
    BY CacheType, NotFoundTexts
  <2>3. cache.exists /\ ~Adopts(cache) /\ UNCHANGED resourceVars
    BY <1>3 DEF ReconcileNotFound, Provisions, Reconciles
  <2> QED BY <2>1, <2>2, <2>3, DequeueReportingLeak
<1> QED BY <1>1, <1>2, <1>3 DEF ReconcileAnyDependent

LEMMA AnyDependentEffect ==
    ASSUME ReconcileAnyDependent \/ ReconcileDelete
    PROVE  Effect
<1>1. CASE ReconcileNothing \/ ReconcileNoFinalizer \/ AddFinalizer \/ ReconcileDelete
  BY <1>1, ReconcileEffect DEF ReconcileAnyKind
<1>2. CASE ReconcileNotReady \/ ReconcileNotFound
  BY <1>2, QuietEffect
     DEF ReconcileNotReady, ReconcileNotFound, DequeueReporting, Dequeue, DequeueAgain,
         DequeueIgnored, objectVars, resourceVars
<1> QED BY <1>1, <1>2 DEF ReconcileAnyDependent

-----------------------------------------------------------------------------
(* What goes on around the worker.                                         *)

Around == Restarts \/ Environment \/ Owners \/ RefUsers \/ Drift

LEMMA DriftClouds ==
    ASSUME DependentTypeOK, Drift
    PROVE  CloudTypeOK' /\ OnlyRemoves
<1>1. PICK i \in Ids : \/ OutOfBandDelete(i)
                       \/ \E m \in Metas : OutOfBandEdit(i, [cloud[i].cfg EXCEPT !.meta = m])
  BY DEF Drift
<1>2. ReconcilerTypeOK /\ cloud[i] \in Resource
  BY CacheType DEF ReconcilerTypeOK, CloudTypeOK
<1>3. cloud[i].cfg \in [parents : SeqOf(RefIds, MaxRefs), members : SeqOf(Names \cup RefIds, MaxRefs),
                       meta : Metas]
  BY <1>2, DependentAssumption DEF Resource
<1>4. \A m \in Metas : [cloud[i].cfg EXCEPT !.meta = m] \in Cfgs
  BY <1>3, DependentAssumption
<1>5. CASE OutOfBandDelete(i)
  BY <1>2, <1>5 DEF OutOfBandDelete, ReconcilerTypeOK, CloudTypeOK, OnlyRemoves, Exists, Standing,
                    Resource, Phases
<1>6. ASSUME NEW c \in Cfgs, OutOfBandEdit(i, c) PROVE CloudTypeOK' /\ OnlyRemoves
  BY <1>2, <1>6 DEF OutOfBandEdit, ReconcilerTypeOK, CloudTypeOK, OnlyRemoves, Exists, Standing,
                    Resource, Phases
<1> QED BY <1>1, <1>4, <1>5, <1>6

\* The references' own state, and that of the program points that need them.
LEMMA RestType ==
    ASSUME DependentTypeOK, ReconcilerTypeOK', RefsTypeOK', UNCHANGED <<kind, resolved, pc>>
    PROVE  DependentTypeOK'
BY DEF DependentTypeOK, NeedRefs

LEMMA AroundType == ASSUME DependentTypeOK, Around PROVE DependentTypeOK'
<1> ReconcilerTypeOK
  BY CacheType
<1>1. CASE Restarts
  <2>1. pc' = "idle" /\ ReconcilerTypeOK' /\ RefsTypeOK'
    BY <1>1, CrashType
       DEF Restarts, Crash, Restart, dependencyVars, RefsTypeOK, DependentTypeOK
  <2> QED
    BY <1>1, <2>1, EmptyBounded DEF Restarts, DependentTypeOK, NeedRefs, NoRefs
<1>2. CASE Environment
  <2>1. UNCHANGED pc
    BY <1>2 DEF Environment, Watch, CacheSync, Timer, TimerFires, Users, User, UserEdit,
                UserCreate, UserDelete, UserToggleSuspend, UserWrites, Cloud, runtimeVars,
                workerVars
  <2> QED
    BY <1>2, <2>1, EnvironmentType, RestType
       DEF Environment, dependencyVars, RefsTypeOK, DependentTypeOK
<1>3. CASE Owners \/ RefUsers
  <2>1. budget' \in [Interferences -> Nat]
    BY <1>3, SpendType
       DEF Owners, RefUsers, RefRecorded, RefCreated, RefGone, RefForgotten, Interferences,
           ReconcilerTypeOK, RuntimeTypeOK
  <2>2. RefsTypeOK'
    BY <1>3 DEF Owners, RefUsers, RefRecorded, RefCreated, RefGone, RefForgotten, DependentTypeOK,
                RefsTypeOK
  <2>3. UNCHANGED <<objectVars, workerVars, resourceVars, kind, resolved>>
    BY <1>3 DEF Owners, RefUsers
  <2>4. ReconcilerTypeOK'
    BY <2>1, <2>3 DEF ReconcilerTypeOK, RuntimeTypeOK, CloudTypeOK, objectVars, workerVars,
                      resourceVars
  <2> QED BY <2>2, <2>3, <2>4, RestType DEF workerVars
<1>4. CASE Drift
  <2>1. CloudTypeOK'
    BY <1>4, DriftClouds
  <2>2. budget' \in [Interferences -> Nat]
    BY <1>4, SpendType DEF Drift, Interferences, ReconcilerTypeOK, RuntimeTypeOK
  <2>3. ReconcilerTypeOK' /\ RefsTypeOK'
    BY <1>4, <2>1, <2>2 DEF Drift, ReconcilerTypeOK, RuntimeTypeOK, objectVars, workerVars,
                            dependencyVars, RefsTypeOK, DependentTypeOK
  <2> QED BY <1>4, <2>3, RestType DEF Drift, workerVars
<1> QED BY <1>1, <1>2, <1>3, <1>4 DEF Around

LEMMA AroundLeak ==
    ASSUME Modes, DependentTypeOK, LeakInv, Around
    PROVE  CacheAgrees' /\ WorkerAgrees' /\ NoLeak'
<1>1. CASE Restarts \/ Environment
  BY <1>1, FailureLeak, EnvironmentLeak DEF Restarts, Environment
<1>2. CASE Owners \/ RefUsers
  BY <1>2, UnchangedLeak DEF Owners, RefUsers, workerVars, objectVars, resourceVars
<1>3. CASE Drift
  BY <1>3, DriftClouds, CloudLeak DEF Drift, workerVars
<1> QED BY <1>1, <1>2, <1>3 DEF Around

LEMMA AroundEffect ==
    ASSUME DependentTypeOK, LeakInv, Around
    PROVE  Effect
<1>1. CASE Restarts \/ Environment
  BY <1>1, FailureEffect, EnvironmentEffect DEF Restarts, Environment
<1>2. CASE Owners \/ RefUsers
  BY <1>2, QuietEffect DEF Owners, RefUsers, objectVars, resourceVars
<1>3. CASE Drift
  BY <1>3, DriftClouds DEF Drift, Effect, Removes, objectVars
<1> QED BY <1>1, <1>2, <1>3 DEF Around

LEMMA InitDependent == DependentInit => DependentTypeOK /\ LifecycleInv
<1> SUFFICES ASSUME DependentInit PROVE DependentTypeOK /\ LifecycleInv
  OBVIOUS
<1>1. ReconcilerTypeOK /\ LifecycleInv /\ pc = "idle"
  BY InitLifecycle, InitType DEF DependentInit, ReconcilerInit, RuntimeInit
<1>2. RefsTypeOK
  BY RefsAssumption DEF DependentInit, RefsInit, RefsTypeOK
<1> QED
  BY <1>1, <1>2, EmptyBounded DEF DependentInit, DependentTypeOK, NeedRefs, NoRefs

\* An update Thalassa accepts.
LEMMA UpdatedCloud ==
    ASSUME ReconcilerTypeOK, NEW i, NEW cfg \in Cfgs, CloudUpdate(i, cfg)
    PROVE  CloudTypeOK' /\ OnlyRemoves
<1>1. PICK phase \in {"pending", cloud[i].phase} :
          cloud' = [cloud EXCEPT ![i] = [phase |-> phase, cfg |-> cfg]]
  BY DEF CloudUpdate
<1>2. cloud[i].phase \in Standing /\ phase \in Phases \ {"none"}
  BY <1>1 DEF CloudUpdate, Standing, Phases
<1> QED BY <1>1, <1>2, ChangedCloud

-----------------------------------------------------------------------------
(* Every step of a kind that keeps to what is shared has one of these      *)
(* forms.                                                                  *)

Form ==
    \/ /\ \/ Begins
          \/ (Shape \/ ReconcileAnyDependent \/ (ReconcileDelete /\ kind # "RouteTableRoute"))
                /\ ForgetRefs
       /\ UNCHANGED <<dependencyVars, kind>>
    \/ Around

LEMMA FormType == ASSUME DependentTypeOK, Form PROVE DependentTypeOK'
BY BeginsCorrect, ShapeCorrect, AnyDependentCorrect, AroundType DEF Form

LEMMA FormLeak ==
    ASSUME Modes, DependentTypeOK, LeakInv, Form
    PROVE  LeakInv'
<1>1. ReconcilerTypeOK'
  BY FormType DEF DependentTypeOK
<1>2. CacheAgrees' /\ WorkerAgrees' /\ NoLeak'
  BY BeginsLeak, ShapeLeak, AnyDependentLeak, AroundLeak DEF Form
<1> QED BY <1>1, <1>2 DEF LeakInv

LEMMA FormEffect == ASSUME DependentTypeOK, LeakInv, Form PROVE Effect
BY BeginsEffect, ShapeEffect, AnyDependentEffect, AroundEffect DEF Form

LEMMA StutterType == ASSUME DependentTypeOK, UNCHANGED vars PROVE DependentTypeOK'
<1>1. /\ UNCHANGED <<api, cache, unseen, queue, pc, mem, fresh, budget, cloud, fetched, lost>>
      /\ UNCHANGED <<refs, recorded, kind, resolved>>
  BY DEF vars, runtimeVars, objectVars, workerVars, resourceVars, dependencyVars
<1>2. ReconcilerTypeOK'
  BY <1>1, CacheType, UnchangedType DEF runtimeVars, objectVars, workerVars, resourceVars
<1>3. RefsTypeOK'
  BY <1>1 DEF DependentTypeOK, RefsTypeOK
<1> QED BY <1>1, <1>2, <1>3, RestType

LEMMA StutterLeak ==
    ASSUME DependentTypeOK, LeakInv, UNCHANGED vars
    PROVE  LeakInv' /\ Effect /\ (HandedOut => HandedOut')
<1>1. UNCHANGED <<api, cache, unseen, pc, mem, fresh, cloud, lost>>
  BY DEF vars, runtimeVars, objectVars, workerVars, resourceVars
<1>2. ReconcilerTypeOK'
  BY StutterType DEF DependentTypeOK
<1>3. LeakInv'
  BY <1>1, <1>2, UnchangedLeak DEF LeakInv
<1>4. Effect /\ (HandedOut => HandedOut')
  BY <1>1, QuietEffect DEF HandedOut
<1> QED BY <1>3, <1>4

-----------------------------------------------------------------------------
(* Coming to rest: the references, from the lookup to the request.         *)

\* A reference by identity is to something Thalassa has.
RefsAnchored ==
    \A s \in Specs : Range(s.parents) \cup Range(s.members) \subseteq Names \cup ExtRefIds

\* No lookup that has found an identity finds another one later.
RefsKeep == \A m \in Names : refs[m] \in OwnRefIds => refs'[m] = refs[m]

LEMMA RefSteps ==
    ASSUME RefsTypeOK, RefsDistinct, NEW n \in Names,
           RefRecorded(n) \/ RefCreated(n) \/ RefGone(n) \/ RefForgotten(n)
    PROVE  /\ RefsDistinct' /\ recorded \subseteq recorded'
           /\ NotLost' => NotLost /\ RefsKeep
<1>1. Missing \notin OwnRefIds /\ NoId \notin OwnRefIds
  BY RefsAssumption DEF RefIds
<1>2. CASE RefRecorded(n)
  <2>1. PICK i \in OwnRefIds \ recorded :
            refs' = [refs EXCEPT ![n] = i] /\ recorded' = recorded \cup {i} /\ refs[n] = NoId
    BY <1>2 DEF RefRecorded
  <2>2. \A m \in Names : refs'[m] = IF m = n THEN i ELSE refs[m]
    BY <2>1 DEF RefsTypeOK
  <2>3. \A m \in Names : refs[m] \in OwnRefIds => m # n /\ refs[m] # i
    BY <1>1, <2>1 DEF RefsDistinct, RefsKnown
  <2>4. RefsDistinct'
    BY <2>1, <2>2, <2>3 DEF RefsDistinct, RefsKnown
  <2>5. NotLost' => NotLost
    BY <2>1, <2>2 DEF NotLost
  <2> QED BY <2>1, <2>2, <2>3, <2>4, <2>5 DEF RefsKeep
<1>3. CASE RefCreated(n) \/ RefGone(n) \/ RefForgotten(n)
  <2>1. PICK v \in {Missing, NoId} : refs' = [refs EXCEPT ![n] = v] /\ UNCHANGED recorded
    BY <1>3 DEF RefCreated, RefGone, RefForgotten
  <2>2. \A m \in Names : refs'[m] = IF m = n THEN v ELSE refs[m]
    BY <2>1 DEF RefsTypeOK
  <2>3. \A m \in Names : refs'[m] \in OwnRefIds => m # n /\ refs'[m] = refs[m]
    BY <1>1, <2>1, <2>2
  <2>4. RefsDistinct'
    BY <2>1, <2>3 DEF RefsDistinct, RefsKnown
  <2>5. ASSUME NotLost' PROVE NotLost /\ RefsKeep
    <3>1. \A j \in recorded : \E m \in Names \ {n} : refs[m] = j
      BY <1>1, <2>1, <2>3, <2>5 DEF NotLost, RefsTypeOK
    <3>2. refs[n] \notin OwnRefIds
      BY <3>1 DEF RefsDistinct, RefsKnown
    <3> QED BY <2>2, <3>1, <3>2 DEF NotLost, RefsKeep
  <2> QED BY <2>1, <2>4, <2>5
<1> QED BY <1>2, <1>3

\* A lookup that is kept answers the same again.
LEMMA ResolveKept ==
    ASSUME RefsTypeOK, RefsKeep, NEW ref, ref \in Names \/ ref \in RefIds, ResolveRef(ref) \in RefIds
    PROVE  (IF ref \in RefIds THEN ref ELSE refs'[ref]) = ResolveRef(ref)
<1>1. CASE ref \in RefIds
  BY <1>1 DEF ResolveRef
<1>2. CASE ref \notin RefIds
  BY <1>2, RefsAssumption DEF ResolveRef, RefsTypeOK, RefsKeep, RefIds
<1> QED BY <1>1, <1>2

\* A list of lookups likewise.
LEMMA ResolveListKept ==
    ASSUME RefsTypeOK, RefsKeep, NEW list,
           \A k \in DOMAIN list :
               list[k] \in Names \cup RefIds /\ ResolveRef(list[k]) \in RefIds
    PROVE  [k \in DOMAIN list |-> IF list[k] \in RefIds THEN list[k] ELSE refs'[list[k]]]
               = Resolve(list)
<1>1. \A k \in DOMAIN list : (IF list[k] \in RefIds THEN list[k] ELSE refs'[list[k]]) = ResolveRef(list[k])
  BY ResolveKept
<1> QED BY <1>1 DEF Resolve

LEMMA MatchingKept ==
    ASSUME RefsTypeOK, RefsKeep, UNCHANGED kind
    PROVE  Matching \subseteq Matching'
<1> SUFFICES ASSUME NEW p \in Matching PROVE p \in Matching'
  OBVIOUS
<1>1. p[1] \in Specs /\ p[2] \in Cfgs /\ p \in Specs \X Cfgs
  BY DEF Matching
<1>2. /\ \A k \in DOMAIN p[1].members : p[1].members[k] \in Names \cup RefIds
      /\ p[1].parents[1] \in Names \cup RefIds
  <2>1. p[1].members \in Seq(Names \cup RefIds)
    BY <1>1, DependentAssumption, BoundedIsSeq
  <2> QED BY <1>1, <2>1, DependentAssumption
<1>3. p[2].members = Resolve(MemberRefs(p[1])) /\ Range(p[2].members) \subseteq RefIds
  BY DEF Matching
<1>4. \A k \in DOMAIN MemberRefs(p[1]) :
          MemberRefs(p[1])[k] \in Names \cup RefIds /\ ResolveRef(MemberRefs(p[1])[k]) \in RefIds
  <2>1. \A k \in DOMAIN MemberRefs(p[1]) : ResolveRef(MemberRefs(p[1])[k]) \in RefIds
    BY <1>3 DEF Resolve, Range
  <2>2. MemberRefs(p[1]) \in {<<>>, p[1].members}
    BY DEF MemberRefs
  <2> QED BY <1>2, <2>1, <2>2
<1>5. MemberRefs(p[1])' = MemberRefs(p[1])
  BY DEF MemberRefs
<1>6. Resolve(MemberRefs(p[1]))' = Resolve(MemberRefs(p[1]))
  <2> DEFINE list == MemberRefs(p[1])
  <2>1. list' = list
    BY <1>5
  <2>2. \A k \in DOMAIN list : list[k] \in Names \cup RefIds /\ ResolveRef(list[k]) \in RefIds
    BY <1>4
  <2> HIDE DEF list
  <2>3. Resolve(list)' = Resolve(list)
    BY <2>1, <2>2, ResolveListKept DEF Resolve, ResolveRef
  <2> QED BY <2>3 DEF list
<1>7. kind = "Loadbalancer" => ResolveRef(p[1].parents[1])' = ResolveRef(p[1].parents[1])
  BY <1>2, ResolveKept DEF Matching, ResolveRef
<1> QED BY <1>1, <1>3, <1>6, <1>7 DEF Matching

LEMMA MatchingSame == ASSUME UNCHANGED <<refs, kind>> PROVE Matching' = Matching
BY DEF Matching, Resolve, ResolveRef, MemberRefs

LEMMA ParentRefsRange ==
    ASSUME kind \in Kinds, NEW obj \in Object
    PROVE  Range(ParentRefs(obj)) \subseteq Range(obj.spec.parents)
<1> DEFINE n == IF kind = "Loadbalancer" /\ obj.status.id # NoId THEN 1
                ELSE Len(ParentReasons[kind])
<1>1. n \in 0 .. 2 /\ ParentRefs(obj) = SubSeq(obj.spec.parents, 1, n)
  BY ReasonsFacts DEF ParentRefs
<1> HIDE DEF n
<1>2. \A k \in 1 .. n : obj.spec.parents[k] \in Names \cup RefIds
  BY <1>1, SpecFacts
<1>3. Len(ParentRefs(obj)) = n /\ \A k \in 1 .. n : ParentRefs(obj)[k] = obj.spec.parents[k]
  BY <1>1, <1>2, SpecFacts, SubSeqProperties
<1>4. DOMAIN ParentRefs(obj) = 1 .. n /\ DOMAIN obj.spec.parents = 1 .. 2
  BY <1>1, <1>3, SpecFacts, ParentRefsFacts
<1> SUFFICES ASSUME NEW k \in DOMAIN ParentRefs(obj)
             PROVE  ParentRefs(obj)[k] \in Range(obj.spec.parents)
  BY DEF Range
<1>5. k \in 1 .. n /\ k \in 1 .. 2
  BY <1>1, <1>4
<1>6. ParentRefs(obj)[k] = obj.spec.parents[k]
  BY <1>3, <1>5
<1> QED BY <1>4, <1>5, <1>6 DEF Range

\* What a list of references is resolved to was there then.
LEMMA ResolvedKnown ==
    ASSUME RefsTypeOK, RefsDistinct, NEW list, Range(list) \subseteq Names \cup ExtRefIds,
           \A ref \in Range(list) : ResolveRef(ref) \in RefIds
    PROVE  Range(Resolve(list)) \subseteq ExtRefIds \cup recorded
<1> SUFFICES ASSUME NEW k \in DOMAIN list
             PROVE  ResolveRef(list[k]) \in ExtRefIds \cup recorded
  BY DEF Range, Resolve
<1>1. list[k] \in Names \cup ExtRefIds /\ ResolveRef(list[k]) \in RefIds
  BY DEF Range
<1> QED BY <1>1, RefsAssumption DEF ResolveRef, RefIds, RefsTypeOK, RefsDistinct, RefsKnown

LEMMA HeldBegins ==
    ASSUME RefsAnchored, DependentTypeOK, RefsDistinct, Begins, UNCHANGED <<dependencyVars, kind>>
    PROVE  RefsHeld'
<1>1. cache \in Object /\ kind \in Kinds /\ RefsTypeOK /\ AllResolved(cache)
  BY DEF DependentTypeOK, ReconcilerTypeOK, RuntimeTypeOK, Begins
<1>2. mem'.spec = cache.spec
  BY <1>1 DEF Begins, Dequeue, Variant, Like
<1>3. Range(ParentRefs(cache)) \cup Range(MemberRefs(cache.spec)) \subseteq Names \cup ExtRefIds
  <2>1. cache.spec \in Specs /\ Range(<<>>) = {}
    BY <1>1, SpecFacts DEF Range
  <2> QED BY <1>1, <2>1, ParentRefsRange DEF RefsAnchored, MemberRefs
<1>4. /\ Range(Resolve(ParentRefs(cache))) \subseteq ExtRefIds \cup recorded
      /\ Range(Resolve(MemberRefs(cache.spec))) \subseteq ExtRefIds \cup recorded
  BY <1>1, <1>3, ResolvedKnown DEF AllResolved
<1>5. resolved' = [parents |-> Resolve(ParentRefs(cache)), members |-> Resolve(MemberRefs(cache.spec))]
  BY DEF Begins, KeepRefs
<1>6. Resolve(ParentRefs(cache)) # <<>> =>
          Resolve(ParentRefs(cache))[1] = ResolveRef(cache.spec.parents[1])
  <2> SUFFICES ASSUME Resolve(ParentRefs(cache)) # <<>>
               PROVE  Resolve(ParentRefs(cache))[1] = ResolveRef(cache.spec.parents[1])
    OBVIOUS
  <2>1. ParentRefs(cache) # <<>> /\ ParentRefs(cache) \in Seq(Names \cup RefIds)
    BY <1>1, ParentRefsFacts, ResolveFacts DEF AllResolved
  <2>2. ParentRefs(cache)[1] = cache.spec.parents[1] /\ 1 \in DOMAIN ParentRefs(cache)
    BY <1>1, <2>1, ParentRefsFacts
  <2> QED BY <2>2 DEF Resolve
<1>7. UNCHANGED <<refs, recorded, kind>>
  BY DEF dependencyVars
<1>8. Resolve(MemberRefs(mem.spec))' = Resolve(MemberRefs(cache.spec))
      /\ ResolveRef(mem.spec.parents[1])' = ResolveRef(cache.spec.parents[1])
  BY <1>2, <1>7 DEF Resolve, ResolveRef, MemberRefs
<1> QED BY <1>4, <1>5, <1>6, <1>7, <1>8 DEF RefsHeld, NotLost

LEMMA HeldKept ==
    ASSUME RefsHeld, ForgetRefs, UNCHANGED <<dependencyVars, kind>>,
           pc' \in NeedRefs => pc \in NeedRefs /\ mem'.spec = mem.spec
    PROVE  RefsHeld'
<1>1. UNCHANGED <<refs, recorded, kind, NeedRefs>>
  BY DEF dependencyVars, NeedRefs
<1> HIDE DEF NeedRefs
<1> SUFFICES ASSUME pc' \in NeedRefs PROVE RefsHeld'
  BY <1>1 DEF RefsHeld
<1>2. UNCHANGED resolved /\ mem'.spec = mem.spec /\ pc \in NeedRefs
  BY DEF ForgetRefs
<1>3. Resolve(MemberRefs(mem.spec))' = Resolve(MemberRefs(mem.spec))
      /\ ResolveRef(mem.spec.parents[1])' = ResolveRef(mem.spec.parents[1])
  BY <1>1, <1>2 DEF Resolve, ResolveRef, MemberRefs
<1> QED BY <1>1, <1>2, <1>3 DEF RefsHeld, NotLost

\* The objects referred to change, the worker does not.
LEMMA HeldAround ==
    ASSUME DependentTypeOK, RefsHeld, UNCHANGED <<pc, mem, kind, resolved>>,
           recorded \subseteq recorded', NotLost' => NotLost /\ RefsKeep
    PROVE  RefsHeld'
<1>1. NeedRefs' = NeedRefs
  BY DEF NeedRefs
<1> HIDE DEF NeedRefs
<1> SUFFICES ASSUME pc \in NeedRefs PROVE RefsHeld'
  BY <1>1 DEF RefsHeld
<1>2. Range(resolved.parents) \cup Range(resolved.members) \subseteq ExtRefIds \cup recorded'
  BY DEF RefsHeld
<1>3. ASSUME NotLost'
      PROVE  /\ resolved.members = Resolve(MemberRefs(mem.spec))'
             /\ resolved.parents # <<>> => resolved.parents[1] = ResolveRef(mem.spec.parents[1])'
  <2> DEFINE list == MemberRefs(mem.spec)
             ref == mem.spec.parents[1]
  <2>1. /\ resolved.members = Resolve(list) /\ RefsKeep /\ RefsTypeOK
        /\ resolved.parents # <<>> => resolved.parents[1] = ResolveRef(ref)
    BY <1>3 DEF RefsHeld, DependentTypeOK
  <2>2. mem \in Object /\ resolved.members \in Seq(RefIds) /\ resolved.parents \in Seq(RefIds)
    BY MemFacts, BoundedIsSeq
  <2>3. \A k \in DOMAIN list : list[k] \in Names \cup RefIds /\ ResolveRef(list[k]) \in RefIds
    <3>1. list \in Seq(Names \cup RefIds)
      BY <2>2, MemberRefsFacts
    <3>2. DOMAIN resolved.members = DOMAIN list
          /\ \A k \in DOMAIN list : resolved.members[k] = ResolveRef(list[k])
      BY <2>1 DEF Resolve
    <3>3. \A k \in DOMAIN resolved.members : resolved.members[k] \in RefIds
      BY <2>2
    <3> QED BY <3>1, <3>2, <3>3
  <2>4. ref \in Names \cup RefIds
    BY <2>2, SpecFacts
  <2>5. resolved.parents # <<>> => resolved.parents[1] \in RefIds
    BY <2>2
  <2>6. list' = list /\ ref' = ref
    BY DEF MemberRefs
  <2> HIDE DEF list, ref
  <2>7. Resolve(list)' = Resolve(list)
    BY <2>1, <2>3, <2>6, ResolveListKept DEF Resolve, ResolveRef
  <2>8. resolved.parents # <<>> => ResolveRef(ref)' = ResolveRef(ref)
    BY <2>1, <2>4, <2>5, <2>6, ResolveKept DEF ResolveRef
  <2> QED BY <2>1, <2>7, <2>8 DEF list, ref
<1> QED BY <1>2, <1>3 DEF RefsHeld

\* What asks for the references was asking for them before, for the same object.
LEMMA SharedSpec ==
    ASSUME ReconcilerTypeOK, Shared, pc' \in NeedRefs
    PROVE  mem'.spec = mem.spec
<1>0. mem \in Object
  BY DEF ReconcilerTypeOK, RuntimeTypeOK
<1>1. ASSUME NEW cfg \in Cfgs, Create(cfg) PROVE mem'.spec = mem.spec
  BY <1>1
     DEF Create, NeedRefs, WriteCreating, CreateResource, CreateResourceFails, WriteResourceId,
         WaitCreated, WaitCreatedFails, WriteCreated, PersistAndGo, Step, ReportError, ReturnError,
         Done, Return
<1>2. ASSUME NEW cfg \in Cfgs, Sync(FALSE, FALSE, cfg) PROVE mem'.spec = mem.spec
  BY <1>0, <1>2, SyncSpecCopy
     DEF Sync, NeedRefs, GetResource, GetNotFound, GetFails, WriteNotFound, WriteResourceStatus,
         WriteUpdating, UpdateResource, Refetch, WriteRefetched, WriteSynced, PersistAndGo, Step,
         ReportError, Done, Return, Copy, Like, Object
<1>3. CASE WriteUpdated("refetch") \/ Delete \/ WriteError \/ StatusWriteFails
  BY <1>3
     DEF WriteUpdated, Delete, DeleteResource, DeleteResourceFails, WaitDeleted, WaitDeletedFails,
         RemoveFinalizer, UpdateObjectFails, WriteError, StatusWriteFails, GiveUp, NeedRefs,
         PersistAndGo, Step, ReturnError, Return
<1> QED BY <1>1, <1>2, <1>3 DEF Shared

LEMMA ShapeSpec ==
    ASSUME ReconcilerTypeOK, Shape, pc' \in NeedRefs
    PROVE  mem'.spec = mem.spec
<1>1. CASE Moves \/ Writes
  BY <1>1 DEF Moves, Writes, Variant, Like
<1>2. CASE Ends \/ Given
  BY <1>2 DEF Ends, Given, Return, NeedRefs
<1> QED BY <1>1, <1>2, SharedSpec DEF Shape

\* What a step does to the references and to what the worker holds of them.
LEMMA FormRefs ==
    ASSUME DependentTypeOK, RefsDistinct, Form
    PROVE  /\ RefsDistinct' /\ recorded \subseteq recorded'
           /\ NotLost' => NotLost /\ RefsKeep
           /\ UNCHANGED kind
<1>1. CASE UNCHANGED <<refs, recorded, kind>>
  BY <1>1 DEF RefsDistinct, RefsKnown, NotLost, RefsKeep
<1>2. CASE Owners \/ RefUsers
  BY <1>2, RefSteps DEF Owners, RefUsers, DependentTypeOK
<1> QED
  BY <1>1, <1>2 DEF Form, Around, Restarts, Environment, Drift, dependencyVars

LEMMA FormHeld ==
    ASSUME RefsAnchored, DependentTypeOK, RefsDistinct, RefsHeld, Form
    PROVE  RefsHeld'
<1>1. CASE Begins /\ UNCHANGED <<dependencyVars, kind>>
  BY <1>1, HeldBegins
<1>2. CASE Shape /\ ForgetRefs /\ UNCHANGED <<dependencyVars, kind>>
  <2>1. pc' \in NeedRefs => pc \in NeedRefs /\ mem'.spec = mem.spec
    BY <1>2, ShapeRefs, ShapeSpec DEF DependentTypeOK
  <2> QED BY <1>2, <2>1, HeldKept
<1>3. CASE /\ ReconcileAnyDependent \/ (ReconcileDelete /\ kind # "RouteTableRoute")
           /\ ForgetRefs /\ UNCHANGED <<dependencyVars, kind>>
  <2>1. pc' \notin NeedRefs \/ (pc' = pc /\ mem' = mem)
    BY <1>3
       DEF ReconcileAnyDependent, ReconcileNothing, ReconcileNoFinalizer, AddFinalizer,
           ReconcileNotReady, ReconcileNotFound, ReconcileDelete, DequeueReporting, Dequeue,
           DequeueIgnored, DequeueAgain, UpdateObjectFails, Return, NeedRefs
  <2> QED BY <1>3, <2>1, HeldKept
<1>4. CASE Restarts
  <2>1. pc' = "idle"
    BY <1>4 DEF Restarts, Crash, Restart
  <2> QED BY <2>1 DEF RefsHeld, NeedRefs
<1>5. CASE Environment \/ Drift \/ Owners \/ RefUsers
  <2>1. UNCHANGED <<pc, mem, kind, resolved>>
    BY <1>5 DEF Environment, Watch, CacheSync, Timer, TimerFires, Users, User, UserEdit,
                UserCreate, UserDelete, UserToggleSuspend, UserWrites, Cloud, runtimeVars,
                workerVars, Drift, Owners, RefUsers
  <2> QED BY <2>1, FormRefs, HeldAround
<1> QED BY <1>1, <1>2, <1>3, <1>4, <1>5 DEF Form, Around

-----------------------------------------------------------------------------
(* Coming to rest: the steps these kinds share.                            *)

\* The error a missing reference is reported with can come at any time; what
\* Thalassa refuses, only once a reference has lost its identity.
Expected(reasons) ==
    /\ {"InvalidSpec"} \cup NotFoundReasons \subseteq reasons
    /\ NotLost \/ reasons = Texts

\* A missing object that has been reported already is not reported again.
MissingAgain == ReconcileNotFound /\ pc' = "idle"

LEMMA MissingAgainKeeps ==
    ASSUME NEW reasons, Ready(reasons), DependentTypeOK, MissingAgain, UNCHANGED kind
    PROVE  /\ OnlySpends /\ VersionInv' /\ ErrorsAmong(reasons)'
           /\ Unattended' => RefReportedMissing'
<1>1. cache.exists /\ UNCHANGED cloud /\ cache \in Object /\ api \in Object /\ kind \in Kinds
  BY CacheType DEF MissingAgain, ReconcileNotFound, Provisions, Reconciles, resourceVars,
                   ReconcilerTypeOK, RuntimeTypeOK
<1>2. PICK k \in FirstUnresolved(cache, Missing) :
          /\ ~StatusConditionChanges(cache.status.conds, "Error", "False",
                                     NotFoundReason(cache, k), AllRefs(cache)[k])
          /\ DequeueIgnored
  BY DEF MissingAgain, ReconcileNotFound, DequeueReporting, Dequeue
<1>3. cache.status.conds \in Conditions /\ k \in DOMAIN AllRefs(cache)
  BY <1>1, <1>2, NotFoundTexts DEF Object, Status
<1>4. cache.status.conds["Error"].reason = NotFoundReason(cache, k)
  BY <1>2, <1>3, ChangesError
<1>5. ~unseen /\ UNCHANGED <<api, cache>>
  BY <1>2 DEF DequeueIgnored, CanDequeue, Ready, Modes, objectVars
<1>6. Unattended' => cache.status = api.status /\ cache.spec = api.spec
  BY <1>1, <1>5 DEF Unattended, Ready, VersionInv, CacheVersion, Earlier
<1>7. OnlySpends /\ VersionInv' /\ ErrorsAmong(reasons)'
  BY <1>1, <1>2, IgnoredKeeps
<1>8. ASSUME cache.status = api.status, cache.spec = api.spec
      PROVE  RefReportedMissing
  <2>1. ParentRefs(api) = ParentRefs(cache)
    BY <1>8 DEF ParentRefs
  <2>2. AllRefs(api) = AllRefs(cache) /\ NotFoundReason(api, k) = NotFoundReason(cache, k)
    BY <1>8, <2>1 DEF AllRefs, NotFoundReason
  <2> QED BY <1>3, <1>4, <1>8, <2>2 DEF RefReportedMissing
<1>9. RefReportedMissing => RefReportedMissing'
  BY <1>5 DEF RefReportedMissing, AllRefs, NotFoundReason, ParentRefs, MemberRefs, InOrder
<1> QED BY <1>6, <1>7, <1>8, <1>9

LEMMA NotFoundRest ==
    ASSUME NEW reasons, Ready(reasons), DependentTypeOK, Expected(reasons), ReconcileNotFound,
           ~MissingAgain
    PROVE  RestStep(reasons)
<1>1. PICK k \in FirstUnresolved(cache, Missing) :
          DequeueReporting(NotFoundReason(cache, k), AllRefs(cache)[k])
  BY DEF ReconcileNotFound
<1> DEFINE reason == NotFoundReason(cache, k)
           message == AllRefs(cache)[k]
<1>2. reason \in Texts /\ message \in Texts /\ reason \in reasons
  BY CacheType, NotFoundTexts DEF Expected
<1>3. cache.exists /\ ~cache.deleting /\ UNCHANGED cloud
  BY DEF ReconcileNotFound, Provisions, Reconciles, resourceVars
<1>4. Dequeue(SetErrorCondition(Observed(cache), reason, message, message), "writeError")
  BY <1>1 DEF MissingAgain, DequeueReporting, DequeueIgnored, CanDequeue
<1> HIDE DEF reason, message
<1> QED BY <1>2, <1>3, <1>4, ReportingRest

LEMMA AnyDependentRest ==
    ASSUME NEW reasons, Ready(reasons), DependentTypeOK, Expected(reasons),
           ReconcileAnyDependent \/ ReconcileDelete, ~MissingAgain
    PROVE  RestStep(reasons)
<1>1. CASE ReconcileNotReady
  BY <1>1, RestAgain DEF ReconcileNotReady, resourceVars
<1>2. CASE ReconcileNotFound
  BY <1>2, NotFoundRest
<1>3. CASE ReconcileAnyKind
  BY <1>3, ReconcileRest DEF Expected
<1> QED BY <1>1, <1>2, <1>3 DEF ReconcileAnyDependent, ReconcileAnyKind

\* An error without a call that has failed: something has drifted, or a reference
\* has lost its identity.
LEMMA RestDisturbed ==
    ASSUME NEW reasons, Ready(reasons), ~Undrifted \/ reasons = Texts,
           UNCHANGED <<objectVars, budget>>, UNCHANGED cloud, pc # "idle",
           NEW reason \in Texts, NEW message \in Texts, NEW err \in Texts,
           ReportError(mem, reason, message, err), reason \in CallFailed
    PROVE  RestStep(reasons)
<1>1. NoneFalls /\ OnlySpends
  BY CloudStands, SameBudget DEF Ready, LeakInv
<1>2. CASE ~Undrifted
  <2>1. ~Calm'
    BY <1>1, <1>2, ReadyCalm DEF Calm
  <2> QED BY <1>1, <1>2, <2>1, RestReport
<1>3. CASE reasons = Texts
  <2>1. ~Blameless(reasons)
    BY <1>3 DEF Blameless
  <2> QED BY <1>1, <1>3, <2>1, RestReport
<1> QED BY <1>2, <1>3

\* What the worker sends is there as long as no reference has lost its identity.
LEMMA HeldLive ==
    ASSUME DependentTypeOK, RefsHeld, NotLost, pc \in NeedRefs
    PROVE  AllLive(resolved.parents) /\ AllLive(resolved.members)
<1>1. Range(resolved.parents) \cup Range(resolved.members) \subseteq ExtRefIds \cup recorded
  BY DEF RefsHeld
<1>2. \A id \in ExtRefIds \cup recorded : Live(id)
  BY DEF Live, NotLost
<1> QED BY <1>1, <1>2 DEF AllLive, Range

LEMMA RefusedRest ==
    ASSUME NEW reasons, Ready(reasons), DependentTypeOK, RefsHeld, Expected(reasons), CreateRefused
    PROVE  RestStep(reasons)
<1>1. reasons = Texts
  BY HeldLive DEF Expected, CreateRefused, Refused, NeedRefs
<1>2. PICK e \in Errors : ReportError(mem, "FailedCreate", e, e)
  BY DEF CreateRefused
<1>3. e \in Texts /\ "FailedCreate" \in Texts
  BY ReportedTexts
<1> QED BY <1>1, <1>2, <1>3, RestDisturbed DEF CreateRefused, CallFailed

LEMMA AvailableCopy ==
    ASSUME NEW obj \in Object, NEW res \in Phases
    PROVE  LET new == [SetAvailable(obj, "Created") EXCEPT !.status.res = res, !.status.err = NoError]
           IN  /\ Copy(new, obj) /\ SameError(new, obj) /\ new.status.id = obj.status.id
               /\ IsTrue(new.status.conds, "Ready")
<1> DEFINE set == SetAvailable(obj, "Created")
<1>1. Copy(set, obj)
  BY StandardCopy
<1>2. SameError(set, obj) /\ IsTrue(set.status.conds, "Ready")
  BY StandardCopy
<1>3. set \in Object /\ set.status.id = obj.status.id
  BY StandardChange DEF Reasons
<1> HIDE DEF set
<1>4. LET new == [set EXCEPT !.status.res = res, !.status.err = NoError]
      IN  Like(new, set) /\ new.status.conds = set.status.conds
          /\ new.status.id = set.status.id /\ new.status.obsGen = set.status.obsGen
  BY <1>3 DEF Like, Object, Status
<1> QED BY <1>1, <1>2, <1>3, <1>4 DEF set, Copy, Like, SameError

\* The steps of a creation Reconciler has no lemma about.
OwnCreation ==
    \/ CreateReady(Sent) \/ CreateRefused \/ AwaitCreated \/ GetCreated \/ GetCreatedFails
    \/ WriteResourceIdAvailable

LEMMA CreateReadyFacts ==
    ASSUME DependentTypeOK, CreateReady(Sent)
    PROVE  \E i \in OwnIds :
               /\ CloudCreateIn(i, Sent, "ready") /\ pc = "create" /\ pc' = "writeResourceId"
               /\ mem'.status.id = i /\ Copy(mem', mem) /\ SameError(mem', mem)
               /\ UNCHANGED <<objectVars, queue, fresh, budget, fetched, lost>>
<1>1. PICK i \in OwnIds :
          /\ Step("create", "writeResourceId",
                  [mem EXCEPT !.status.id = i, !.status.res = "ready", !.status.err = NoError])
          /\ CloudCreateIn(i, Sent, "ready")
          /\ UNCHANGED <<objectVars, fresh, budget, fetched, lost>>
  BY DEF CreateReady
<1>2. mem \in Object /\ mem.status \in Status
  BY MemFacts DEF Object
<1>3. mem'.status.id = i /\ Copy(mem', mem) /\ SameError(mem', mem)
  BY <1>1, <1>2 DEF Step, Copy, Like, SameError, Object, Status
<1> QED BY <1>1, <1>3 DEF Step

LEMMA GetCreatedFacts ==
    ASSUME DependentTypeOK, GetCreated
    PROVE  /\ pc = "getCreated" /\ pc' = "writeCreated" /\ UNCHANGED <<objectVars, queue, fresh, budget>>
           /\ UNCHANGED <<cloud, fetched>>
           /\ Copy(mem', mem) /\ SameError(mem', mem) /\ mem'.status.id = mem.status.id
           /\ IsTrue(mem'.status.conds, "Ready")
<1>1. mem \in Object /\ cloud[mem.status.id].phase \in Phases
  BY MemFacts DEF GetCreated, Exists, ReconcilerTypeOK, CloudTypeOK, Resource
<1>2. mem' = [SetAvailable(mem, "Created") EXCEPT !.status.res = cloud[mem.status.id].phase,
                                                 !.status.err = NoError]
  BY DEF GetCreated, Step
<1>3. /\ Copy(mem', mem) /\ SameError(mem', mem) /\ mem'.status.id = mem.status.id
      /\ IsTrue(mem'.status.conds, "Ready")
  BY <1>1, <1>2, AvailableCopy
<1> QED BY <1>3 DEF GetCreated, Step, resourceVars

LEMMA WriteAvailableFacts ==
    ASSUME DependentTypeOK, WriteResourceIdAvailable
    PROVE  /\ pc = "writeResourceId" /\ pc' = "writeCreated" /\ PersistStatus
           /\ UNCHANGED queue /\ UNCHANGED <<cloud, fetched>>
           /\ Copy(mem', mem) /\ SameError(mem', mem) /\ mem'.status.id = mem.status.id
           /\ IsTrue(mem'.status.conds, "Ready")
<1>1. mem \in Object /\ mem' = SetAvailable(mem, "Created")
  BY MemFacts DEF WriteResourceIdAvailable, PersistAndGo, Step
<1>2. Copy(mem', mem)
  BY <1>1, StandardCopy
<1>3. SameError(mem', mem) /\ IsTrue(mem'.status.conds, "Ready")
  BY <1>1, StandardCopy
<1>4. mem'.status.id = mem.status.id
  BY <1>1, StandardChange DEF Reasons
<1> QED BY <1>2, <1>3, <1>4 DEF WriteResourceIdAvailable, PersistAndGo, Step, resourceVars

LEMMA OwnCreationRest ==
    ASSUME NEW reasons, Ready(reasons), DependentTypeOK, RefsHeld, Expected(reasons), OwnCreation
    PROVE  RestStep(reasons)
<1> USE DEF WorkPoints, IdentityPoints, DeletePoints
<1>0. mem \in Object /\ CloudTypeOK /\ ReconcilerTypeOK /\ Sent \in Cfgs
  BY MemFacts, SentType DEF ReconcilerTypeOK
<1>1. CASE CreateReady(Sent)
  <2>1. PICK i \in OwnIds :
            /\ CloudCreateIn(i, Sent, "ready") /\ pc = "create" /\ pc' = "writeResourceId"
            /\ mem'.status.id = i /\ Copy(mem', mem) /\ SameError(mem', mem)
            /\ UNCHANGED <<objectVars, queue, fresh, budget, fetched, lost>>
    BY <1>1, CreateReadyFacts
  <2>2. NoneFalls /\ Intact(i)'
    BY <1>0, <2>1, CreationStands DEF Standing
  <2>3. Intact(mem.status.id)' /\ OnlySpends
    BY <1>0, <2>1, <2>2, SameBudget DEF Intact
  <2> QED BY <2>1, <2>2, <2>3, RestCall
<1>2. CASE CreateRefused
  BY <1>2, RefusedRest
<1>3. CASE AwaitCreated
  <2>1. NoneFalls /\ OnlySpends
    BY <1>0, <1>3, CloudStands, SameBudget DEF AwaitCreated, resourceVars
  <2> QED BY <1>3, <2>1, RestCall DEF AwaitCreated, Step, Copy, Like, SameError
<1>4. CASE GetCreated
  <2>1. NoneFalls /\ OnlySpends
    BY <1>0, <1>4, GetCreatedFacts, CloudStands, SameBudget
  <2> QED BY <1>4, <2>1, GetCreatedFacts, RestCall
<1>5. CASE GetCreatedFails
  <2>1. PICK e \in Errors : ReportError(mem, "GetFailed", "GetFailed after create", e)
    BY <1>5 DEF GetCreatedFails
  <2>2. e \in Texts /\ {"GetFailed", "GetFailed after create"} \subseteq Texts
    BY ReportedTexts
  <2>3. CASE Spend("faults")
    BY <1>5, <2>1, <2>2, <2>3, CloudStands, RestFault DEF GetCreatedFails, CallFailed
  <2>4. CASE ~Exists(mem.status.id) /\ UNCHANGED budget
    <3>1. ~Undrifted
      BY <1>5, <2>4, WorkIntact DEF GetCreatedFails
    <3> QED BY <1>5, <2>1, <2>2, <2>4, <3>1, RestDisturbed DEF GetCreatedFails, CallFailed
  <2> QED BY <1>5, <2>3, <2>4 DEF GetCreatedFails
<1>6. CASE WriteResourceIdAvailable
  BY <1>6, WriteAvailableFacts, RestPersist
<1> QED BY <1>1, <1>2, <1>3, <1>4, <1>5, <1>6 DEF OwnCreation

\* A reconcile whose first call looks up the region.
LEMMA ObservedRest ==
    ASSUME NEW reasons, Ready(reasons), Provisions, UNCHANGED cloud,
           Dequeue(Observed(cache), "getRegion")
    PROVE  RestStep(reasons)
<1>1. cache \in Object /\ cache.exists /\ ~cache.deleting /\ cache.fin
  BY DEF Provisions, Reconciles, Ready, LeakInv, ReconcilerTypeOK, RuntimeTypeOK
<1>2. /\ Like(Observed(cache), cache) /\ SameError(Observed(cache), cache)
      /\ Observed(cache).status.obsGen = cache.gen
  BY <1>1, ObservedCopy
<1>3. Observed(cache).status.id = cache.status.id
  BY <1>1, ObservedChange
<1> QED BY <1>1, <1>2, <1>3, RestDequeue DEF DeletePoints, WorkPoints, IdentityPoints

LEMMA DeleteAtOnceRest ==
    ASSUME NEW reasons, Ready(reasons), DeleteAtOnce
    PROVE  RestStep(reasons)
<1>0. CloudTypeOK /\ ReconcilerTypeOK
  BY DEF Ready, LeakInv, ReconcilerTypeOK
<1>1. DeleteFalls
  BY <1>0 DEF DeleteAtOnce, DeleteFalls, Intact, Standing, CloudTypeOK
<1>2. OnlySpends
  BY <1>0, SameBudget DEF DeleteAtOnce
<1> QED
  BY <1>1, <1>2, RestCall DEF DeleteAtOnce, Step, Copy, Like, SameError, DeletePoints, WorkPoints,
                              IdentityPoints

\* What goes on around the worker.
LEMMA RefsSpend ==
    ASSUME ReconcilerTypeOK, Owners \/ RefUsers
    PROVE  OnlySpends /\ UNCHANGED <<objectVars, workerVars>> /\ UNCHANGED resourceVars
BY SpendOnly
   DEF Owners, RefUsers, RefRecorded, RefCreated, RefGone, RefForgotten, Interferences,
       ReconcilerTypeOK, RuntimeTypeOK

LEMMA AroundRest ==
    ASSUME NEW reasons, Ready(reasons), DependentTypeOK, Around
    PROVE  RestStep(reasons)
<1>1. CASE Restarts
  BY <1>1, FailureRest DEF Restarts
<1>2. CASE Environment
  BY <1>2, EnvironmentRest DEF Environment
<1>3. CASE Owners \/ RefUsers
  BY <1>3, RefsSpend, CloudUntouched, RestAround, CacheType DEF resourceVars
<1>4. CASE Drift
  BY <1>4, RestDrift DEF Drift
<1> QED BY <1>1, <1>2, <1>3, <1>4 DEF Around

-----------------------------------------------------------------------------
(* Coming to rest: what has been applied.                                  *)

\* What the worker holds of the references is what the spec's stand for.
LEMMA HeldMatches ==
    ASSUME DependentTypeOK, RefsHeld, NotLost, pc \in NeedRefs, NEW cfg \in Cfgs,
           cfg.meta = mem.spec.meta, cfg.members = resolved.members,
           kind = "Loadbalancer" => cfg.parents[1] = resolved.parents[1]
    PROVE  <<mem.spec, cfg>> \in Matching
<1>1. mem.spec \in Specs /\ kind \in Kinds /\ mem \in Object
  BY MemFacts, SpecFacts DEF DependentTypeOK
<1>2. resolved.members = Resolve(MemberRefs(mem.spec))
      /\ (resolved.parents # <<>> => resolved.parents[1] = ResolveRef(mem.spec.parents[1]))
  BY DEF RefsHeld
<1>3. resolved.members \in Seq(RefIds) /\ resolved.parents \in Seq(RefIds)
  BY MemFacts, BoundedIsSeq
<1>4. Range(resolved.members) \subseteq RefIds
  BY <1>3 DEF Range
<1>5. kind = "Loadbalancer" => resolved.parents # <<>>
  BY <1>1, ParentRefsFacts DEF DependentTypeOK
<1>6. kind = "Loadbalancer" => resolved.parents[1] \in RefIds
  BY <1>3, <1>5
<1> QED BY <1>1, <1>2, <1>4, <1>5, <1>6 DEF Matching

LEMMA SentMatches ==
    ASSUME DependentTypeOK, RefsHeld, NotLost, pc = "create"
    PROVE  <<mem.spec, Sent>> \in Matching
BY HeldMatches, SentType DEF Sent, NeedRefs

LEMMA OwnCreationApplied ==
    ASSUME NEW reasons, Ready(reasons), NEW agree, Applied(agree), DependentTypeOK,
           pc = "create" => <<mem.spec, Sent>> \in agree, OwnCreation
    PROVE  Applied(agree)'
<1> USE DEF AppliedPoints, LastWrites
<1>0. CloudTypeOK /\ ReconcilerTypeOK /\ Sent \in Cfgs
  BY MemFacts, SentType DEF ReconcilerTypeOK
<1>1. CASE CreateRefused \/ GetCreatedFails
  BY <1>1, AppliedNowhere DEF CreateRefused, GetCreatedFails, ReportError, Done, Return
<1>2. CASE CreateReady(Sent)
  <2>1. PICK i \in OwnIds :
            /\ CloudCreateIn(i, Sent, "ready") /\ pc = "create" /\ pc' = "writeResourceId"
            /\ mem'.status.id = i /\ mem'.spec = mem.spec
    BY <1>2, CreateReadyFacts DEF Copy, Like
  <2>2. cloud'[i].cfg = Sent
    BY <1>0, <2>1, CreationStands DEF Standing
  <2> QED BY <2>1, <2>2 DEF Applied
<1>3. CASE AwaitCreated
  <2>1. OnlySpends /\ Undisturbed
    BY <1>0, <1>3, SameBudget, CloudUntouched DEF AwaitCreated, resourceVars
  <2> QED BY <1>3, <2>1, AppliedKept DEF AwaitCreated, Step
<1>4. CASE GetCreated
  <2>1. OnlySpends /\ Undisturbed
    BY <1>0, <1>4, GetCreatedFacts, SameBudget, CloudUntouched
  <2> QED BY <1>4, <2>1, GetCreatedFacts, AppliedKept DEF Copy, Like
<1>5. CASE WriteResourceIdAvailable
  <2>1. OnlySpends /\ Undisturbed
    BY <1>0, <1>5, WriteAvailableFacts, SameBudget, CloudUntouched DEF PersistStatus
  <2> QED BY <1>5, <2>1, WriteAvailableFacts, AppliedKept DEF Copy, Like
<1> QED BY <1>1, <1>2, <1>3, <1>4, <1>5 DEF OwnCreation

LEMMA AnyDependentApplied ==
    ASSUME NEW agree, ReconcileAnyDependent \/ ReconcileDelete
    PROVE  Applied(agree)'
<1>1. CASE ReconcileAnyKind
  BY <1>1, SharedApplied
<1>2. CASE ReconcileNotReady \/ ReconcileNotFound
  BY <1>2, AppliedNowhere
     DEF ReconcileNotReady, ReconcileNotFound, DequeueReporting, Dequeue, DequeueIgnored,
         DequeueAgain, CanDequeue, AppliedPoints, LastWrites
<1> QED BY <1>1, <1>2 DEF ReconcileAnyDependent, ReconcileAnyKind

\* The references may change while a resource is at work on, but not what they stood for.
LEMMA AroundApplied ==
    ASSUME NEW reasons, Ready(reasons), DependentTypeOK, NEW before, NEW after,
           Applied(before), before \subseteq after, Around
    PROVE  Applied(after)'
<1>1. CASE Restarts
  BY <1>1, SharedApplied DEF Restarts
<1>2. CASE Environment
  <2>1. OnlySpends
    BY <1>2, EnvironmentRest DEF RestStep, Environment
  <2>2. UNCHANGED <<pc, mem, fetched>>
    BY <1>2 DEF Environment, Watch, CacheSync, Timer, TimerFires, Users, User, UserEdit,
                UserCreate, UserDelete, UserToggleSuspend, UserWrites, Cloud, runtimeVars,
                workerVars, resourceVars
  <2>3. Undisturbed
    <3>1. CASE Watch \/ Timer \/ Users
      BY <3>1, CloudUntouched DEF Watch, Timer, Users, resourceVars
    <3>2. CASE Cloud
      BY <3>2, CloudUndisturbed DEF Cloud, Ready, LeakInv, ReconcilerTypeOK
    <3> QED BY <1>2, <3>1, <3>2 DEF Environment
  <2> QED BY <2>1, <2>2, <2>3, EnvironmentApplied
<1>3. CASE Owners \/ RefUsers
  BY <1>3, RefsSpend, CloudUntouched, EnvironmentApplied, CacheType DEF resourceVars, workerVars
<1>4. CASE Drift
  <2>1. ~Undrifted'
    BY <1>4, DriftShows DEF Drift
  <2> QED BY <2>1 DEF Applied
<1> QED BY <1>1, <1>2, <1>3, <1>4 DEF Around

LEMMA ReportedStays ==
    ASSUME UNCHANGED <<api, kind>>, RefReportedMissing
    PROVE  RefReportedMissing'
BY DEF RefReportedMissing, AllRefs, NotFoundReason, ParentRefs, MemberRefs, InOrder

\* What agrees goes on agreeing as long as no reference loses its identity.
LEMMA MatchingStays ==
    ASSUME RefsTypeOK, RefsDistinct, NotLost', Form \/ UNCHANGED <<refs, recorded, kind>>
    PROVE  Matching \subseteq Matching'
<1>1. CASE UNCHANGED <<refs, recorded, kind>>
  BY <1>1, MatchingSame
<1>2. CASE Owners \/ RefUsers
  BY <1>2, RefSteps, MatchingKept DEF Owners, RefUsers
<1> QED BY <1>1, <1>2 DEF Form, Around, Restarts, Environment, Drift, dependencyVars

===============================================================================
