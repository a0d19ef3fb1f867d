-------------------------- MODULE RecreatingController --------------------------
(***************************************************************************)
(* The reconcilers of TargetGroup, RouteTableRoute and                     *)
(* VpcPeeringConnection: targetgroup_controller.go,                        *)
(* routetableroute_controller.go and vpcpeeringconnection_controller.go.   *)
(* Where the other kinds report a resource Thalassa no longer has, these   *)
(* clear status.resourceId and create another one.                         *)
(***************************************************************************)
EXTENDS DependentReconciler

Answers == {"none", "accept", "reject", "both"}

\* The first of parents is the vpcRef, requesterVpcRef or routeTableRef; members
\* is a target group's attachments, or a route's target, of which there is at
\* most one; answer is a peering's spec.accept and spec.reject.
ASSUME RecreatingAssumption ==
    /\ Kinds \subseteq {"TargetGroup", "RouteTableRoute", "VpcPeeringConnection"}
    /\ \A s \in Specs : s.answer \in Answers

ASSUME RecreatingReasonsAssumption ==
    {"UpdateFailed", "AcceptFailed", "RejectFailed", "Active", "Rejected"} \cup Phases
        \subseteq Texts

TypeOK == DependentTypeOK

Init == DependentInit

-----------------------------------------------------------------------------
(* What the three have in common.                                          *)

\* Mutant: the identity is kept, and asked for for ever.
ForgetKeepingId(from) ==
    Step(from, "writeForgotten", [mem EXCEPT !.status.res = ""])

\* Mutant: another resource is created at once, its identity written over the old one.
ForgetAndCreate(from) ==
    Step(from, "create", [mem EXCEPT !.status.id = NoId, !.status.res = ""])

\* The resource is created again by the next reconcile.  The conditions stay.
Forget(from) ==
    Step(from, "writeForgotten", [mem EXCEPT !.status.id = NoId, !.status.res = ""])

WriteForgotten ==
    /\ pc = "writeForgotten"
    /\ PersistStatus
    /\ Return(Requeued)
    /\ fetched' = NoResource
    /\ UNCHANGED <<cloud, lost>>

\* Mutant: any error of Get counts as NotFound.
GetForgottenOnError ==
    /\ Forget("get")
    /\ \/ ~Exists(mem.status.id) /\ UNCHANGED budget
       \/ Spend("faults")
    /\ UNCHANGED <<objectVars, fresh, resourceVars>>

GetForgotten ==
    /\ Forget("get")
    /\ ~Exists(mem.status.id)
    /\ UNCHANGED <<objectVars, fresh, budget, resourceVars>>

\* None of them waits for an update, which leaves the status alone.
UpdateInPlace(i, cfg) ==
    /\ cloud[i].phase \in Standing
    /\ cloud' = [cloud EXCEPT ![i].cfg = cfg]

UpdateFails ==
    /\ UpdateError
    /\ \E e \in Errors : ReportError(mem, "UpdateFailed", e, e)
    /\ UNCHANGED <<objectVars, cloud, lost>>

DeleteFails == DeleteError /\ ReturnError

\* What a target group or a route is once it is updated.
Synced(obj) ==
    [SetAvailable(obj, "Synced") EXCEPT !.status.res = "ready", !.status.err = NoError]

-----------------------------------------------------------------------------
(* Target groups.                                                          *)

ReconcileTargetGroup ==
    /\ Provisions
    /\ AllResolved(cache)
    /\ CreateOrSync
    /\ KeepRefs

\* Attachments are left to the next reconcile.
WriteCreatedTargetGroup ==
    /\ pc = "writeCreated"
    /\ PersistStatus
    /\ Return(Requeued)
    /\ fetched' = NoResource
    /\ UNCHANGED <<cloud, lost>>

CreateTargetGroup ==
    \/ ~Refused /\ (CreateReady(Sent) \/ CreateResourceFails(Sent))
    \/ CreateRefused
    \/ WriteCreating \/ WriteResourceIdAvailable \/ WriteCreatedTargetGroup

\* What Get answers is not looked at: every sync updates.
GetTargetGroup ==
    /\ Step("get", "update", mem)
    /\ Exists(mem.status.id)
    /\ UNCHANGED <<objectVars, fresh, budget, resourceVars>>

\* An empty list of attachments is not sent.
UpdateTargetGroup ==
    LET id == mem.status.id
    IN  /\ IF mem.spec.members # <<>>
           THEN Step("update", "attach", mem)
           ELSE Step("update", "writeSynced", Synced(mem))
        /\ UpdateInPlace(id, [cloud[id].cfg EXCEPT !.meta = mem.spec.meta])
        /\ UNCHANGED <<objectVars, fresh, budget, fetched, lost>>

SetAttachments ==
    LET id == mem.status.id
    IN  /\ Step("attach", "writeSynced", Synced(mem))
        /\ UpdateInPlace(id, [cloud[id].cfg EXCEPT !.members = mem.spec.members])
        /\ UNCHANGED <<objectVars, fresh, budget, fetched, lost>>

\* The error is logged and nothing else.
SetAttachmentsFails ==
    /\ Step("attach", "writeSynced", Synced(mem))
    /\ \/ cloud[mem.status.id].phase \notin Standing /\ UNCHANGED budget
       \/ Spend("faults")
    /\ UNCHANGED <<objectVars, fresh, resourceVars>>

SyncTargetGroup ==
    \/ GetTargetGroup \/ GetForgotten \/ GetFails \/ WriteForgotten
    \/ UpdateTargetGroup \/ UpdateFails \/ SetAttachments \/ SetAttachmentsFails
    \/ WriteSynced

DeleteTargetGroup == DeleteAtOnce \/ DeleteFails \/ RemoveFinalizer

TargetGroup == CreateTargetGroup \/ SyncTargetGroup \/ DeleteTargetGroup

-----------------------------------------------------------------------------
(* Routes of a route table: Thalassa finds one only through its table.     *)

Table == resolved.parents[1]

Found(id) == Exists(id) /\ cloud[id].cfg.parents[1] = Table /\ Live(Table)

\* Mutant: a table, or a target gateway, that has no identity yet is used as it is.
ReconcileRouteTableRouteUnready ==
    /\ Provisions
    /\ IF cache.status.id = NoId THEN CreateOrSync
       ELSE Dequeue(Observed(cache), "update") /\ UNCHANGED resourceVars
    /\ KeepRefs

\* There is no Get before the update.
ReconcileRouteTableRoute ==
    /\ Provisions
    /\ AllResolved(cache)
    /\ IF cache.status.id = NoId THEN CreateOrSync
       ELSE Dequeue(Observed(cache), "update") /\ UNCHANGED resourceVars
    /\ KeepRefs

CreateRouteTableRoute ==
    \/ ~Refused /\ (CreateReady(Sent) \/ CreateResourceFails(Sent))
    \/ CreateRefused
    \/ WriteCreating \/ WriteResourceIdAvailable \/ WriteCreated

UpdateRouteTableRoute ==
    LET id == mem.status.id
    IN  /\ Step("update", "writeSynced", Synced(mem))
        /\ Found(id) /\ AllLive(resolved.members)
        /\ UpdateInPlace(id, [cloud[id].cfg EXCEPT !.meta = mem.spec.meta,
                                                   !.members = resolved.members])
        /\ UNCHANGED <<objectVars, fresh, budget, fetched, lost>>

\* NotFound may be about the route or about the table.
UpdateForgotten ==
    /\ Forget("update")
    /\ ~Found(mem.status.id)
    /\ UNCHANGED <<objectVars, fresh, budget, resourceVars>>

UpdateRouteTableRouteFails ==
    /\ pc = "update"
    /\ \/ Found(mem.status.id) /\ ~AllLive(resolved.members) /\ UNCHANGED budget
       \/ Spend("faults")
    /\ \E e \in Errors : ReportError(mem, "UpdateFailed", e, e)
    /\ UNCHANGED <<objectVars, cloud, lost>>

SyncRouteTableRoute ==
    UpdateRouteTableRoute \/ UpdateForgotten \/ UpdateRouteTableRouteFails
    \/ WriteForgotten \/ WriteSynced

TableOf(obj) == ResolveRef(obj.spec.parents[1])

\* Without an identity of the table nothing is deleted.
ReconcileDeleteRoute ==
    /\ Reconciles /\ cache.deleting /\ cache.fin
    /\ Dequeue(Observed(cache),
               IF cache.status.id # NoId /\ TableOf(cache) \in RefIds THEN "delete"
               ELSE "removeFinalizer")
    /\ resolved' = [NoRefs EXCEPT !.parents = IF pc' = "delete" THEN <<TableOf(cache)>> ELSE @]
    /\ UNCHANGED resourceVars

\* NotFound counts as success, and may be about the table.
DeleteRoute ==
    LET id == mem.status.id
    IN  /\ Step("delete", "removeFinalizer", mem)
        /\ cloud' = [cloud EXCEPT ![id].phase = IF Found(id) THEN "gone" ELSE @]
        /\ UNCHANGED <<objectVars, fresh, budget, fetched, lost>>

DeleteRouteTableRoute == DeleteRoute \/ DeleteFails \/ RemoveFinalizer

RouteTableRoute == CreateRouteTableRoute \/ SyncRouteTableRoute \/ DeleteRouteTableRoute

-----------------------------------------------------------------------------
(* VPC peerings: pending until the other side, or spec.accept or           *)
(* spec.reject, answers.  Only the Ready condition is kept.                *)

PeeringReason(phase) ==
    CASE phase = "ready" -> "Active" [] phase = "rejected" -> "Rejected" [] OTHER -> phase

SetReadyFromPeeringStatus(obj, phase) ==
    [obj EXCEPT !.status.conds = SetStatusCondition(@, "Ready",
                                     IF phase = "ready" THEN "True" ELSE "False",
                                     PeeringReason(phase), "")]

\* Nothing is written before the creation.
ReconcilePeering ==
    /\ Provisions
    /\ AllResolved(cache)
    /\ Dequeue(Observed(cache), IF cache.status.id = NoId THEN "create" ELSE "get")
    /\ KeepRefs
    /\ UNCHANGED resourceVars

\* Thalassa may accept it at once.
CreatePeering ==
    \E i \in OwnIds, phase \in {"pending", "ready"} :
        /\ Step("create", "writeResourceId",
                [mem EXCEPT !.status.id = i, !.status.res = phase, !.status.err = NoError])
        /\ CloudCreateIn(i, Sent, phase)
        /\ UNCHANGED <<objectVars, fresh, budget, fetched, lost>>

WriteResourceIdPeering ==
    /\ PersistAndGo("writeResourceId", "writeCreated",
                    SetReadyFromPeeringStatus(mem, mem.status.res))
    /\ UNCHANGED resourceVars

CreateVpcPeeringConnection ==
    \/ ~Refused /\ (CreatePeering \/ CreateResourceFails(Sent))
    \/ CreateRefused
    \/ WriteResourceIdPeering \/ WriteCreated

Accepts(spec) == spec.answer \in {"accept", "both"}

Rejects(spec) == spec.answer = "reject"

PeeringSynced(obj, phase) ==
    [SetReadyFromPeeringStatus(obj, phase) EXCEPT !.status.res = phase, !.status.err = NoError]

\* While it is pending spec.accept and spec.reject come before everything else.
AnswerOrSync(obj, resource) ==
    IF resource.phase = "pending" /\ Accepts(obj.spec) THEN pc' = "accept" /\ mem' = obj
    ELSE IF resource.phase = "pending" /\ Rejects(obj.spec) THEN pc' = "reject" /\ mem' = obj
    ELSE IF obj.spec.meta # resource.cfg.meta THEN pc' = "update" /\ mem' = obj
    ELSE pc' = "writeSynced" /\ mem' = PeeringSynced(obj, resource.phase)

GetPeering ==
    LET resource == cloud[mem.status.id]
    IN  /\ pc = "get"
        /\ Exists(mem.status.id)
        /\ fetched' = resource
        /\ IF mem.status.res # resource.phase
           THEN /\ pc' = "writeResourceStatus"
                /\ mem' = [mem EXCEPT !.status.res = resource.phase, !.status.err = NoError]
           ELSE AnswerOrSync(mem, resource)
        /\ UNCHANGED <<objectVars, queue, fresh, budget, cloud, lost>>

WritePeeringStatus ==
    /\ pc = "writeResourceStatus"
    /\ PersistStatus
    /\ AnswerOrSync(mem, fetched)
    /\ fresh' = FALSE
    /\ UNCHANGED <<queue, resourceVars>>

\* Thalassa takes an answer to a pending peering only.
Answer(from, phase) ==
    LET id == mem.status.id
    IN  /\ Step(from, "writeSynced", PeeringSynced(mem, phase))
        /\ cloud[id].phase = "pending"
        /\ cloud' = [cloud EXCEPT ![id].phase = phase]
        /\ UNCHANGED <<objectVars, fresh, budget, fetched, lost>>

AnswerFails(from, reason) ==
    /\ pc = from
    /\ \/ cloud[mem.status.id].phase # "pending" /\ UNCHANGED budget
       \/ Spend("faults")
    /\ \E e \in Errors : ReportError(mem, reason, e, e)
    /\ UNCHANGED <<objectVars, cloud, lost>>

UpdatePeering ==
    LET id == mem.status.id
    IN  /\ Step("update", "refetch", mem)
        /\ UpdateInPlace(id, [cloud[id].cfg EXCEPT !.meta = mem.spec.meta])
        /\ UNCHANGED <<objectVars, fresh, budget, fetched, lost>>

RefetchPeering ==
    /\ Step("refetch", "writeSynced", PeeringSynced(mem, cloud[mem.status.id].phase))
    /\ Exists(mem.status.id)
    /\ UNCHANGED <<objectVars, fresh, budget, resourceVars>>

SyncVpcPeeringConnection ==
    \/ GetPeering \/ GetForgotten \/ GetFails \/ WriteForgotten \/ WritePeeringStatus
    \/ Answer("accept", "ready") \/ AnswerFails("accept", "AcceptFailed")
    \/ Answer("reject", "rejected") \/ AnswerFails("reject", "RejectFailed")
    \/ UpdatePeering \/ UpdateFails \/ RefetchPeering \/ RefetchReportsError
    \/ WriteSynced

DeleteVpcPeeringConnection == DeleteAtOnce \/ DeleteFails \/ RemoveFinalizer

VpcPeeringConnection ==
    CreateVpcPeeringConnection \/ SyncVpcPeeringConnection \/ DeleteVpcPeeringConnection

-----------------------------------------------------------------------------
(* The three reconcilers.                                                  *)

Reconcile ==
    \/ kind = "TargetGroup" /\ ReconcileTargetGroup
    \/ kind = "RouteTableRoute" /\ (ReconcileRouteTableRoute \/ ReconcileDeleteRoute)
    \/ kind = "VpcPeeringConnection" /\ ReconcilePeering
    \/ /\ ReconcileAnyDependent \/ (kind # "RouteTableRoute" /\ ReconcileDelete)
       /\ ForgetRefs

Worker ==
    /\ \/ Reconcile
       \/ /\ \/ kind = "TargetGroup" /\ TargetGroup
             \/ kind = "RouteTableRoute" /\ RouteTableRoute
             \/ kind = "VpcPeeringConnection" /\ VpcPeeringConnection
             \/ WriteError \/ StatusWriteFails
          /\ ForgetRefs
    /\ UNCHANGED <<dependencyVars, kind>>

\* The other side accepts (Provisioned) or rejects a peering, or never answers.
OtherSideRejects ==
    /\ kind = "VpcPeeringConnection"
    /\ \E i \in Ids : Rejected(i)
    /\ UNCHANGED <<runtimeVars, fetched, lost, dependencyVars, kind, resolved>>

\* A route table takes its routes with it.
TableGone(n) ==
    /\ RefGone(n) \/ (n \in Recreated /\ RefForgotten(n))
    /\ cloud' = [i \in Ids |->
                    IF Exists(i) /\ cloud[i].cfg.parents[1] = refs[n]
                    THEN [cloud[i] EXCEPT !.phase = "gone"] ELSE cloud[i]]
    /\ UNCHANGED <<objectVars, workerVars, fetched, lost, kind, resolved>>

OtherUsers ==
    \/ kind # "RouteTableRoute" /\ RefUsers
    \/ /\ kind = "RouteTableRoute"
       /\ \E n \in Names :
            \/ TableGone(n)
            \/ RefCreated(n) /\ UNCHANGED <<objectVars, workerVars, resourceVars, kind, resolved>>

Next ==
    Worker \/ Restarts \/ Environment \/ OtherSideRejects \/ Owners \/ OtherUsers \/ Drift

\* Nothing is waited for that only the cloud can bring about.
Fairness ==
    /\ WF_vars(Worker)
    /\ WF_vars(Watch /\ UNCHANGED <<dependencyVars, kind, resolved>>)
    /\ WF_vars(Timer /\ UNCHANGED <<dependencyVars, kind, resolved>>)
    /\ WF_vars(Owners)

Spec == Init /\ [][Next]_vars

FairSpec == Spec /\ Fairness

-----------------------------------------------------------------------------
(* What the three reconcilers promise, beside what every one does.         *)

WantsResource == api.exists /\ ~api.suspended

\* An answer refused once more, with the words that are in the status already, is
\* not reported again: the observed generation stays behind.
AnswerRefused ==
    /\ api.spec.answer # "none"
    /\ api.status.conds["Error"].reason \in {"AcceptFailed", "RejectFailed"}

\* A peering that is answered is not renamed by the same reconcile; what setting
\* the attachments did is not looked at.
InSync ==
    LET resource == cloud[api.status.id]
    IN  /\ Exists(api.status.id)
        /\ api.status.obsGen = api.gen \/ AnswerRefused
        /\ IF kind = "VpcPeeringConnection"
           THEN api.spec.answer = "none" => resource.cfg.meta = api.spec.meta
           ELSE /\ resource.cfg.meta = api.spec.meta
                /\ IsTrue(api.status.conds, "Ready")
        /\ kind = "RouteTableRoute" =>
               /\ resource.cfg.parents[1] = ResolveRef(api.spec.parents[1])
               /\ resource.cfg.members = Resolve(MemberRefs(api.spec))
        /\ kind = "TargetGroup" /\ api.spec.members # <<>> /\ budget["faults"] = MaxFaults =>
               resource.cfg.members = api.spec.members

(* As long as the objects it refers to stay, nobody changes the resource    *)
(* behind the cluster's back and one call at most has failed (the error     *)
(* helper requeues no failure twice), the controller comes to rest only     *)
(* when a deleted CR is gone and the resource of any other one has what     *)
(* the CR says, its references resolved to the identities the objects have  *)
(* now.                                                                     *)
RestsInSync ==
    AtRest /\ Undrifted /\ OneFault /\ RefsKept /\ WantsResource => ~api.deleting /\ InSync

(* A resource Thalassa no longer has is created again, although clearing    *)
(* status.resourceId and creating are two reconciles; unless the CR or an   *)
(* object it refers to goes first (the NotFound branches).                  *)
ForgottenIsRecreated ==
    pc = "writeForgotten"
        ~> Exists(api.status.id) \/ ~api.exists \/ api.deleting \/ \E n \in Names : refs[n] = Missing

(* status.resourceId is written once, taken back when Thalassa no longer    *)
(* has the resource, and never replaced by another without an interval in   *)
(* which the others see none: Dependencies assumes the same of Recreated.   *)
ImplementsRecreatedReference == Reference!RecreatedSpec

-----------------------------------------------------------------------------
(* Why a route is not forgotten, although NotFound may be about its table: *)
(* what LifecycleInv needs besides, as long as routeTableRef is never      *)
(* edited.                                                                 *)

OneTable == \A s, t \in Specs : s.parents[1] = t.parents[1]

\* Every route there is is in the table the CR names; while the worker holds
\* another one, that table is gone for good, and there is no route.
RoutesInTable == kind = "RouteTableRoute" =>
    /\ \A i \in OwnIds : Exists(i) =>
          TableOf(api) \in RefIds /\ Live(TableOf(api)) /\ cloud[i].cfg.parents[1] = TableOf(api)
    /\ pc \in NeedRefs =>
          \/ Table = TableOf(api)
          \/ Table \in recorded /\ ~Live(Table) /\ \A i \in OwnIds : ~Exists(i)

RecreatingInv == LifecycleInv /\ RefsDistinct /\ RoutesInTable

-----------------------------------------------------------------------------
(* What the documentation says and the code does not keep, refuted by runs  *)
(* of their own.                                                            *)

(* docs/overview.md: "deleting the CR removes it from Thalassa", whatever   *)
(* routeTableRef the CR had when the route was made.                        *)
DeletingRemovesRoute ==
    ~api.exists => \A i \in OwnIds : ~Exists(i)

(* docs/vpcpeeringconnection.md: with spec.accept the "controller calls     *)
(* Accept on pending peering".                                              *)
PendingIsAccepted ==
    AtRest /\ WantsResource /\ ~api.deleting /\ Accepts(api.spec) /\ Exists(api.status.id)
        => cloud[api.status.id].phase # "pending"
===============================================================================
