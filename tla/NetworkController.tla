--------------------------- MODULE NetworkController ---------------------------
(***************************************************************************)
(* The reconcilers of SecurityGroup, RouteTable, NatGateway and            *)
(* Loadbalancer: securitygroup_controller.go, routetable_controller.go,    *)
(* natgateway_controller.go and loadbalancer_controller.go.  They keep     *)
(* what Get answered until the update is sent: a security group's version, *)
(* a load balancer's subnet, and a gateway's status even after a wait.     *)
(* Unlike the storage kinds they leave the last error when a sync          *)
(* succeeds, and a deletion that fails goes back to the queue as it is.    *)
(***************************************************************************)
EXTENDS DependentReconciler

\* The first of parents is the vpcRef or subnetRef, the second the target group
\* of a load balancer's listener; members is securityGroupRefs.
ASSUME NetworkAssumption ==
    /\ Kinds \subseteq {"SecurityGroup", "RouteTable", "NatGateway", "Loadbalancer"}
    /\ "UpdateFailed" \in Texts

TypeOK == DependentTypeOK

Init == DependentInit

-----------------------------------------------------------------------------
(* Reconcile, once the references are resolved.                            *)

\* Mutant: an empty status.resourceId is an identity like any other.
ReconcileNetworkUnready ==
    /\ Provisions
    /\ CreateOrSync
    /\ KeepRefs

ReconcileNetwork ==
    /\ Provisions
    /\ AllResolved(cache)
    /\ CreateOrSync
    /\ KeepRefs

Reconcile ==
    \/ ReconcileNetwork
    \/ (ReconcileAnyDependent \/ ReconcileDelete) /\ ForgetRefs

-----------------------------------------------------------------------------
(* Creation.                                                               *)

\* The status Create answered is written, and nothing is waited for.
CreateSecurityGroup ==
    \/ ~Refused /\ (CreateResource(Sent) \/ CreateResourceFails(Sent))
    \/ CreateRefused
    \/ WriteCreating \/ WriteResourceIdAvailable \/ WriteCreated

CreateRouteTable ==
    \/ ~Refused /\ (CreateReady(Sent) \/ CreateResourceFails(Sent))
    \/ CreateRefused
    \/ WriteCreating \/ WriteResourceIdAvailable \/ WriteCreated

CreateNatGateway == WriteCreating \/ CreateAndWait

CreateLoadbalancer == WriteCreating \/ CreateAndWait

-----------------------------------------------------------------------------
(* Syncing a resource that has an identity.                                *)

\* Only a load balancer's subnet is compared; its listeners are not.
SubnetDiffers(resource) ==
    kind = "Loadbalancer" /\ resource.cfg.parents[1] # resolved.parents[1]

\* Name, labels, description, rules, deleteProtection and, of the kinds that
\* have them, the security groups.
RequiresUpdate(obj, resource) ==
    \/ obj.spec.meta # resource.cfg.meta
    \/ resolved.members # resource.cfg.members
    \/ SubnetDiffers(resource)

\* A route table has no status of its own to compare.
SyncStatus(resource) ==
    IF kind # "RouteTable" /\ mem.status.res # resource.phase
    THEN /\ pc' = "writeResourceStatus"
         /\ mem' = [mem EXCEPT !.status.res = resource.phase, !.status.err = NoError]
    ELSE SyncSpec(mem, RequiresUpdate(mem, resource))

\* A gateway that is ready and has no address is waited for.
GetNetwork ==
    LET resource == cloud[mem.status.id]
    IN  /\ pc = "get"
        /\ Exists(mem.status.id)
        /\ fetched' = resource
        /\ IF kind = "NatGateway" /\ resource.phase = "unaddressed"
           THEN pc' = "waitEndpoint" /\ UNCHANGED mem
           ELSE SyncStatus(resource)
        /\ UNCHANGED <<objectVars, queue, fresh, budget, cloud, lost>>

\* What the wait answers is dropped: the status is compared with what Get
\* answered before it.
EndpointReady ==
    /\ pc = "waitEndpoint"
    /\ cloud[mem.status.id].phase = "ready"
    /\ SyncStatus(fetched)
    /\ UNCHANGED <<objectVars, queue, fresh, budget, resourceVars>>

EndpointFails ==
    /\ pc = "waitEndpoint"
    /\ \/ ~Exists(mem.status.id) /\ UNCHANGED budget
       \/ Spend("faults")
    /\ ReturnError

WriteNetworkStatus ==
    /\ pc = "writeResourceStatus"
    /\ PersistStatus
    /\ SyncSpec(mem, RequiresUpdate(mem, fetched))
    /\ fresh' = FALSE
    /\ UNCHANGED <<queue, resourceVars>>

\* A security group's update names the version it was made from, which any
\* change of the group makes an old one.
UpdateAccepted ==
    /\ kind = "SecurityGroup" => cloud[mem.status.id].cfg = fetched.cfg
    /\ AllLive(resolved.members)
    /\ SubnetDiffers(fetched) => Live(resolved.parents[1])

\* Mutant: the subnet is never sent.
UpdatedKeepingSubnet(cfg) ==
    [cfg EXCEPT !.meta = mem.spec.meta, !.members = resolved.members]

\* The subnet is sent when it was another one.
Updated(cfg) ==
    [cfg EXCEPT !.meta = mem.spec.meta,
                !.members = resolved.members,
                !.parents = IF SubnetDiffers(fetched)
                            THEN [@ EXCEPT ![1] = resolved.parents[1]] ELSE @]

UpdateNetwork ==
    LET id == mem.status.id
    IN  /\ pc = "update"
        /\ UpdateAccepted
        /\ CloudUpdate(id, Updated(cloud[id].cfg))
        /\ Step("update", "writeUpdated",
                [mem EXCEPT !.status.res = IF kind = "RouteTable" THEN "ready"
                                           ELSE cloud'[id].phase,
                            !.status.err = NoError])
        /\ UNCHANGED <<objectVars, fresh, budget, fetched, lost>>

UpdateNetworkFails ==
    /\ \/ UpdateError
       \/ pc = "update" /\ ~UpdateAccepted /\ UNCHANGED budget
    /\ \E e \in Errors : ReportError(mem, "UpdateFailed", e, e)
    /\ UNCHANGED <<objectVars, cloud, lost>>

SyncAnyNetwork ==
    \/ GetNetwork \/ GetNotFound \/ GetFails \/ WriteNotFound
    \/ WriteUpdating \/ UpdateNetwork \/ UpdateNetworkFails \/ WriteSynced

SyncAndRefetch ==
    \/ SyncAnyNetwork \/ WriteNetworkStatus
    \/ WriteUpdated("refetch") \/ Refetch \/ RefetchReportsError \/ WriteRefetched

SyncSecurityGroup == SyncAndRefetch

\* What was written is not fetched again.
WriteUpdatedRouteTable ==
    /\ PersistAndGo("writeUpdated", "writeSynced", SetAvailable(mem, "Synced"))
    /\ UNCHANGED resourceVars

SyncRouteTable == SyncAnyNetwork \/ WriteUpdatedRouteTable

SyncNatGateway == SyncAndRefetch \/ EndpointReady \/ EndpointFails

SyncLoadbalancer == SyncAndRefetch

-----------------------------------------------------------------------------
(* Deletion.                                                               *)

DeleteFails == DeleteError /\ ReturnError

DeleteSecurityGroup == DeleteAtOnce \/ DeleteFails \/ RemoveFinalizer

DeleteRouteTable == DeleteAtOnce \/ DeleteFails \/ RemoveFinalizer

DeleteAndWait ==
    DeleteAccepted \/ DeleteFails \/ WaitDeleted \/ WaitDeletedFails \/ RemoveFinalizer

DeleteNatGateway == DeleteAndWait

DeleteLoadbalancer == DeleteAndWait

-----------------------------------------------------------------------------
(* The four reconcilers.                                                   *)

SecurityGroup == CreateSecurityGroup \/ SyncSecurityGroup \/ DeleteSecurityGroup

RouteTable == CreateRouteTable \/ SyncRouteTable \/ DeleteRouteTable

NatGateway == CreateNatGateway \/ SyncNatGateway \/ DeleteNatGateway

Loadbalancer == CreateLoadbalancer \/ SyncLoadbalancer \/ DeleteLoadbalancer

Worker ==
    /\ \/ Reconcile
       \/ /\ \/ kind = "SecurityGroup" /\ SecurityGroup
             \/ kind = "RouteTable" /\ RouteTable
             \/ kind = "NatGateway" /\ NatGateway
             \/ kind = "Loadbalancer" /\ Loadbalancer
             \/ WriteError \/ StatusWriteFails
          /\ ForgetRefs
    /\ UNCHANGED <<dependencyVars, kind>>

\* A gateway may become ready before it gets its address.
AddressComes ==
    /\ kind = "NatGateway"
    /\ \E i \in Ids : ReadyUnaddressed(i) \/ Addressed(i)
    /\ UNCHANGED <<runtimeVars, fetched, lost, dependencyVars, kind, resolved>>

Next ==
    Worker \/ Restarts \/ Environment \/ AddressComes \/ Owners \/ RefUsers \/ Drift

Provisioning == \/ Cloud /\ UNCHANGED <<dependencyVars, kind, resolved>>
                \/ AddressComes

\* The controllers of the objects referred to are as fair as this one.
Fairness ==
    /\ WF_vars(Worker)
    /\ WF_vars(Watch /\ UNCHANGED <<dependencyVars, kind, resolved>>)
    /\ WF_vars(Timer /\ UNCHANGED <<dependencyVars, kind, resolved>>)
    /\ WF_vars(Provisioning)
    /\ WF_vars(Owners)

Spec == Init /\ [][Next]_vars

FairSpec == Spec /\ Fairness

-----------------------------------------------------------------------------
(* What the four reconcilers promise, beside what every one does.          *)

WantsResource == api.exists /\ ~api.suspended

InSync ==
    LET resource == cloud[api.status.id]
    IN  /\ Exists(api.status.id)
        /\ resource.cfg.meta = api.spec.meta
        /\ resource.cfg.members = Resolve(MemberRefs(api.spec))
        /\ kind = "Loadbalancer" => resource.cfg.parents[1] = ResolveRef(api.spec.parents[1])
        /\ IsTrue(api.status.conds, "Ready")
        /\ api.status.obsGen = api.gen

(* As long as the objects it refers to stay, nobody changes the resource    *)
(* behind the cluster's back and one call at most has failed (the error     *)
(* helper requeues no failure twice), the controller comes to rest only     *)
(* when a deleted CR is gone and the resource of any other one has what     *)
(* Update sends, its references resolved to the identities the objects have *)
(* now.                                                                     *)
RestsInSync ==
    AtRest /\ Undrifted /\ OneFault /\ RefsKept /\ WantsResource => ~api.deleting /\ InSync

-----------------------------------------------------------------------------
(* Why it rests only in sync: the inductive invariant of the proof.         *)

\* Nobody else changes the resource between Get and the update.
FetchedNow ==
    Undrifted /\ pc \in {"waitEndpoint", "writeResourceStatus", "writeUpdating", "update"} =>
        fetched.cfg = cloud[mem.status.id].cfg

RestsDone ==
    NotLost /\ Calm /\ Unattended
        => RefReportedMissing \/ (~api.deleting /\ Settled(Matching))

RestInv ==
    /\ LeakInv
    /\ TypeOK
    /\ RefsDistinct
    /\ RefsHeld
    /\ Placed
    /\ VersionInv
    /\ FetchedNow
    /\ NotLost => ErrorsAmong({"", "InvalidSpec"} \cup NotFoundReasons)
    /\ NotLost => Applied(Matching)
    /\ RestsDone
===============================================================================
