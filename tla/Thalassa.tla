------------------------------- MODULE Thalassa -------------------------------
(***************************************************************************)
(* The Thalassa IaaS API as the controllers see it through client-go/iaas: *)
(* resources with an identity the cloud chooses, a status and a            *)
(* configuration, that are provisioned and removed asynchronously.         *)
(* External code, modelled from the calls in internal/controller.          *)
(***************************************************************************)
EXTENDS Naturals

CONSTANTS
    OwnIds,   \* identities the cloud may still hand out for created resources
    ExtIds,   \* identities of resources that exist before the controller runs
    NoId,     \* the empty identity
    Cfgs,     \* what Create and Update send: name, labels, description, CIDRs
    ExtCfgs   \* those of them the resources of ExtIds may start with

ASSUME IdsAssumption == /\ OwnIds \cap ExtIds = {}
                        /\ NoId \notin OwnIds \cup ExtIds

ASSUME CfgsAssumption == Cfgs # {} /\ ExtCfgs # {} /\ ExtCfgs \subseteq Cfgs

VARIABLE
    cloud     \* identity -> its resource

Ids == OwnIds \cup ExtIds

\* "unaddressed" is a gateway that is ready and has no address yet, "ready" a
\* peering that is active; only a peering can be rejected.
Standing == {"pending", "unaddressed", "ready", "rejected"}

Phases == Standing \cup {"none", "deleting", "gone"}

Resource == [phase : Phases, cfg : Cfgs]

\* A resource GetVpc finds; every other identity answers NotFound.
Exists(i) == i \in Ids /\ cloud[i].phase \in Standing \cup {"deleting"}

CloudTypeOK == cloud \in [Ids -> Resource]

CloudInit ==
    LET blank == CHOOSE c \in Cfgs : TRUE
    IN  \E cfgs \in [ExtIds -> ExtCfgs] :
            cloud = [i \in Ids |-> IF i \in ExtIds
                                   THEN [phase |-> "ready", cfg |-> cfgs[i]]
                                   ELSE [phase |-> "none", cfg |-> blank]]

-----------------------------------------------------------------------------
(* What a call that reaches the cloud does to it.                          *)

\* An identity is never handed out twice; which of the others it is makes no
\* difference, so one is chosen.
CloudCreateIn(i, cfg, phase) ==
    /\ cloud[i].phase = "none"
    /\ i = CHOOSE j \in OwnIds : cloud[j].phase = "none"
    /\ cloud' = [cloud EXCEPT ![i] = [phase |-> phase, cfg |-> cfg]]

CloudCreate(i, cfg) == CloudCreateIn(i, cfg, "pending")

\* An update may take the resource back to pending.
CloudUpdate(i, cfg) ==
    /\ i \in Ids
    /\ cloud[i].phase \in Standing
    /\ \E phase \in {"pending", cloud[i].phase} :
        cloud' = [cloud EXCEPT ![i] = [phase |-> phase, cfg |-> cfg]]

CloudDelete(i) ==
    cloud' = [cloud EXCEPT ![i].phase = IF Exists(i) THEN "deleting" ELSE @]

-----------------------------------------------------------------------------
(* What the cloud does by itself.                                          *)

Provisioned(i) ==
    /\ cloud[i].phase = "pending"
    /\ cloud' = [cloud EXCEPT ![i].phase = "ready"]

\* A gateway gets its address later than it gets ready.
ReadyUnaddressed(i) ==
    /\ cloud[i].phase = "pending"
    /\ cloud' = [cloud EXCEPT ![i].phase = "unaddressed"]

Addressed(i) ==
    /\ cloud[i].phase = "unaddressed"
    /\ cloud' = [cloud EXCEPT ![i].phase = "ready"]

\* The other side of a peering turns it down.
Rejected(i) ==
    /\ cloud[i].phase = "pending"
    /\ cloud' = [cloud EXCEPT ![i].phase = "rejected"]

Removed(i) ==
    /\ cloud[i].phase = "deleting"
    /\ cloud' = [cloud EXCEPT ![i].phase = "gone"]

CloudProgress == \E i \in Ids : Provisioned(i) \/ Removed(i)

\* Somebody deletes or edits the resource without going through the cluster.
OutOfBandDelete(i) ==
    /\ cloud[i].phase \in Standing
    /\ cloud' = [cloud EXCEPT ![i].phase = "gone"]

OutOfBandEdit(i, cfg) ==
    /\ cloud[i].phase = "ready"
    /\ cfg # cloud[i].cfg
    /\ cloud' = [cloud EXCEPT ![i].cfg = cfg]
===============================================================================
