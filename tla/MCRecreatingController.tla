------------------------ MODULE MCRecreatingController ------------------------
(* Instances of RecreatingController small enough for TLC. *)
EXTENDS RecreatingController, TLC

CONSTANTS n1, n2, w     \* two names and an identity

AllCfgs == [parents : SeqOf(RefIds, MaxRefs), members : SeqOf(Names \cup RefIds, MaxRefs),
            meta : Metas]

\* Where what a resource starts with makes no difference.
OneCfg == {CHOOSE c \in AllCfgs : TRUE}

\* Everything by name; accepts a peering.
ByName == [ref |-> NoId, valid |-> TRUE, parents |-> <<n1, n1>>, members |-> <<w>>,
           meta |-> "m1", answer |-> "accept"]

\* A route by the same table to a peering or gateway by name; rejects a peering.
Rerouted == [ByName EXCEPT !.members = <<n2>>, !.meta = "m2", !.answer = "reject"]

\* Renamed; without attachments, and without an answer to a peering.
Renamed == [ByName EXCEPT !.members = <<>>, !.meta = "m2", !.answer = "none"]

AllSpecs == {ByName, Rerouted, Renamed}

\* The route is moved to a table that is named by its identity.
Moved == [ByName EXCEPT !.parents = <<w, n1>>]

MovingSpecs == {ByName, Moved}

AcceptingSpecs == {ByName}

AllTexts ==
    Reasons \cup Errors \cup Names \cup Phases \cup
    {"", "Reconciled", "VolumeNotFound", "VPCNotFound", "SubnetNotFound",
     "SecurityGroupNotFound", "TargetGroupNotFound", "RouteTableNotFound",
     "TargetGatewayNotFound", "RequesterVPCNotFound", "GetFailed after create",
     "GetFailed after update", "UpdateFailed", "AcceptFailed", "RejectFailed",
     "Active", "Rejected"}
===============================================================================
