-------------------------- MODULE MCNetworkController --------------------------
(* Instances of NetworkController small enough for TLC. *)
EXTENDS NetworkController, TLC

CONSTANTS n1, n2, w     \* two names and an identity

AllCfgs == [parents : SeqOf(RefIds, MaxRefs), members : SeqOf(Names \cup RefIds, MaxRefs),
            meta : Metas]

\* Where what a resource starts with makes no difference.
OneCfg == {CHOOSE c \in AllCfgs : TRUE}

ByName == [ref |-> NoId, valid |-> TRUE, parents |-> <<n1, n2>>, members |-> <<n2>>,
           meta |-> "m1"]

\* In another subnet, with another security group.
ByIdentity == [ByName EXCEPT !.parents = <<w, n1>>, !.members = <<w, n2>>, !.meta = "m2"]

\* Renamed only.
Renamed == [ByName EXCEPT !.meta = "m2"]

AllSpecs == {ByName, ByIdentity, Renamed}

AllTexts ==
    Reasons \cup Errors \cup Names \cup
    {"", "Reconciled", "VolumeNotFound", "VPCNotFound", "SubnetNotFound",
     "SecurityGroupNotFound", "TargetGroupNotFound", "RouteTableNotFound",
     "TargetGatewayNotFound", "RequesterVPCNotFound", "GetFailed after create",
     "GetFailed after update", "UpdateFailed"}
===============================================================================
