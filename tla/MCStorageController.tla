-------------------------- MODULE MCStorageController --------------------------
(* Instances of StorageController small enough for TLC. *)
EXTENDS StorageController, TLC

CONSTANTS n1, n2, w     \* two names and an identity

AllCfgs == [parents : SeqOf(RefIds, MaxRefs), members : SeqOf(Names \cup RefIds, MaxRefs),
            meta : Metas]

\* Where what a resource starts with makes no difference.
OneCfg == {CHOOSE c \in AllCfgs : TRUE}

\* The VPC, or a snapshot's volume, by name.
ByName(meta) == [ref |-> NoId, valid |-> TRUE, parents |-> <<n1, w>>, members |-> <<n2>>,
                 meta |-> meta, region |-> FALSE, volumeType |-> TRUE]

\* By identity, and without a volume type, which only a volume needs.
ByIdentity(meta) == [ByName(meta) EXCEPT !.parents = <<w, n2>>, !.members = <<w, n1>>,
                                         !.region = TRUE, !.volumeType = FALSE]

AllSpecs == {ByName(m) : m \in Metas} \cup {ByIdentity("m1")}

AllTexts ==
    Reasons \cup Errors \cup Names \cup
    {"", "Reconciled", "VolumeNotFound", "VPCNotFound", "SubnetNotFound",
     "SecurityGroupNotFound", "TargetGroupNotFound", "RouteTableNotFound",
     "TargetGatewayNotFound", "RequesterVPCNotFound", "RegionNotFound", "FailedListVolumeTypes",
     "FailedFindVolumeType", "FailedUpdate", "GetFailed after create",
     "GetFailed after update", "DeleteFailed"}
===============================================================================
