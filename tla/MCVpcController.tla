--------------------------- MODULE MCVpcController ---------------------------
(* Instances of VpcController small enough for TLC. *)
EXTENDS VpcController, TLC

Provisioned1 == [ref |-> NoId, valid |-> TRUE, cfg |-> "c1"]
Provisioned2 == [ref |-> NoId, valid |-> TRUE, cfg |-> "c2"]
Incomplete == [ref |-> NoId, valid |-> FALSE, cfg |-> "c1"]
ReferenceTo(e) == [ref |-> e, valid |-> FALSE, cfg |-> "c1"]

LiveSpecs == {Provisioned1, Provisioned2} \cup {ReferenceTo(e) : e \in ExtIds}
ProvisionedSpecs == {Provisioned1, Provisioned2, Incomplete}
AllSpecs == ProvisionedSpecs \cup {ReferenceTo(e) : e \in ExtIds}

AllTexts == Reasons \cup Errors \cup {"", "Reconciled"}
===============================================================================
