-------------------------- MODULE MCSubnetController --------------------------
(* Instances of SubnetController small enough for TLC. *)
EXTENDS SubnetController, TLC

\* cfg of a subnet as Thalassa has it.
AllCfgs == [vpc : RefIds, cidr : Cidrs, meta : Metas]

\* Where what a resource starts with makes no difference.
OneCfg == {CHOOSE c \in AllCfgs : TRUE}

InVpc(vpc, meta) ==
    [ref |-> NoId, valid |-> TRUE, vpc |-> vpc, cidr |-> CHOOSE c \in Cidrs : TRUE, meta |-> meta]

\* spec.cidr is missing.
Incomplete == [InVpc(CHOOSE n \in Names : TRUE, "m1") EXCEPT !.valid = FALSE]

ReferenceTo(e) == [Incomplete EXCEPT !.ref = e]

NamedSpecs == {InVpc(n, m) : n \in Names, m \in Metas}

ProvisionedSpecs == {InVpc(v, "m1") : v \in ExtRefIds} \cup NamedSpecs

LiveSpecs == NamedSpecs \cup {Incomplete} \cup {ReferenceTo(e) : e \in ExtIds}

AllSpecs == ProvisionedSpecs \cup LiveSpecs

AllTexts ==
    Reasons \cup Errors \cup {"", "Reconciled", "VPCNotFound", "UpdateFailed"} \cup Names
===============================================================================
