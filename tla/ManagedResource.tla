--------------------------- MODULE ManagedResource ---------------------------
(***************************************************************************)
(* What every controller of this repository promises about one custom      *)
(* resource and the cloud resource it stands for, without a word on caches,*)
(* queues, retries or finalizers:                                          *)
(*   - there is at most one cloud resource per custom resource,            *)
(*   - once it is recorded it stays recorded until it is gone,             *)
(*   - a custom resource disappears only when it has none.                 *)
(* The one exception is stated, not hidden: a resource whose creation was  *)
(* not recorded yet may be forgotten, and is a stray from then on.         *)
(***************************************************************************)

CONSTANT Ids        \* identities of cloud resources

VARIABLES
    cr,             \* the custom resource
    resource,       \* its cloud resource
    strays          \* forgotten cloud resources

vars == <<cr, resource, strays>>

TypeOK ==
    /\ cr \in {"present", "deleting", "absent"}
    /\ resource \in {"none", "unrecorded", "recorded"}
    /\ strays \subseteq Ids

Init == cr = "present" /\ resource = "none" /\ strays = {}

Provision ==
    /\ cr # "absent" /\ resource = "none"
    /\ resource' = "unrecorded"
    /\ UNCHANGED <<cr, strays>>

Record ==
    /\ resource = "unrecorded"
    /\ resource' = "recorded"
    /\ UNCHANGED <<cr, strays>>

\* Created, and the identity never reaches the custom resource.
Forget(i) ==
    /\ cr # "absent" /\ resource # "recorded"
    /\ resource' = "none"
    /\ strays' = strays \cup {i}
    /\ UNCHANGED cr

\* The cloud resource goes, on request or behind the controller's back; what it
\* was part of may take strays with it.
Remove ==
    /\ resource' = "none"
    /\ strays' \in SUBSET strays
    /\ UNCHANGED cr

\* So do strays, one by one or several at once with what they were part of.
RemoveStrays ==
    /\ strays' \in SUBSET strays
    /\ UNCHANGED <<cr, resource>>

MarkDeleted ==
    /\ cr = "present"
    /\ cr' = "deleting"
    /\ UNCHANGED <<resource, strays>>

Disappear ==
    /\ cr # "absent" /\ resource = "none"
    /\ cr' = "absent"
    /\ UNCHANGED <<resource, strays>>

CreateAgain ==
    /\ cr = "absent"
    /\ cr' = "present"
    /\ UNCHANGED <<resource, strays>>

Next ==
    \/ Provision \/ Record \/ Remove \/ RemoveStrays
    \/ \E i \in Ids : Forget(i)
    \/ MarkDeleted \/ Disappear \/ CreateAgain

Spec == Init /\ [][Next]_vars
===============================================================================
