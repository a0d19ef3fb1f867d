------------------------------ MODULE Conditions ------------------------------
(***************************************************************************)
(* The status conditions every custom resource of the controller carries,  *)
(* and the helpers of internal/controller/helpers.go that rewrite them.    *)
(*                                                                         *)
(* A conditions slice is a map: the CRDs declare it listType=map with the  *)
(* type as its key.  It is a function from the five condition types the    *)
(* code writes to a condition, with Absent for a type that has no entry.   *)
(* LastTransitionTime is left out: nothing reads it.                       *)
(***************************************************************************)

ConditionTypes == {"Available", "Progressing", "Degraded", "Ready", "Error"}

\* A type that has no entry in the slice.
Absent == [status |-> "Absent", reason |-> "", message |-> ""]

CONSTANT Texts      \* the reasons and messages the code writes

ASSUME TextsAssumption == {"", "Reconciled"} \subseteq Texts

Condition == [status : {"Absent", "True", "False"}, reason : Texts, message : Texts]

Conditions == [ConditionTypes -> Condition]

NoConditions == [t \in ConditionTypes |-> Absent]

IsTrue(conds, type) == conds[type].status = "True"

-----------------------------------------------------------------------------
(* The apimachinery helpers, seen through the fields the code sets.        *)

SetStatusCondition(conds, type, status, reason, message) ==
    [conds EXCEPT ![type] = [status |-> status, reason |-> reason, message |-> message]]

\* What meta.SetStatusCondition returns: whether the call changed anything.
StatusConditionChanges(conds, type, status, reason, message) ==
    SetStatusCondition(conds, type, status, reason, message) # conds

RemoveStatusCondition(conds, type) == [conds EXCEPT ![type] = Absent]

-----------------------------------------------------------------------------
(* SetStandardConditions.  Every caller passes one fixed message for a     *)
(* reason, so the reason stands for the message as well; only the Error    *)
(* condition and the adoption path, which write messages of their own, go  *)
(* through SetStatusCondition directly.                                    *)

Available(conds, reason) ==
    LET c1 == SetStatusCondition(conds, "Available", "True", reason, reason)
        c2 == SetStatusCondition(c1, "Progressing", "False", "Reconciled", "")
        c3 == RemoveStatusCondition(c2, "Degraded")
    IN  SetStatusCondition(c3, "Ready", "True", reason, reason)

Degraded(conds, reason) ==
    LET c1 == SetStatusCondition(conds, "Available", "False", reason, reason)
        c2 == RemoveStatusCondition(c1, "Progressing")
        c3 == SetStatusCondition(c2, "Degraded", "True", reason, reason)
    IN  SetStatusCondition(c3, "Ready", "False", reason, reason)

Progressing(conds, reason) ==
    LET c1 == SetStatusCondition(conds, "Available", "False", reason, reason)
        c2 == SetStatusCondition(c1, "Progressing", "True", reason, reason)
        c3 == RemoveStatusCondition(c2, "Degraded")
    IN  SetStatusCondition(c3, "Ready", "False", reason, reason)
===============================================================================
