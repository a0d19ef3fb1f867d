--------------------------- MODULE ReferencedObject ---------------------------
(***************************************************************************)
(* A custom resource as the others see it, through resolveVPCRef and its   *)
(* copies: nothing but its status.resourceId.                              *)
(*   - It is written once: an object never shows another identity than the *)
(*     first it has shown.                                                 *)
(*   - It is taken back only by disappearing, except by the controllers    *)
(*     that create a resource again when Thalassa no longer has it.        *)
(* Every controller implements this, and Dependencies describes objects    *)
(* that do: what is checked of one controller, given such objects, holds   *)
(* of all of them together.                                                *)
(***************************************************************************)

CONSTANTS
    Identities, \* what status.resourceId may be
    NoId,       \* no identity yet
    Missing     \* there is no such object

VARIABLE
    shown       \* what a lookup of the object answers

TypeOK == shown \in Identities \cup {NoId, Missing}

Init == shown \in {NoId, Missing}

Appears == shown = Missing /\ shown' = NoId

Records == shown = NoId /\ shown' \in Identities

Forget == shown \in Identities /\ shown' = NoId

Disappears == shown # Missing /\ shown' = Missing

Next == Appears \/ Records \/ Disappears

Spec == Init /\ [][Next]_shown

\* An object of a kind that is created again.
RecreatedSpec == Init /\ [][Next \/ Forget]_shown
===============================================================================
