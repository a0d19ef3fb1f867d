----------------------------- MODULE Dependencies -----------------------------
(***************************************************************************)
(* The custom resources another one refers to, and the way a reconciler    *)
(* looks them up (resolveVPCRef, resolveVolumeRef and their copies).  The  *)
(* controllers these objects belong to are seen through what the cache     *)
(* shows of each object: its status.resourceId.                            *)
(***************************************************************************)
EXTENDS KubeRuntime

CONSTANTS
    Names,      \* names of the objects referred to
    OwnRefIds,  \* identities these objects may come to record
    ExtRefIds,  \* identities that are always there, for a reference by identity
    Missing,    \* what the cache answers for an object that is not there
    RefStart,   \* what it answers at the beginning: Missing or NoId
    RefsStay    \* these objects are not deleted

RefIds == OwnRefIds \cup ExtRefIds

ASSUME RefsAssumption ==
    /\ OwnRefIds \cap ExtRefIds = {}
    /\ Names \cap RefIds = {}
    /\ Missing \notin RefIds \cup {NoId} /\ NoId \notin RefIds
    /\ RefStart # {} /\ RefStart \subseteq {Missing, NoId}
    /\ RefsStay \in BOOLEAN

VARIABLES
    refs,       \* object -> its status.resourceId in the cache
    recorded    \* history: the identities these objects have recorded

dependencyVars == <<refs, recorded>>

RefsTypeOK ==
    /\ refs \in [Names -> {Missing, NoId} \cup OwnRefIds]
    /\ recorded \subseteq OwnRefIds

RefsInit ==
    /\ refs \in [Names -> RefStart]
    /\ recorded = {}

\* A reference is a name or, when its identity field is set, that identity.
\* NoId stands for ErrDependencyNotReady.
ResolveRef(ref) == IF ref \in RefIds THEN ref ELSE refs[ref]

\* What Thalassa has; it refuses a request that names anything else.
Live(id) == id \in ExtRefIds \/ \E n \in Names : refs[n] = id

-----------------------------------------------------------------------------
(* The objects, as their controller and their users change them.           *)

RefCreated(n) ==
    /\ refs[n] = Missing
    /\ Spend("edits")
    /\ refs' = [refs EXCEPT ![n] = NoId]
    /\ UNCHANGED recorded

\* Its controller writes status.resourceId, an identity nothing else has had.
RefRecorded(n) ==
    /\ refs[n] = NoId
    /\ OwnRefIds \ recorded # {}
    /\ LET i == CHOOSE j \in OwnRefIds \ recorded : TRUE
       IN  /\ refs' = [refs EXCEPT ![n] = i]
           /\ recorded' = recorded \cup {i}
    /\ UNCHANGED budget

\* It has been deleted in Thalassa and the object is gone.
RefGone(n) ==
    /\ ~RefsStay
    /\ refs[n] # Missing
    /\ Spend("edits")
    /\ refs' = [refs EXCEPT ![n] = Missing]
    /\ UNCHANGED recorded

\* Somebody has deleted it in Thalassa, and its controller clears
\* status.resourceId to create it again.
RefForgotten(n) ==
    /\ refs[n] \in OwnRefIds
    /\ Spend("drifts")
    /\ refs' = [refs EXCEPT ![n] = NoId]
    /\ UNCHANGED recorded

\* None has lost an identity it had.
NotLost == recorded \subseteq {refs[n] : n \in Names}

\* Each of them is there, and none has lost an identity it had.
NoneGone ==
    /\ \A n \in Names : refs[n] # Missing
    /\ NotLost

\* What a lookup answers has been recorded.
RefsKnown == \A n \in Names : refs[n] \in OwnRefIds => refs[n] \in recorded

\* An identity belongs to one object, and Thalassa does not hand it out again.
RefsDistinct ==
    /\ RefsKnown
    /\ \A n, m \in Names : refs[n] = refs[m] /\ refs[n] \in OwnRefIds => n = m
===============================================================================
