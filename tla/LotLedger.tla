------------------------------ MODULE LotLedger ------------------------------
(***************************************************************************)
(* What the CyPRUS server promises about the stays it follows, without     *)
(* threads, queries or lists: a stay is opened at most once, no two open   *)
(* stays are of the same plate and lot, and a violation is recorded at     *)
(* most for a stay that was opened, once the grace period of that stay is  *)
(* over.  A stay may be closed at any time: by a photograph of the vehicle *)
(* leaving, by a grace task, or because the server was stopped.            *)
(***************************************************************************)
EXTENDS Naturals

CONSTANTS
    Visits,     \* identities of stays
    Plates,     \* what distinguishes one vehicle from another
    NoPlate,    \* the plate of a stay not opened yet
    Grace       \* the grace period

VARIABLES
    time,       \* the clock
    stay,       \* "unseen", "open" or "closed", for each visit
    plate,      \* whose stay it is
    since,      \* when it began
    recorded    \* the visits a violation was recorded for

vars == <<time, stay, plate, since, recorded>>

IsOpen(x) == stay[x] = "open"

Init ==
    /\ time = 0
    /\ stay = [x \in Visits |-> "unseen"]
    /\ plate = [x \in Visits |-> NoPlate]
    /\ since = [x \in Visits |-> 0]
    /\ recorded = {}

Pass == time' = time + 1 /\ UNCHANGED <<stay, plate, since, recorded>>

\* The server starts to follow a vehicle that was photographed a while ago.
Open(x, p, t) ==
    /\ stay[x] = "unseen"
    /\ t <= time
    /\ \A y \in Visits : IsOpen(y) => plate[y] # p
    /\ stay' = [stay EXCEPT ![x] = "open"]
    /\ plate' = [plate EXCEPT ![x] = p]
    /\ since' = [since EXCEPT ![x] = t]
    /\ UNCHANGED <<time, recorded>>

Close(x) ==
    /\ IsOpen(x)
    /\ stay' = [stay EXCEPT ![x] = "closed"]
    /\ UNCHANGED <<time, plate, since, recorded>>

\* Everything open is forgotten when the server stops.
Forget ==
    /\ stay' = [x \in Visits |-> IF IsOpen(x) THEN "closed" ELSE stay[x]]
    /\ UNCHANGED <<time, plate, since, recorded>>

Record(x) ==
    /\ stay[x] # "unseen"
    /\ x \notin recorded
    /\ time >= since[x] + Grace
    /\ recorded' = recorded \cup {x}
    /\ UNCHANGED <<time, stay, plate, since>>

Next ==
    \/ Pass
    \/ Forget
    \/ \E x \in Visits :
          \/ \E p \in Plates : \E t \in 0..time : Open(x, p, t)
          \/ Close(x)
          \/ Record(x)

Spec == Init /\ [][Next]_vars
=============================================================================
