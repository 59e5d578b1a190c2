------------------------------ MODULE Selection ------------------------------
(***************************************************************************)
(* What a friend picker promises its user: every tap on a person adds them *)
(* to the choice or takes them out of it, and the choice is handed over    *)
(* once, as it stands, or never.                                           *)
(***************************************************************************)
CONSTANT People

VARIABLES
    chosen,  \* the people chosen so far
    handed   \* the hand-overs made: none, or the one choice

Init == chosen = {} /\ handed = {}

Toggle(p) ==
    /\ handed = {}
    /\ chosen' = IF p \in chosen THEN chosen \ {p} ELSE chosen \cup {p}
    /\ UNCHANGED handed

HandOver ==
    /\ handed = {}
    /\ handed' = {chosen}
    /\ UNCHANGED chosen

Next == (\E p \in People : Toggle(p)) \/ HandOver

Spec == Init /\ [][Next]_<<chosen, handed>>
=============================================================================
