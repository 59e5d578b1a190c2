----------------------------- MODULE MCFindRoad -----------------------------
(* Instance of FindRoad for TLC: two places where the user may be; users    *)
(* who ask for three routes, of a kind service and of any, and one who      *)
(* walks about with the marker and asks for two.                            *)
EXTENDS FindRoad

CONSTANTS here, there

MCPositions == {here, there}

MCRegimes ==
    {[kind |-> k, roams |-> FALSE, taps |-> 3] : k \in BOOLEAN}
        \cup {[kind |-> TRUE, roams |-> TRUE, taps |-> 2]}
=============================================================================
