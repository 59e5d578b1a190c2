---------------------------- MODULE MCGroupCreate ----------------------------
(* Instance of GroupCreate for TLC: an accepted title and the refused one, *)
(* one friend to pick or not, and two regimes.                             *)
EXTENDS GroupCreate

CONSTANTS empty, blank

MCTitles == {empty, blank}

Careful == [retypes |-> FALSE, patient |-> TRUE,
            inOrder |-> TRUE, lossless |-> TRUE, taps |-> 2]
Hasty == [retypes |-> TRUE, patient |-> FALSE,
          inOrder |-> FALSE, lossless |-> FALSE, taps |-> 1]

MCRegimes == {Careful, Hasty}
=============================================================================
