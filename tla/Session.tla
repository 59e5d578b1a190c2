------------------------------ MODULE Session ------------------------------
(***************************************************************************)
(* What the login flow promises the rest of the app: a process runs until  *)
(* it ends, and a login opens one tab bar in it, once.                     *)
(***************************************************************************)
EXTENDS Naturals

VARIABLES
    running,  \* the process is alive
    tabBars   \* tab bars opened since its launch

vars == <<running, tabBars>>

Init == running = FALSE /\ tabBars = 0

Launch == ~running /\ running' = TRUE /\ UNCHANGED tabBars

Enter == running /\ tabBars = 0 /\ tabBars' = 1 /\ UNCHANGED running

Kill == running /\ running' = FALSE /\ tabBars' = 0

Next == Launch \/ Enter \/ Kill

Spec == Init /\ [][Next]_vars
=============================================================================
