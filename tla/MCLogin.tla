------------------------------ MODULE MCLogin ------------------------------
(* Instance of Login for TLC: an account for each provider, two requests,  *)
(* and three regimes.                                                      *)
EXTENDS Login, TLC

CONSTANTS kim, lee

MCAccounts == {kim, lee}
MCAuthType == kim :> "KAKAO" @@ lee :> "APPLE"

Patient == [impatient |-> FALSE, keychainFails |-> FALSE,
            taps |-> 2, launches |-> 3]
Overlapping == [impatient |-> TRUE, keychainFails |-> FALSE,
                taps |-> 2, launches |-> 2]
Failing == [impatient |-> TRUE, keychainFails |-> TRUE,
            taps |-> 1, launches |-> 2]

MCRegimes == {Patient, Overlapping, Failing}
Waiting == {Patient}
=============================================================================
