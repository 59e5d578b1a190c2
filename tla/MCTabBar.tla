------------------------------ MODULE MCTabBar ------------------------------
(* Instance of TabBar for TLC: two places and two groups, so that a stale   *)
(* one can be told from the current one, two invitations, and three regimes.*)
EXTENDS TabBar, TLC

CONSTANTS cafe, park, friend, plan

MCPlaces == {cafe, park}
Complete == [p \in MCPlaces |-> Items]
Partial == [Complete EXCEPT ![park] = {"placeName", "coordinates"}]

MCInvites == {friend, plan}
MCSubject == friend :> "friend" @@ plan :> "plan"

\* A user who waits but leaves searches, a park without details, two launches.
Careful == [abandons |-> TRUE, patient |-> TRUE, lossless |-> TRUE,
            maps |-> 2, visits |-> 2, pushes |-> 0, starts |-> 2, invites |-> 0,
            provides |-> Partial]

\* Double taps, losses, a notification and an invitation, but no search is left.
Hurried == [abandons |-> FALSE, patient |-> FALSE, lossless |-> FALSE,
            maps |-> 1, visits |-> 1, pushes |-> 1, starts |-> 1, invites |-> 1,
            provides |-> Complete]

\* Two invitations and a notification for a user who waits.
Invited == [abandons |-> FALSE, patient |-> TRUE, lossless |-> TRUE,
            maps |-> 1, visits |-> 1, pushes |-> 1, starts |-> 1, invites |-> 2,
            provides |-> Complete]

MCRegimes == {Careful, Hurried, Invited}
Notified == {[Hurried EXCEPT !.patient = TRUE, !.lossless = TRUE]}
=============================================================================
