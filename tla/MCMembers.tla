----------------------------- MODULE MCMembers -----------------------------
(* Instance of Members for TLC: two friends, two places with coordinates   *)
(* and one without.                                                        *)
EXTENDS Members

CONSTANTS kim, lee, cafe, park, nowhere

MCFriends == {kim, lee}
MCPlaces == {cafe, park, nowhere}
MCLocated == {cafe, park}
=============================================================================
