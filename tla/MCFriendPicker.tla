--------------------------- MODULE MCFriendPicker ---------------------------
(* Instance of FriendPicker for TLC: two friends and two strangers, texts  *)
(* that begin the names of one of each, of one of them and of nobody.      *)
EXTENDS FriendPicker, TLC

CONSTANTS kim, lee, kang, park, empty, k, kan, z, none

MCPeople == {kim, lee, kang, park}
MCFriends == {kim, lee}
MCWords == {empty, k, kan, z}
MCNamed == empty :> MCPeople @@ k :> {kim, kang} @@ kan :> {kang} @@ z :> {}
=============================================================================
