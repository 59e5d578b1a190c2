--------------------------- MODULE MCPlaceSearch ---------------------------
(* Instance of PlaceSearch for TLC: one text with a single page of places, *)
(* one with two and one with three.                                        *)
EXTENDS PlaceSearch, TLC

CONSTANTS empty, cafe, caf

MCQueries == {empty, cafe, caf}
MCLastPage == empty :> 1 @@ caf :> 3 @@ cafe :> 2
=============================================================================
