---------------------------- MODULE PagedListing ----------------------------
(***************************************************************************)
(* What the place search promises its table: the rows are the pages of ONE *)
(* query, from the first on, none twice and none skipped.  A new query     *)
(* starts the listing again; scrolling adds the next page while the query   *)
(* has one.                                                                *)
(***************************************************************************)
EXTENDS Naturals, Sequences

CONSTANTS
    Queries,   \* the texts a user searches for
    LastPage   \* [Queries -> Nat \ {0}]: pages the service has for each

VARIABLE listing  \* the pages on the screen, in order

Page(q, n) == [query |-> q, number |-> n]

\* The first n pages of q.
PagesOf(q, n) == [i \in 1..n |-> Page(q, i)]

Init == listing = <<>>

NewQuery == \E q \in Queries : listing' = PagesOf(q, 1)

NextPage ==
    \E q \in Queries : \E n \in 1..(LastPage[q] - 1) :
        /\ listing = PagesOf(q, n)
        /\ listing' = PagesOf(q, n + 1)

Next == NewQuery \/ NextPage

Spec == Init /\ [][Next]_listing
=============================================================================
