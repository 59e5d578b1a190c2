----------------------------- MODULE PlaceSearch -----------------------------
(***************************************************************************)
(* The place search page: SearchPlacesMapViewModel and its service.  Every *)
(* text the search bar settles on starts a request for page 1; reaching    *)
(* the bottom of the table starts a request for the next page.  Requests   *)
(* are never cancelled, and an answer is applied when it arrives.          *)
(***************************************************************************)
EXTENDS Naturals, Sequences

CONSTANTS
    Queries,    \* the texts a user searches for
    FirstQuery, \* the text of the bar when the page opens ("")
    LastPage,   \* [Queries -> Nat \ {0}]: pages the service has for each
    MaxPage,    \* bound on the page number asked for
    MaxNet,     \* bound on the requests in flight
    MaxRows     \* bound on the pages of rows the table may come to hold

ASSUME SearchConstants ==
    /\ FirstQuery \in Queries
    /\ LastPage \in [Queries -> Nat \ {0}]
    /\ MaxPage \in Nat \ {0}
    /\ MaxNet \in Nat \ {0}
    /\ MaxRows \in Nat

VARIABLES
    network,        \* which network this run of the page meets
    searchText,     \* output.searchText
    pageNum,        \* state.pageNum
    isLastPage,     \* state.isLastPage
    filteredPlaces, \* output.filteredPlaces, page by page
    net,            \* requests in flight, oldest first
    answered        \* history: the last request whose answer was applied

vars ==
    <<network, searchText, pageNum, isLastPage, filteredPlaces, net, answered>>

\* "orderly": answers come in the order of the requests and none is lost.
Networks == {"orderly", "any"}
Orderly == network = "orderly"

Page(q, n) == [query |-> q, number |-> n]
Pages == [query : Queries, number : Nat]
PagesOf(q, n) == [i \in 1..n |-> Page(q, i)]
Lesser(a, b) == IF a < b THEN a ELSE b

TypeOK ==
    /\ network \in Networks
    /\ searchText \in Queries
    /\ pageNum \in 1..MaxPage
    /\ isLastPage \in BOOLEAN
    /\ filteredPlaces \in Seq(Pages)
    /\ net \in Seq(Pages)
    /\ Len(net) <= MaxNet
    /\ answered \in Pages

-----------------------------------------------------------------------------
\* The bar emits its text when the page binds it, so page 1 of FirstQuery is
\* asked for at once.
Init ==
    /\ network \in Networks
    /\ searchText = FirstQuery
    /\ pageNum = 1
    /\ isLastPage = FALSE
    /\ filteredPlaces = <<>>
    /\ net = <<Page(FirstQuery, 1)>>
    /\ answered = Page(FirstQuery, 0)

\* Mutant: a text typed while an answer is awaited is not searched for.
loadDataWhenIdle(q) ==
    /\ Len(net) < MaxNet
    /\ searchText' = q
    /\ pageNum' = 1
    /\ net' = IF net = <<>> THEN <<Page(q, 1)>> ELSE net
    /\ UNCHANGED <<network, isLastPage, filteredPlaces, answered>>

\* A text passes distinctUntilChanged and throttle.  Typed and taken back
\* within the throttle it may equal the text already searched for.
loadData(q) ==
    /\ Len(net) < MaxNet
    /\ searchText' = q
    /\ pageNum' = 1
    /\ net' = Append(net, Page(q, 1))
    /\ UNCHANGED <<network, isLastPage, filteredPlaces, answered>>

\* Mutant: the request is built before the page number moves.
loadMoreSamePage ==
    /\ Len(net) < MaxNet
    /\ pageNum < MaxPage
    /\ Len(filteredPlaces) + Len(net) < MaxRows
    /\ ~isLastPage
    /\ pageNum' = pageNum + 1
    /\ net' = Append(net, Page(searchText, pageNum))
    /\ UNCHANGED <<network, searchText, isLastPage, filteredPlaces, answered>>

\* The table is at its bottom, which it also is while it is empty.  The page
\* number moves when the request is sent.
loadMoreData ==
    /\ Len(net) < MaxNet
    /\ pageNum < MaxPage
    /\ Len(filteredPlaces) + Len(net) < MaxRows
    /\ ~isLastPage
    /\ pageNum' = pageNum + 1
    /\ net' = Append(net, Page(searchText, pageNum + 1))
    /\ UNCHANGED <<network, searchText, isLastPage, filteredPlaces, answered>>

\* The rows of a page: none beyond the last page (external).
Results(page) ==
    IF page.number <= LastPage[page.query] THEN <<page>> ELSE <<>>

Arriving == IF Orderly THEN 1..Lesser(1, Len(net)) ELSE 1..Len(net)

Without(requests, i) ==
    [j \in 1..(Len(requests) - 1) |->
        IF j < i THEN requests[j] ELSE requests[j + 1]]

\* Mutants: page 1 is appended like the others; a missing isLast counts as true.
FirstPageAppends(i) ==
    /\ net[i].number = 1
    /\ isLastPage' \in {1 = LastPage[net[i].query], FALSE}
    /\ filteredPlaces' = filteredPlaces \o Results(net[i])
    /\ answered' = net[i]
    /\ net' = Without(net, i)
    /\ UNCHANGED <<network, searchText, pageNum>>

FirstPageAssumesLast(i) ==
    /\ net[i].number = 1
    /\ isLastPage' \in {1 = LastPage[net[i].query], TRUE}
    /\ filteredPlaces' = Results(net[i])
    /\ answered' = net[i]
    /\ net' = Without(net, i)
    /\ UNCHANGED <<network, searchText, pageNum>>

\* loadData's onNext: the answer replaces the rows, whatever is searched for
\* by now; a missing isLast counts as false.
FirstPageArrives(i) ==
    /\ net[i].number = 1
    /\ isLastPage' \in {1 = LastPage[net[i].query], FALSE}
    /\ filteredPlaces' = Results(net[i])
    /\ answered' = net[i]
    /\ net' = Without(net, i)
    /\ UNCHANGED <<network, searchText, pageNum>>

\* loadMoreData's onNext: the answer is appended to the rows of this moment,
\* and its isLast is not read.
MorePageArrives(i) ==
    /\ net[i].number > 1
    /\ filteredPlaces' = filteredPlaces \o Results(net[i])
    /\ answered' = net[i]
    /\ net' = Without(net, i)
    /\ UNCHANGED <<network, searchText, pageNum, isLastPage>>

\* Neither request handles an error: nothing is undone or retried.
Fails(i) ==
    /\ ~Orderly
    /\ net' = Without(net, i)
    /\ UNCHANGED <<network, searchText, pageNum, isLastPage, filteredPlaces,
                   answered>>

Arrives ==
    \E i \in Arriving : FirstPageArrives(i) \/ MorePageArrives(i) \/ Fails(i)

Next ==
    \/ \E q \in Queries : loadData(q)
    \/ loadMoreData
    \/ Arrives

Spec == Init /\ [][Next]_vars

\* Alamofire answers or times out every request; the user owes nothing.
FairSpec == Spec /\ WF_vars(Arrives)

-----------------------------------------------------------------------------
(* Properties                                                              *)

\* With answers in order and none lost, the table only ever shows what
\* PagedListing allows, however searches and scrolls overlap.
Listing == INSTANCE PagedListing
    WITH listing <- IF Orderly THEN filteredPlaces ELSE <<>>
ImplementsListing == Listing!Spec

\* Once nothing is in flight the table holds pages 1..pageNum of the text in
\* the bar (those the service has), for answers in order and none lost.
SettledTable ==
    Orderly /\ net = <<>> =>
        filteredPlaces =
            PagesOf(searchText, Lesser(pageNum, LastPage[searchText]))

\* With answers in order and none lost, the rows of a searched text appear,
\* unless another text is searched for.
ShowsSearchedText ==
    \A q \in Queries :
        (Orderly /\ searchText = q) ~>
            ( \/ searchText # q
              \/ /\ filteredPlaces # <<>>
                 /\ filteredPlaces[1].query = q )

\* Whatever is lost or overtaken, scrolling is blocked only while the last page
\* of a query is among the rows (loadData's isLast, loadMoreData's guard).
BlockedOnlyAtEnd ==
    isLastPage =>
        \E i \in 1..Len(filteredPlaces) :
            filteredPlaces[i].number = LastPage[filteredPlaces[i].query]
=============================================================================
