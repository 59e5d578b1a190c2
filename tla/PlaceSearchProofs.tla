-------------------------- MODULE PlaceSearchProofs --------------------------
(***************************************************************************)
(* Proofs about PlaceSearch for every value of its constants.              *)
(***************************************************************************)
EXTENDS PlaceSearch, TLAPS

(* What removing one request leaves behind. *)
LEMMA WithoutProperties ==
    ASSUME NEW S, NEW requests \in Seq(S), NEW i \in 1..Len(requests)
    PROVE  /\ Without(requests, i) \in Seq(S)
           /\ Len(Without(requests, i)) = Len(requests) - 1
           /\ \A j \in 1..(Len(requests) - 1) :
                Without(requests, i)[j] =
                    IF j < i THEN requests[j] ELSE requests[j + 1]
<1>1. Len(requests) \in Nat /\ Len(requests) - 1 \in Nat
  OBVIOUS
<1>2. \A j \in 1..(Len(requests) - 1) :
        (IF j < i THEN requests[j] ELSE requests[j + 1]) \in S
  BY <1>1
<1>3. Without(requests, i) \in [1..(Len(requests) - 1) -> S]
  BY <1>2 DEF Without
<1>4. Without(requests, i) \in Seq(S)
  BY <1>1, <1>3
<1>5. Len(Without(requests, i)) = Len(requests) - 1
  BY <1>1, <1>3, <1>4
<1> QED
  BY <1>4, <1>5 DEF Without

(* Every variable keeps its type, whatever the order and loss of answers. *)
THEOREM TypeCorrect == Spec => []TypeOK
<1>1. Init => TypeOK
  <2>1. Page(FirstQuery, 0) \in Pages /\ Page(FirstQuery, 1) \in Pages
    BY SearchConstants DEF Page, Pages
  <2>2. <<Page(FirstQuery, 1)>> \in Seq(Pages) /\ Len(<<Page(FirstQuery, 1)>>) = 1
    BY <2>1
  <2>3. 1 \in 1..MaxPage /\ 1 <= MaxNet /\ FirstQuery \in Queries
    BY SearchConstants
  <2>4. <<>> \in Seq(Pages)
    OBVIOUS
  <2> SUFFICES ASSUME Init PROVE TypeOK
    OBVIOUS
  <2>5. net \in Seq(Pages) /\ Len(net) <= MaxNet
    BY <2>2, <2>3 DEF Init
  <2> QED
    BY <2>1, <2>3, <2>4, <2>5 DEF Init, TypeOK
<1>2. TypeOK /\ [Next]_vars => TypeOK'
  <2> SUFFICES ASSUME TypeOK, [Next]_vars PROVE TypeOK'
    OBVIOUS
  <2> USE SearchConstants
  <2>1. ASSUME NEW q \in Queries, loadData(q) PROVE TypeOK'
    <3>1. Page(q, 1) \in Pages
      BY DEF Page, Pages
    <3> QED
      BY <2>1, <3>1 DEF loadData, TypeOK
  <2>2. ASSUME loadMoreData PROVE TypeOK'
    <3>1. Page(searchText, pageNum + 1) \in Pages
      BY DEF Page, Pages, TypeOK
    <3> QED
      BY <2>2, <3>1 DEF loadMoreData, TypeOK
  <2>3. ASSUME NEW i \in Arriving,
               FirstPageArrives(i) \/ MorePageArrives(i) \/ Fails(i)
        PROVE  TypeOK'
    <3>1. i \in 1..Len(net)
      BY <2>3 DEF Arriving, Lesser, TypeOK
    <3>2. net[i] \in Pages /\ Results(net[i]) \in Seq(Pages)
      BY <3>1 DEF Results, TypeOK
    <3>3. Without(net, i) \in Seq(Pages) /\ Len(Without(net, i)) <= MaxNet
      BY <3>1, WithoutProperties DEF TypeOK
    <3>4. CASE FirstPageArrives(i)
      BY <3>2, <3>3, <3>4 DEF FirstPageArrives, TypeOK
    <3>5. CASE MorePageArrives(i)
      BY <3>2, <3>3, <3>5 DEF MorePageArrives, TypeOK
    <3>6. CASE Fails(i)
      BY <3>3, <3>6 DEF Fails, TypeOK
    <3> QED
      BY <2>3, <3>4, <3>5, <3>6
  <2>4. CASE UNCHANGED vars
    BY <2>4 DEF vars, TypeOK
  <2> QED
    BY <2>1, <2>2, <2>3, <2>4 DEF Next, Arrives
<1> QED
  BY <1>1, <1>2, PTL DEF Spec

-----------------------------------------------------------------------------
(* Answers in order, none lost: the requests in flight continue the last   *)
(* answered one page by page, or start a listing again; the newest of them *)
(* is the text and the page the view model remembers; the table holds the  *)
(* pages up to the last answered one.                                      *)

Follows(earlier, later) ==
    \/ later.number = 1
    \/ later.query = earlier.query /\ later.number = earlier.number + 1

Before(i) == IF i = 1 THEN answered ELSE net[i - 1]

Newest == IF net = <<>> THEN answered ELSE net[Len(net)]

ShownUpTo(page) ==
    PagesOf(page.query, Lesser(page.number, LastPage[page.query]))

Chain ==
    /\ \A i \in 1..Len(net) : Follows(Before(i), net[i])
    /\ Newest = Page(searchText, pageNum)
    /\ filteredPlaces = ShownUpTo(answered)

OrderlyChain == Orderly => Chain

(* The first n pages of a query form a sequence of length n. *)
LEMMA PagesOfProperties ==
    ASSUME NEW q \in Queries, NEW n \in Nat
    PROVE  PagesOf(q, n) \in Seq(Pages) /\ Len(PagesOf(q, n)) = n
BY DEF PagesOf, Page, Pages

(* Appending a page's rows to the rows of the page before it. *)
LEMMA NextPageShown ==
    ASSUME NEW q \in Queries, NEW n \in Nat
    PROVE  ShownUpTo(Page(q, n)) \o Results(Page(q, n + 1))
             = ShownUpTo(Page(q, n + 1))
<1> DEFINE last == LastPage[q]
<1>1. last \in Nat \ {0}
  BY SearchConstants
<1>2. CASE n + 1 <= last
  <2>1. /\ ShownUpTo(Page(q, n)) = PagesOf(q, n)
        /\ ShownUpTo(Page(q, n + 1)) = PagesOf(q, n + 1)
        /\ Results(Page(q, n + 1)) = <<Page(q, n + 1)>>
    BY <1>1, <1>2 DEF ShownUpTo, Lesser, Results, Page
  <2>2. PagesOf(q, n) \o <<Page(q, n + 1)>> = PagesOf(q, n + 1)
    BY PagesOfProperties DEF PagesOf, Page
  <2> QED
    BY <2>1, <2>2
<1>3. CASE n + 1 > last
  <2>1. /\ ShownUpTo(Page(q, n)) = PagesOf(q, last)
        /\ ShownUpTo(Page(q, n + 1)) = PagesOf(q, last)
        /\ Results(Page(q, n + 1)) = <<>>
    BY <1>1, <1>3 DEF ShownUpTo, Lesser, Results, Page
  <2>2. PagesOf(q, last) \in Seq(Pages)
    BY <1>1, PagesOfProperties
  <2> QED
    BY <2>1, <2>2
<1> QED
  BY <1>1, <1>2, <1>3

(* Every step keeps the network it meets. *)
LEMMA NetworkStays == [Next]_vars => network' = network
BY DEF Next, vars, loadData, loadMoreData, Arrives, FirstPageArrives,
       MorePageArrives, Fails

(* Chain is inductive while answers come in order and none is lost. *)
THEOREM ChainHolds == Spec => []OrderlyChain
<1> USE SearchConstants
<1>1. Init => OrderlyChain
  <2> SUFFICES ASSUME Init PROVE Chain
    BY DEF OrderlyChain
  <2>1. Len(net) = 1 /\ net # <<>> /\ net[1] = Page(FirstQuery, 1)
    BY DEF Init
  <2>2. \A i \in 1..Len(net) : Follows(Before(i), net[i])
    BY <2>1 DEF Follows, Before, Page
  <2>3. Newest = Page(searchText, pageNum)
    BY <2>1 DEF Newest, Init
  <2>4. filteredPlaces = ShownUpTo(answered)
    BY DEF Init, ShownUpTo, PagesOf, Page, Lesser
  <2> QED
    BY <2>2, <2>3, <2>4 DEF Chain
<1>2. TypeOK /\ OrderlyChain /\ [Next]_vars => OrderlyChain'
  <2> SUFFICES ASSUME TypeOK, Orderly, Chain, [Next]_vars PROVE Chain'
    BY NetworkStays DEF OrderlyChain, Orderly
  <2>1. ASSUME NEW page \in Pages, net' = Append(net, page),
               Follows(Newest, page), page = Page(searchText', pageNum'),
               UNCHANGED <<filteredPlaces, answered>>
        PROVE  Chain'
    <3>1. /\ net' \in Seq(Pages) /\ Len(net') = Len(net) + 1 /\ net' # <<>>
          /\ net'[Len(net) + 1] = page
          /\ \A i \in 1..Len(net) : net'[i] = net[i]
      BY <2>1 DEF TypeOK
    <3>2. \A i \in 1..Len(net') : Follows(Before(i)', net'[i])
      <4> SUFFICES ASSUME NEW i \in 1..Len(net') PROVE Follows(Before(i)', net'[i])
        OBVIOUS
      <4>1. CASE i \in 1..Len(net)
        <5>1. Before(i)' = Before(i)
          BY <2>1, <3>1, <4>1 DEF Before, TypeOK
        <5> QED
          BY <3>1, <4>1, <5>1 DEF Chain
      <4>2. CASE i = Len(net) + 1
        <5>1. Before(i)' = Newest
          BY <2>1, <3>1, <4>2 DEF Before, Newest, TypeOK
        <5> QED
          BY <2>1, <3>1, <4>2, <5>1
      <4> QED
        BY <3>1, <4>1, <4>2 DEF TypeOK
    <3>3. Newest' = Page(searchText', pageNum')
      BY <2>1, <3>1 DEF Newest
    <3> QED
      BY <2>1, <3>2, <3>3 DEF Chain, ShownUpTo, PagesOf, Page
  <2>2. ASSUME NEW q \in Queries, loadData(q) PROVE Chain'
    <3>1. Page(q, 1) \in Pages /\ Follows(Newest, Page(q, 1))
      BY DEF Page, Pages, Follows
    <3> QED
      BY <2>1, <2>2, <3>1 DEF loadData
  <2>3. ASSUME loadMoreData PROVE Chain'
    <3>1. /\ Page(searchText, pageNum + 1) \in Pages
          /\ Follows(Newest, Page(searchText, pageNum + 1))
      BY DEF Page, Pages, Follows, Chain, TypeOK
    <3> QED
      BY <2>1, <2>3, <3>1 DEF loadMoreData
  <2>4. ASSUME NEW i \in Arriving,
               FirstPageArrives(i) \/ MorePageArrives(i) \/ Fails(i)
        PROVE  Chain'
    <3>1. i = 1 /\ net # <<>> /\ 1 \in 1..Len(net)
      BY DEF Arriving, Lesser, TypeOK
    <3>2. ~Fails(i)
      BY DEF Fails
    <3>3. /\ answered' = net[1] /\ net' = Without(net, 1)
          /\ UNCHANGED <<searchText, pageNum>>
      BY <2>4, <3>1, <3>2 DEF FirstPageArrives, MorePageArrives
    <3>4. /\ net' \in Seq(Pages) /\ Len(net') = Len(net) - 1
          /\ \A j \in 1..(Len(net) - 1) : net'[j] = net[j + 1]
      <4>1. net \in Seq(Pages)
        BY DEF TypeOK
      <4>2. /\ Without(net, 1) \in Seq(Pages)
            /\ Len(Without(net, 1)) = Len(net) - 1
            /\ \A j \in 1..(Len(net) - 1) :
                 Without(net, 1)[j] = IF j < 1 THEN net[j] ELSE net[j + 1]
        BY <3>1, <4>1, WithoutProperties
      <4> QED
        BY <3>3, <4>1, <4>2
    <3>5. \A j \in 1..Len(net') : Follows(Before(j)', net'[j])
      <4> SUFFICES ASSUME NEW j \in 1..Len(net') PROVE Follows(Before(j)', net'[j])
        OBVIOUS
      <4>1. /\ j + 1 \in 1..Len(net) /\ net'[j] = net[j + 1]
            /\ Before(j)' = Before(j + 1)
        BY <3>1, <3>3, <3>4 DEF Before, TypeOK
      <4> QED
        BY <4>1 DEF Chain
    <3>6. Newest' = Newest
      BY <3>1, <3>3, <3>4 DEF Newest, TypeOK
    <3>7. filteredPlaces' = ShownUpTo(net[1])
      <4>1. net[1] \in Pages /\ Follows(answered, net[1])
        BY <3>1 DEF Chain, Before, TypeOK
      <4>2. CASE FirstPageArrives(i)
        <5>1. /\ net[1] = Page(net[1].query, 1) /\ net[1].query \in Queries
              /\ filteredPlaces' = Results(net[1])
          BY <3>1, <4>1, <4>2 DEF FirstPageArrives, Page, Pages
        <5>2. ShownUpTo(Page(net[1].query, 0)) = <<>>
          BY <5>1 DEF ShownUpTo, PagesOf, Page, Lesser
        <5>3. Results(net[1]) \in Seq(Pages)
          BY <4>1 DEF Results
        <5>4. ShownUpTo(Page(net[1].query, 0)) \o Results(Page(net[1].query, 1))
                = ShownUpTo(Page(net[1].query, 1))
          <6>1. 0 \in Nat /\ 0 + 1 = 1
            OBVIOUS
          <6> QED
            BY <5>1, <6>1, NextPageShown
        <5>5. <<>> \o Results(net[1]) = Results(net[1])
          BY <5>3
        <5>6. Results(net[1]) = ShownUpTo(net[1])
          BY <5>1, <5>2, <5>4, <5>5
        <5> QED
          BY <5>1, <5>6
      <4>3. CASE MorePageArrives(i)
        <5>1. /\ net[1].number > 1
              /\ filteredPlaces' = ShownUpTo(answered) \o Results(net[1])
          BY <3>1, <4>3 DEF MorePageArrives, Chain
        <5>2. /\ net[1] = Page(answered.query, answered.number + 1)
              /\ answered = Page(answered.query, answered.number)
              /\ answered.query \in Queries /\ answered.number \in Nat
          BY <4>1, <5>1 DEF Follows, Page, Pages, TypeOK
        <5> QED
          BY <5>1, <5>2, NextPageShown
      <4> QED
        BY <2>4, <3>2, <4>2, <4>3
    <3> QED
      BY <3>3, <3>5, <3>6, <3>7 DEF Chain, ShownUpTo, PagesOf, Page
  <2>5. CASE UNCHANGED vars
    BY <2>5 DEF vars, Chain, Before, Newest, ShownUpTo, PagesOf, Page
  <2> QED
    BY <2>2, <2>3, <2>4, <2>5 DEF Next, Arrives
<1> QED
  BY <1>1, <1>2, TypeCorrect, PTL DEF Spec

(* Once every request was answered, in order, the table holds the pages of *)
(* the searched text up to the page the view model counts.                 *)
THEOREM TableSettles == Spec => []SettledTable
<1>1. OrderlyChain => SettledTable
  BY DEF OrderlyChain, Chain, SettledTable, Newest, ShownUpTo, Page
<1> QED
  BY <1>1, ChainHolds, PTL

-----------------------------------------------------------------------------
(* Every step of the page is a step of PagedListing on its table, or leaves *)
(* the table alone.                                                        *)
THEOREM ListingImplemented == Spec => ImplementsListing
<1> USE SearchConstants
<1> DEFINE listing == IF Orderly THEN filteredPlaces ELSE <<>>
<1>1. Init => Listing!Init
  BY DEF Init, Listing!Init
<1>2. TypeOK /\ OrderlyChain /\ [Next]_vars => [Listing!Next]_listing
  <2> SUFFICES ASSUME TypeOK, OrderlyChain, [Next]_vars, listing' # listing
               PROVE  Listing!Next
    OBVIOUS
  <2>6. /\ Orderly /\ network' = network /\ Chain
        /\ listing = filteredPlaces /\ listing' = filteredPlaces'
    BY NetworkStays DEF OrderlyChain, Orderly
  <2>1. PICK i \in Arriving : FirstPageArrives(i) \/ MorePageArrives(i)
    BY <2>6 DEF Next, Arrives, loadData, loadMoreData, Fails, vars
  <2>2. i = 1 /\ 1 \in 1..Len(net)
    BY <2>6 DEF Arriving, Lesser, TypeOK
  <2>3. net[1] \in Pages /\ Follows(answered, net[1])
    BY <2>2, <2>6 DEF Chain, Before, TypeOK
  <2>4. CASE FirstPageArrives(i)
    <3>1. /\ net[1].query \in Queries /\ LastPage[net[1].query] >= 1
          /\ net[1].number = 1 /\ net[1] = Page(net[1].query, 1)
          /\ filteredPlaces' = <<net[1]>>
      BY <2>2, <2>3, <2>4 DEF FirstPageArrives, Results, Page, Pages
    <3>2. <<net[1]>> = Listing!PagesOf(net[1].query, 1)
      BY <3>1 DEF Listing!PagesOf, Listing!Page, Page
    <3> QED
      BY <2>6, <3>1, <3>2 DEF Orderly, Listing!Next, Listing!NewQuery
  <2>5. CASE MorePageArrives(i)
    <3> DEFINE q == answered.query
               n == answered.number
    <3>1. q \in Queries /\ n \in Nat \ {0} /\ answered = Page(q, n)
          /\ net[1] = Page(q, n + 1)
      BY <2>2, <2>3, <2>5 DEF MorePageArrives, Follows, Page, Pages, TypeOK
    <3>2. LastPage[q] \in Nat \ {0}
      BY <3>1
    <3>3. /\ filteredPlaces = ShownUpTo(Page(q, n))
          /\ filteredPlaces' = ShownUpTo(Page(q, n + 1))
      BY <2>2, <2>5, <2>6, <3>1, NextPageShown DEF MorePageArrives, Chain
    <3>4. n < LastPage[q]
      BY <2>6, <3>1, <3>2, <3>3 DEF ShownUpTo, Lesser, Page
    <3>5. /\ filteredPlaces = Listing!PagesOf(q, n)
          /\ filteredPlaces' = Listing!PagesOf(q, n + 1)
      BY <3>1, <3>2, <3>3, <3>4
         DEF ShownUpTo, Lesser, PagesOf, Page, Listing!PagesOf, Listing!Page
    <3>6. n \in 1..(LastPage[q] - 1)
      BY <3>1, <3>2, <3>4
    <3> QED
      BY <2>6, <3>1, <3>5, <3>6 DEF Orderly, Listing!Next, Listing!NextPage
  <2> QED
    BY <2>1, <2>4, <2>5
<1> QED
  BY <1>1, <1>2, TypeCorrect, ChainHolds, PTL
     DEF Spec, ImplementsListing, Listing!Spec

-----------------------------------------------------------------------------
(* On any network scrolling is blocked only while the last page of a query   *)
(* is among the rows: later pages are appended, and a new page 1 decides      *)
(* anew.                                                                     *)
THEOREM BlockedAtEnd == Spec => []BlockedOnlyAtEnd
<1>1. Init => BlockedOnlyAtEnd
  BY DEF Init, BlockedOnlyAtEnd
<1>2. TypeOK /\ BlockedOnlyAtEnd /\ [Next]_vars => BlockedOnlyAtEnd'
  <2> SUFFICES ASSUME TypeOK, BlockedOnlyAtEnd, [Next]_vars PROVE BlockedOnlyAtEnd'
    OBVIOUS
  <2>1. ASSUME UNCHANGED <<isLastPage, filteredPlaces>> PROVE BlockedOnlyAtEnd'
    BY <2>1 DEF BlockedOnlyAtEnd
  <2>2. ASSUME NEW i \in Arriving,
               FirstPageArrives(i) \/ MorePageArrives(i) \/ Fails(i)
        PROVE  BlockedOnlyAtEnd'
    <3>1. i \in 1..Len(net)
      BY <2>2 DEF Arriving, Lesser, TypeOK
    <3>2. net[i] \in Pages /\ Results(net[i]) \in Seq(Pages)
      BY <3>1 DEF Results, TypeOK
    <3>3. CASE FirstPageArrives(i)
      <4>1. ASSUME isLastPage'
            PROVE  filteredPlaces' = <<net[i]>> /\ net[i].number = LastPage[net[i].query]
        <5>1. isLastPage' \in {1 = LastPage[net[i].query], FALSE}
          BY <3>3 DEF FirstPageArrives
        <5>2. 1 = LastPage[net[i].query]
          BY <4>1, <5>1, Zenon
        <5>3. net[i].number = 1 /\ filteredPlaces' = Results(net[i])
          BY <3>3 DEF FirstPageArrives
        <5> QED
          BY <5>2, <5>3 DEF Results
      <4>2. Len(<<net[i]>>) = 1 /\ <<net[i]>>[1] = net[i]
        OBVIOUS
      <4> QED
        BY <4>1, <4>2 DEF BlockedOnlyAtEnd
    <3>4. CASE MorePageArrives(i)
      <4>1. /\ filteredPlaces' = filteredPlaces \o Results(net[i])
            /\ isLastPage' = isLastPage
        BY <3>4 DEF MorePageArrives
      <4>2. \A j \in 1..Len(filteredPlaces) :
                j \in 1..Len(filteredPlaces') /\ filteredPlaces'[j] = filteredPlaces[j]
        BY <3>2, <4>1 DEF TypeOK
      <4> QED
        BY <4>1, <4>2 DEF BlockedOnlyAtEnd
    <3>5. CASE Fails(i)
      BY <2>1, <3>5 DEF Fails
    <3> QED
      BY <2>2, <3>3, <3>4, <3>5
  <2> QED
    BY <2>1, <2>2 DEF Next, vars, Arrives, loadData, loadMoreData
<1> QED
  BY <1>1, <1>2, TypeCorrect, PTL DEF Spec
=============================================================================
