--------------------------- MODULE FindRoadProofs ---------------------------
(***************************************************************************)
(* Proofs about FindRoad for every value of its constants.                 *)
(***************************************************************************)
EXTENDS FindRoad, FiniteSetTheorems, TLAPS

(* The timer, which keeps a page, goes with the marker. *)
TimerWithMarker == timer <=> mode # "hidden"

RoadInv == TypeOK /\ OneRouteShown /\ MarkerIsFed /\ TimerWithMarker

USE DEF Kinds, Permissions

(* What a drawing leaves on the layers: one route of the given kind, or what *)
(* was there if there is no map.                                             *)
LEMMA Drawn ==
    ASSUME TypeOK, NEW kind \in Kinds, NEW route \in 0..Len(taps)
    PROVE  /\ drawRoute(kind, route) \in [Kinds -> SUBSET (0..Len(taps))]
           /\ map => drawRoute(kind, route)
                        = [k \in Kinds |-> IF k = kind THEN {route} ELSE {}]
           /\ ~map => drawRoute(kind, route) = layer
  BY DEF TypeOK, drawRoute, AddRoute

(* Taps only get more, so what refers to them stays typed. *)
LEMMA Tapped ==
    ASSUME TypeOK, NEW kind \in Kinds
    PROVE  /\ Append(taps, kind) \in Seq(Kinds)
           /\ Len(Append(taps, kind)) = Len(taps) + 1
           /\ Len(taps) \in Nat
           /\ \A n \in 1..Len(taps) : Append(taps, kind)[n] = taps[n]
           /\ Append(taps, kind)[Len(taps) + 1] = kind
  BY DEF TypeOK

LEMMA TypeInit == Init => TypeOK
<1> SUFFICES ASSUME Init PROVE TypeOK
  OBVIOUS
<1> USE RoadConstants DEF Init
<1>1. taps \in Seq(Kinds) /\ Len(taps) = 0
  OBVIOUS
<1>2. regime.taps \in Nat
  BY DEF Regime
<1>3. relay \in [Kinds -> 0..Len(taps)] /\ layer \in [Kinds -> SUBSET (0..Len(taps))]
  BY <1>1
<1>4. net \subseteq [tap : 1..Len(taps), output : 1..2] /\ Len(taps) <= regime.taps
  BY <1>1, <1>2
<1>5. above \in 0..MaxAbove
  OBVIOUS
<1> HIDE RoadConstants
<1> QED
  BY <1>1, <1>3, <1>4, <1>5 DEF TypeOK

LEMMA TypeStep == TypeOK /\ [Next]_vars => TypeOK'
<1> SUFFICES ASSUME TypeOK, [Next]_vars PROVE TypeOK'
  OBVIOUS
<1> USE RoadConstants
<1>1. CASE MapMade
  BY <1>1 DEF MapMade, TypeOK, routes, location
<1>2. CASE TapMyLocation
  BY <1>2 DEF TapMyLocation, TypeOK, routes, location
<1>3. CASE Back
  <2>1. above \in 0..MaxAbove /\ open \in BOOLEAN
    BY DEF TypeOK
  <2>2. CASE above > 0 /\ above' = above - 1 /\ UNCHANGED open
    BY <2>1, <2>2, <1>3 DEF Back, TypeOK, routes, location
  <2>3. CASE above = 0 /\ open' = FALSE /\ UNCHANGED above
    BY <2>1, <2>3, <1>3 DEF Back, TypeOK, routes, location
  <2> QED
    BY <1>3, <2>2, <2>3 DEF Back
<1>4. ASSUME NEW kind \in Kinds, TapRoute(kind) PROVE TypeOK'
  <2> USE <1>4 DEF TapRoute
  <2>1. taps' \in Seq(Kinds) /\ Len(taps') = Len(taps) + 1 /\ Len(taps) \in Nat
    BY Tapped
  <2>2. Len(taps') <= regime'.taps
    BY <2>1 DEF TypeOK, Regime
  <2>3. net' \subseteq [tap : 1..Len(taps'), output : 1..2]
    BY <2>1 DEF TypeOK, Request
  <2>4. relay[kind] \in 0..Len(taps)
    BY DEF TypeOK
  <2>5. layer' \in [Kinds -> SUBSET (0..Len(taps))]
    BY <2>4, Drawn DEF TypeOK
  <2>6. layer' \in [Kinds -> SUBSET (0..Len(taps'))] /\ relay' \in [Kinds -> 0..Len(taps')]
    <3>1. 0..Len(taps) \subseteq 0..Len(taps')
      BY <2>1
    <3> QED
      BY <2>5, <3>1 DEF TypeOK
  <2> QED
    BY <2>1, <2>2, <2>3, <2>6 DEF TypeOK, location
<1>5. ASSUME NEW request \in net, RouteServed(request) PROVE TypeOK'
  <2> USE <1>5 DEF RouteServed
  <2>1. request.tap \in 1..Len(taps) /\ taps[request.tap] \in Kinds
    BY DEF TypeOK
  <2>2. relay' \in [Kinds -> 0..Len(taps)]
    BY <2>1 DEF TypeOK
  <2> QED
    BY <2>2 DEF TypeOK, location
<1>6. ASSUME NEW request \in net, RouteFailed(request) PROVE TypeOK'
  BY <1>6 DEF RouteFailed, TypeOK, location
<1>7. CASE TapMarker
  BY <1>7 DEF TapMarker, Show, Track, Hide, startUpdateLocation, TypeOK, routes
<1>8. CASE Tick
  BY <1>8 DEF Tick, TypeOK, routes
<1>9. CASE Permit
  BY <1>9 DEF Permit, TypeOK, routes, location
<1>10. CASE AuthorizationTold
  BY <1>10 DEF AuthorizationTold, TypeOK, routes
<1>11. CASE Located
  BY <1>11 DEF Located, TypeOK, routes
<1>12. CASE UNCHANGED vars
  BY <1>12 DEF vars, TypeOK, routes, location
<1> QED
  BY <1>1, <1>2, <1>3, <1>4, <1>5, <1>6, <1>7, <1>8, <1>9, <1>10, <1>11, <1>12
     DEF Next

(* For any users, route services and bounds the variables of the route page *)
(* keep their types: taps, requests, relays and layers refer to taps made.  *)
THEOREM TypeCorrect == Spec => []TypeOK
  BY TypeInit, TypeStep, PTL DEF Spec

(* The layers change with a tap of a route button and in no other step. *)
LEMMA OneRouteStep == TypeOK /\ OneRouteShown /\ [Next]_vars => OneRouteShown'
<1> SUFFICES ASSUME TypeOK, OneRouteShown, [Next]_vars PROVE OneRouteShown'
  OBVIOUS
<1>1. ASSUME NEW kind \in Kinds, TapRoute(kind) PROVE OneRouteShown'
  <2>1. relay[kind] \in 0..Len(taps)
    BY DEF TypeOK
  <2>2. CASE layer' = layer
    BY <2>2 DEF OneRouteShown
  <2>3. CASE map /\ layer' = drawRoute(kind, relay[kind])
    <3>1. layer' = [k \in Kinds |-> IF k = kind THEN {relay[kind]} ELSE {}]
      BY <2>1, <2>3, Drawn
    <3>2. Cardinality({relay[kind]}) = 1 /\ Cardinality({}) = 0
      BY FS_EmptySet, FS_Singleton
    <3> QED
      BY <3>1, <3>2 DEF OneRouteShown
  <2> QED
    BY <1>1, <2>1, <2>2, <2>3, Drawn DEF TapRoute
<1>2. CASE UNCHANGED layer
  BY <1>2 DEF OneRouteShown
<1> QED
  BY <1>1, <1>2 DEF Next, MapMade, TapMyLocation, Back, RouteServed, RouteFailed,
     TapMarker, Tick, Permit, AuthorizationTold, Located, vars, routes

LEMMA MarkerStep ==
    TypeOK /\ MarkerIsFed /\ TimerWithMarker /\ [Next]_vars
        => MarkerIsFed' /\ TimerWithMarker'
<1> SUFFICES ASSUME TypeOK, MarkerIsFed, TimerWithMarker, [Next]_vars
             PROVE  MarkerIsFed' /\ TimerWithMarker'
  OBVIOUS
<1> USE DEF MarkerIsFed, TimerWithMarker
<1>1. CASE TapMarker
  <2>1. told' = told
    BY <1>1 DEF TapMarker
  <2>2. CASE Show
    BY <2>1, <2>2 DEF Show, startUpdateLocation
  <2>3. CASE Track
    BY <2>1, <2>3 DEF Track
  <2>4. CASE Hide
    BY <2>4 DEF Hide
  <2> QED
    BY <1>1, <2>2, <2>3, <2>4 DEF TapMarker
<1>2. CASE AuthorizationTold
  BY <1>2 DEF AuthorizationTold, TypeOK
<1>3. CASE UNCHANGED <<mode, timer, updates, told>>
  BY <1>3
<1> QED
  BY <1>1, <1>2, <1>3 DEF Next, MapMade, TapMyLocation, Back, TapRoute, RouteServed,
     RouteFailed, Tick, Permit, Located, vars, location

LEMMA RoadInductive == Spec => []RoadInv
<1>1. Init => RoadInv
  <2>1. Init => OneRouteShown
    <3>1. Cardinality({}) = 0
      BY FS_EmptySet
    <3> QED
      BY <3>1 DEF Init, OneRouteShown
  <2> QED
    BY <2>1, TypeInit DEF Init, RoadInv, MarkerIsFed, TimerWithMarker
<1>2. RoadInv /\ [Next]_vars => RoadInv'
  BY TypeStep, OneRouteStep, MarkerStep DEF RoadInv
<1> QED
  BY <1>1, <1>2, PTL DEF Spec

(* However taps and answers interleave, at most one route is on the map. *)
THEOREM OneRoute == Spec => []OneRouteShown
<1>1. RoadInv => OneRouteShown
  BY DEF RoadInv
<1> QED
  BY <1>1, RoadInductive, PTL

(* A marker that is shown is fed with locations as soon as the page has been *)
(* told that it may use them, in whatever order taps and callbacks come.     *)
THEOREM MarkerFed == Spec => []MarkerIsFed
<1>1. RoadInv => MarkerIsFed
  BY DEF RoadInv
<1> QED
  BY <1>1, RoadInductive, PTL

(* A page that was left lives on if and only if its marker was shown. *)
THEOREM LeftEnds == Spec => []LeftPageEnds
<1>1. RoadInv => LeftPageEnds
  BY DEF RoadInv, TimerWithMarker, LeftPageEnds, Alive
<1> QED
  BY <1>1, RoadInductive, PTL

(* Updates stopped with the marker stay stopped until a tap shows it again. *)
THEOREM StaysQuiet == Spec => HiddenStaysQuiet
<1>1. [Next]_vars =>
        [(mode = "hidden" /\ ~updates /\ mode' = "hidden") => ~updates']_vars
  BY DEF Next, MapMade, TapMyLocation, Back, TapRoute, RouteServed, RouteFailed,
     TapMarker, Show, Track, Hide, Tick, Permit, AuthorizationTold, Located,
     vars, location
<1> QED
  BY <1>1, PTL DEF Spec, HiddenStaysQuiet

-----------------------------------------------------------------------------
(* With a kind service: the answered taps are older than the ones that wait, *)
(* and a relay holds the latest answered tap of its kind.                    *)
OldestFirst ==
    regime.kind =>
        \A request \in net, n \in 1..Len(taps) :
            (request.output = 1 /\ Request(n, 1) \notin net) => n < request.tap

RelayIsNewest ==
    regime.kind =>
        \A kind \in Kinds :
            /\ \A n \in Answered(kind) : n <= relay[kind]
            /\ Answered(kind) # {} => relay[kind] \in Answered(kind)

AnswersInv == TypeOK /\ OldestFirst /\ RelayIsNewest

LEMMA TapKeepsAnswers ==
    ASSUME AnswersInv, NEW kind \in Kinds, TapRoute(kind)
    PROVE  OldestFirst' /\ RelayIsNewest'
<1> USE DEF AnswersInv
<1>1. /\ Len(taps) \in Nat
      /\ Len(taps') = Len(taps) + 1
      /\ \A n \in 1..Len(taps) : taps'[n] = taps[n]
  BY Tapped DEF TapRoute
<1>2. \A n \in 1..Len(taps') :
          Request(n, 1) \notin net' => n \in 1..Len(taps) /\ Request(n, 1) \notin net
  BY <1>1 DEF TapRoute, Request
<1>3. \A n \in 1..Len(taps) : Request(n, 1) \in net' => Request(n, 1) \in net
  BY <1>1 DEF TapRoute, Request
<1>4. \A request \in net' : request \in net \/ request.tap = Len(taps) + 1
  BY <1>1 DEF TapRoute, Request
<1>5. regime' = regime /\ relay' = relay
  BY DEF TapRoute
<1>6. OldestFirst'
  BY <1>1, <1>2, <1>4, <1>5 DEF OldestFirst
<1>7. \A k \in Kinds : Answered(k)' = Answered(k)
  BY <1>1, <1>2, <1>3 DEF Answered
<1> QED
  BY <1>5, <1>6, <1>7 DEF RelayIsNewest

LEMMA AnswerKeepsAnswers ==
    ASSUME AnswersInv, NEW request \in net, RouteServed(request)
    PROVE  OldestFirst' /\ RelayIsNewest'
<1> SUFFICES ASSUME regime.kind PROVE OldestFirst' /\ RelayIsNewest'
  BY DEF RouteServed, OldestFirst, RelayIsNewest
<1> USE DEF AnswersInv
<1>1. /\ net \subseteq [tap : 1..Len(taps), output : 1..2]
      /\ Len(taps) \in Nat /\ taps \in Seq(Kinds)
      /\ relay \in [Kinds -> 0..Len(taps)]
  BY DEF TypeOK
<1>2. taps' = taps /\ regime' = regime /\ net' = net \ {request}
  BY DEF RouteServed
<1>3. request = Request(request.tap, request.output)
  BY <1>1 DEF Request
<1>4. CASE request.output = 1
  <2> DEFINE kind == taps[request.tap]
  <2>1. kind \in Kinds /\ request.tap \in 1..Len(taps)
    BY <1>1
  <2>2. relay' = [relay EXCEPT ![kind] = request.tap]
    BY <1>4 DEF RouteServed
  <2>3. \A other \in net' : other.output = 1 => other.tap > request.tap
    <3> SUFFICES ASSUME NEW other \in net', other.output = 1
                 PROVE  other.tap > request.tap
      OBVIOUS
    <3>1. other \in net /\ other # request /\ other = Request(other.tap, 1)
      BY <1>1, <1>2 DEF Request
    <3>2. other.tap >= request.tap
      BY <3>1, <1>4 DEF RouteServed, Arrives
    <3>3. other.tap # request.tap
      BY <3>1, <1>3, <1>4
    <3> QED
      BY <3>1, <3>2, <3>3, <1>1
  <2>4. \A n \in 1..Len(taps) :
            Request(n, 1) \notin net' <=> Request(n, 1) \notin net \/ n = request.tap
    BY <1>2, <1>3, <1>4 DEF Request
  <2>5. \A n \in 1..Len(taps) : Request(n, 1) \notin net => n < request.tap
    BY <1>4 DEF OldestFirst
  <2>6. OldestFirst'
    <3> SUFFICES ASSUME NEW other \in net', NEW n \in 1..Len(taps),
                        other.output = 1, Request(n, 1) \notin net'
                 PROVE  n < other.tap
      BY <1>2 DEF OldestFirst
    <3>1. other.tap \in Nat /\ other.tap > request.tap
      BY <2>3, <1>1, <1>2
    <3>2. n <= request.tap
      BY <2>4, <2>5, <2>1
    <3> QED
      BY <3>1, <3>2, <2>1
  <2>7. \A k \in Kinds :
            Answered(k)' = IF k = kind THEN Answered(k) \cup {request.tap} ELSE Answered(k)
    BY <1>2, <2>1, <2>4 DEF Answered
  <2>8. \A n \in Answered(kind) : n \in Nat /\ n < request.tap
    BY <2>5 DEF Answered
  <2> HIDE DEF kind
  <2>9. ASSUME NEW k \in Kinds
        PROVE  /\ \A n \in Answered(k)' : n <= relay'[k]
               /\ Answered(k)' # {} => relay'[k] \in Answered(k)'
    <3>1. CASE k = kind
      BY <3>1, <2>1, <2>2, <2>7, <2>8, <1>1
    <3>2. CASE k # kind
      BY <3>2, <2>2, <2>7, <1>1 DEF RelayIsNewest
    <3> QED
      BY <3>1, <3>2
  <2> QED
    BY <2>6, <2>9 DEF RelayIsNewest
<1>5. CASE request.output # 1
  <2>1. \A n \in 1..Len(taps) : Request(n, 1) \in net' <=> Request(n, 1) \in net
    BY <1>2, <1>5 DEF Request
  <2>2. \A k \in Kinds : Answered(k)' = Answered(k)
    BY <1>2, <2>1 DEF Answered
  <2>3. relay' = relay
    BY <1>5 DEF RouteServed
  <2>4. OldestFirst'
    BY <1>2, <2>1 DEF OldestFirst
  <2> QED
    BY <1>2, <2>2, <2>3, <2>4 DEF RelayIsNewest
<1> QED
  BY <1>4, <1>5

LEMMA AnswersStep == AnswersInv /\ [Next]_vars => AnswersInv'
<1> SUFFICES ASSUME AnswersInv, [Next]_vars PROVE OldestFirst' /\ RelayIsNewest'
  BY TypeStep DEF AnswersInv
<1>1. ASSUME NEW request \in net, RouteFailed(request)
      PROVE  OldestFirst' /\ RelayIsNewest'
  BY <1>1 DEF RouteFailed, OldestFirst, RelayIsNewest
<1>2. CASE UNCHANGED <<regime, routes>>
  BY <1>2 DEF routes, AnswersInv, OldestFirst, RelayIsNewest, Answered
<1> QED
  BY <1>1, <1>2, TapKeepsAnswers, AnswerKeepsAnswers
     DEF Next, MapMade, TapMyLocation, Back, TapMarker, Tick, Permit,
         AuthorizationTold, Located, vars

(* Whatever the number of taps: with a service that answers in order a tap   *)
(* draws the answer of the latest tap of its kind that has one, although it  *)
(* draws before its own answer and asks twice.                               *)
THEOREM DrawsNewest == Spec => DrawsNewestAnswer
<1>1. Init => AnswersInv
  <2> SUFFICES ASSUME Init PROVE AnswersInv
    OBVIOUS
  <2>1. TypeOK
    BY TypeInit
  <2>2. Len(taps) = 0 /\ net = {}
    BY DEF Init
  <2>3. \A k \in Kinds : Answered(k) = {}
    BY <2>2 DEF Answered
  <2> QED
    BY <2>1, <2>2, <2>3 DEF AnswersInv, OldestFirst, RelayIsNewest
<1>2. ASSUME AnswersInv, NEW kind \in Kinds, regime.kind, map, TapRoute(kind),
             Answered(kind) # {}
      PROVE  layer' = [k \in Kinds |-> IF k = kind THEN {Max(Answered(kind))} ELSE {}]
  <2>1. TypeOK /\ Answered(kind) \subseteq 1..Len(taps)
    BY <1>2 DEF AnswersInv, Answered
  <2>2. relay[kind] \in Answered(kind) /\ \A n \in Answered(kind) : n <= relay[kind]
    BY <1>2 DEF AnswersInv, RelayIsNewest
  <2>3. Max(Answered(kind)) = relay[kind]
    <3>1. \A n \in Answered(kind) : n \in Int
      BY <2>1
    <3>2. \E x \in Answered(kind) : \A y \in Answered(kind) : x >= y
      BY <2>2, <3>1
    <3>3. /\ Max(Answered(kind)) \in Answered(kind)
          /\ \A y \in Answered(kind) : Max(Answered(kind)) >= y
      BY <3>2, Zenon DEF Max
    <3> QED
      BY <2>2, <3>1, <3>3
  <2>4. relay[kind] \in 0..Len(taps) /\ relay[kind] # 0
    BY <2>1, <2>2
  <2>5. layer' = drawRoute(kind, relay[kind])
    BY <1>2, <2>4 DEF TapRoute
  <2>6. drawRoute(kind, relay[kind])
            = [k \in Kinds |-> IF k = kind THEN {relay[kind]} ELSE {}]
    BY <1>2, <2>1, <2>4, Drawn
  <2> QED
    BY <2>3, <2>5, <2>6, Zenon
<1>3. AnswersInv /\ [Next]_vars =>
        [\A kind \in Kinds :
            (regime.kind /\ map /\ TapRoute(kind) /\ Answered(kind) # {}) =>
                layer' = [k \in Kinds |->
                            IF k = kind THEN {Max(Answered(kind))} ELSE {}]]_vars
  BY <1>2
<1> QED
  BY <1>1, <1>3, AnswersStep, PTL DEF Spec, DrawsNewestAnswer
=============================================================================
