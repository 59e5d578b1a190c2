------------------------------ MODULE FindRoad ------------------------------
(***************************************************************************)
(* The page of the way to a plan: two buttons that ask for a route by car   *)
(* or on foot and draw the one in the view model's relay, and a button on   *)
(* the map that shows, follows and hides the user's own position.           *)
(*                                                                         *)
(* The page binds its taps to the view model twice, so each tap acts twice; *)
(* only the relays of the first binding are read.  A tap draws before its   *)
(* own answer has come.                                                     *)
(***************************************************************************)
EXTENDS Integers, Sequences, FiniteSets, FiniteSetsExt

CONSTANTS
    Positions,  \* where the user may be
    Nowhere,    \* GeoCoordinate(): no position has come yet
    Regimes,    \* users and route services, with a bound on the taps of the
                \* route buttons; see Regime
    MaxAbove    \* bound on the search pages over the page

\* "kind": each answer of the service is a route and comes in the order of the
\* requests; "roams": the user touches the marker's button.
Regime == [kind : BOOLEAN, roams : BOOLEAN, taps : Nat]

ASSUME RoadConstants ==
    /\ Regimes \subseteq Regime
    /\ Nowhere \notin Positions
    /\ MaxAbove \in Nat

VARIABLES
    regime,
    open,       \* the page is on the stack
    above,      \* search pages over it
    map,        \* the engine has made the map
    taps,       \* taps of the route buttons: which of the two, oldest first
    net,        \* requests in flight
    relay,      \* destinationCarPathRelay, destinationPedPathRelay: the tap
                \* whose route they hold, 0 for nothing to draw
    layer,      \* the routes on CarRouteLayer and WalkRouteLayer
    mode,
    timer,      \* the timer that moves the marker runs
    updates,    \* locationManager runs
    granted,    \* what the system allows
    told,       \* locationServiceAuthorized
    position,   \* currentPosition
    marker      \* where the marker has been drawn

routes == <<taps, net, relay, layer>>
location == <<mode, timer, updates, told, position, marker>>
vars == <<regime, open, above, map, routes, granted, location>>

Kinds == {"car", "ped"}

Permissions == {"notDetermined", "denied", "whenInUse", "always"}
Request(n, output) == [tap |-> n, output |-> output]

TypeOK ==
    /\ regime \in Regimes
    /\ open \in BOOLEAN /\ map \in BOOLEAN
    /\ above \in 0..MaxAbove
    /\ taps \in Seq(Kinds) /\ Len(taps) <= regime.taps
    /\ net \subseteq [tap : 1..Len(taps), output : 1..2]
    /\ relay \in [Kinds -> 0..Len(taps)]
    /\ layer \in [Kinds -> SUBSET (0..Len(taps))]
    /\ mode \in {"hidden", "show", "tracking"}
    /\ timer \in BOOLEAN /\ updates \in BOOLEAN
    /\ granted \in Permissions /\ told \in Permissions
    /\ {position, marker} \subseteq Positions \cup {Nowhere}

-----------------------------------------------------------------------------
\* A new page, as moveToPlanFromTabBar makes one at each visit: viewDidLoad asks
\* for the permission and starts the updates at once, in whatever mode.
Init ==
    /\ regime \in Regimes
    /\ granted \in Permissions
    /\ open = TRUE
    /\ above = 0
    /\ map = FALSE
    /\ taps = <<>> /\ net = {}
    /\ relay = [k \in Kinds |-> 0]
    /\ layer = [k \in Kinds |-> {}]
    /\ mode = "hidden" /\ timer = FALSE
    /\ updates = TRUE
    /\ told = "notDetermined"
    /\ position = Nowhere /\ marker = Nowhere

\* The run loop keeps a running timer, and the timer its page with the location
\* manager; without one nothing keeps a page that was left.
Alive == open \/ timer

Top == open /\ above = 0

\* authenticationSucceeded, addViews
MapMade ==
    /\ open /\ ~map
    /\ map' = TRUE
    /\ UNCHANGED <<regime, open, above, routes, granted, location>>

\* Both subscriptions of the label push a search page for the start, where a row
\* that is chosen changes nothing.
TapMyLocation ==
    /\ Top
    /\ MaxAbove >= 2
    /\ above' = 2
    /\ UNCHANGED <<regime, open, map, routes, granted, location>>

\* The back button.
Back ==
    /\ open
    /\ \/ above > 0 /\ above' = above - 1 /\ UNCHANGED open
       \/ above = 0 /\ open' = FALSE /\ UNCHANGED above
    /\ UNCHANGED <<regime, map, routes, granted, location>>

-----------------------------------------------------------------------------
(* Routes                                                                  *)

\* A layer is removed with its route; a route is not added to a layer that has
\* one (KakaoMapsSDK, external).
AddRoute(drawn, route) == IF drawn = {} THEN {route} ELSE drawn

\* Mutants: the layer of the own kind, or of the other, is not removed.
drawRouteKept(kind, route) ==
    IF map
    THEN [k \in Kinds |-> IF k = kind THEN AddRoute(layer[k], route) ELSE {}]
    ELSE layer

drawRouteOver(kind, route) ==
    IF map THEN [layer EXCEPT ![kind] = AddRoute({}, route)] ELSE layer

\* drawCarRoute, drawPedRoute: both layers are removed and one is made anew.
drawRoute(kind, route) ==
    IF map
    THEN [k \in Kinds |-> IF k = kind THEN AddRoute({}, route) ELSE {}]
    ELSE layer

\* Both subscriptions of the view model ask; then the page draws what the relay
\* holds by now, for the car only if that is a path.
TapRoute(kind) ==
    /\ Top
    /\ Len(taps) < regime.taps
    /\ taps' = Append(taps, kind)
    /\ net' = net \cup {Request(Len(taps'), output) : output \in 1..2}
    /\ layer' = IF kind = "car" /\ relay[kind] = 0
                THEN layer ELSE drawRoute(kind, relay[kind])
    /\ UNCHANGED <<regime, open, above, map, relay, granted, location>>

\* From a kind service an answer waits for the ones asked for before it.
Arrives(request) ==
    regime.kind => \A other \in net :
                other.output = request.output => other.tap >= request.tap

\* The first binding's answer replaces what its relay held; nobody reads the
\* relays of the second.  A car answer may be without a path.
RouteServed(request) ==
    /\ Arrives(request)
    /\ net' = net \ {request}
    /\ IF request.output = 1
       THEN \E route \in {request.tap} \cup (IF regime.kind THEN {} ELSE {0}) :
                relay' = [relay EXCEPT ![taps[request.tap]] = route]
       ELSE UNCHANGED relay
    /\ UNCHANGED <<regime, open, above, map, taps, layer, granted, location>>

\* Errors are printed.
RouteFailed(request) ==
    /\ ~regime.kind
    /\ net' = net \ {request}
    /\ UNCHANGED <<regime, open, above, map, taps, relay, layer, granted, location>>

-----------------------------------------------------------------------------
(* The marker of the own position                                          *)

startUpdateLocation == IF told = "whenInUse" THEN TRUE ELSE updates

Show ==
    /\ mode = "hidden"
    /\ mode' = "show"
    /\ timer' = TRUE
    /\ updates' = startUpdateLocation

Track ==
    /\ mode = "show"
    /\ mode' = "tracking"
    /\ UNCHANGED <<timer, updates>>

\* Mutant: the timer is not invalidated.
HideTicking ==
    /\ mode = "tracking"
    /\ mode' = "hidden"
    /\ updates' = FALSE
    /\ UNCHANGED timer

Hide ==
    /\ mode = "tracking"
    /\ mode' = "hidden"
    /\ timer' = FALSE
    /\ updates' = FALSE

\* guiDidTapped
TapMarker ==
    /\ Top /\ map /\ regime.roams
    /\ Show \/ Track \/ Hide
    /\ UNCHANGED <<regime, open, above, map, routes, granted, told, position, marker>>

\* Mutant: the marker is moved once only.
TickOnce ==
    /\ timer
    /\ marker' = IF marker = Nowhere THEN position ELSE marker
    /\ UNCHANGED <<regime, open, above, map, routes, granted, mode, timer, updates, told, position>>

\* updateCurrentPositionPOI
Tick ==
    /\ timer
    /\ marker' = position
    /\ UNCHANGED <<regime, open, above, map, routes, granted, mode, timer, updates, told, position>>

\* The user answers the system's question or changes the settings (external).
Permit ==
    /\ granted' \in Permissions \ {granted, "notDetermined"}
    /\ granted = "notDetermined" => granted' # "always"
    /\ UNCHANGED <<regime, open, above, map, routes, location>>

\* Mutants: the updates are started whatever the mode, or in the mode "show" only.
AuthorizationAnyMode ==
    /\ Alive /\ told # granted
    /\ told' = granted
    /\ updates' = IF told' = "whenInUse" THEN TRUE ELSE updates
    /\ UNCHANGED <<regime, open, above, map, routes, granted, mode, timer, position, marker>>

AuthorizationShowOnly ==
    /\ Alive /\ told # granted
    /\ told' = granted
    /\ updates' = IF told' = "whenInUse" /\ mode = "show" THEN TRUE ELSE updates
    /\ UNCHANGED <<regime, open, above, map, routes, granted, mode, timer, position, marker>>

\* locationManager(_:didChangeAuthorization:)
AuthorizationTold ==
    /\ Alive /\ told # granted
    /\ told' = granted
    /\ updates' = IF told' = "whenInUse" /\ mode \in {"show", "tracking"}
                  THEN TRUE ELSE updates
    /\ UNCHANGED <<regime, open, above, map, routes, granted, mode, timer, position, marker>>

\* locationManager(_:didUpdateLocations:)
Located ==
    /\ Alive /\ updates /\ granted \in {"whenInUse", "always"}
    /\ position' \in Positions
    /\ UNCHANGED <<regime, open, above, map, routes, granted, mode, timer, updates, told, marker>>

-----------------------------------------------------------------------------
Next ==
    \/ MapMade
    \/ TapMyLocation
    \/ Back
    \/ \E kind \in Kinds : TapRoute(kind)
    \/ \E request \in net : RouteServed(request) \/ RouteFailed(request)
    \/ TapMarker
    \/ Tick
    \/ Permit
    \/ AuthorizationTold
    \/ Located

Spec == Init /\ [][Next]_vars

\* The main run loop fires its timers.
FairSpec == Spec /\ WF_vars(Tick)

-----------------------------------------------------------------------------
(* Properties                                                              *)

\* Whatever is tapped and however the answers come, a route by car and one on
\* foot are never drawn at the same time, nor two of a kind.
OneRouteShown ==
    /\ \A k \in Kinds : Cardinality(layer[k]) <= 1
    /\ \E k \in Kinds : layer[k] = {}

\* The taps of a kind whose first request has been answered.
Answered(kind) ==
    {n \in 1..Len(taps) : taps[n] = kind /\ Request(n, 1) \notin net}

\* If answers come in order, a tap draws the answer of the latest tap before it
\* that has one, in place of whatever was drawn, although it asks twice and
\* never waits for the answer.
DrawsNewestAnswer ==
    [][\A kind \in Kinds :
          (regime.kind /\ map /\ TapRoute(kind) /\ Answered(kind) # {}) =>
              layer' = [k \in Kinds |-> IF k = kind THEN {Max(Answered(kind))} ELSE {}]]_vars

\* While the marker is shown or followed and the page has been told that it may
\* use the location, the location manager runs, in whatever order taps and
\* permissions came.
MarkerIsFed == (mode # "hidden" /\ told = "whenInUse") => updates

\* Once a page has hidden the marker and stopped the updates, only a tap starts
\* them again.
HiddenStaysQuiet ==
    [][(mode = "hidden" /\ ~updates /\ mode' = "hidden") => ~updates']_vars

\* A marker that is shown gets to where the user is known to be, as often as
\* that changes and whatever page is on top.
MarkerFollows == (mode # "hidden") ~> (marker = position \/ mode = "hidden")

\* A page on which the marker was hidden before it was left does not live on;
\* one left with its marker shown does, with its timer.
LeftPageEnds == ~open => (Alive <=> mode # "hidden")
=============================================================================
