------------------------------- MODULE HomeTab -------------------------------
(***************************************************************************)
(* The home tab: its stack of pages, the chosen place and group, which all *)
(* pages share through the keychain, the saving of a plan, the push        *)
(* notification that a plan's place has changed, and the end of the app's  *)
(* process, which the keychain survives.  TabBar adds what surrounds it.   *)
(***************************************************************************)
EXTENDS Naturals, Sequences, FiniteSets

CONSTANTS
    Places,    \* the places a search finds
    Groups,    \* the user's groups
    Slots,     \* room for saving requests in flight
    Here,      \* coordinates of the user's own location
    Origin,    \* coordinates 0.0, 0.0
    Unset,     \* an item the keychain does not hold
    MaxVisits, \* bound on the openings of the plan page in any regime
    MaxSaves,  \* bound on the requests of a visit in flight or served
    Regimes    \* what the user and the services may do, see below

Items == {"placeName", "placeDetails", "coordinates"}

\* A regime is one assumption about the world for a whole behaviour: whether
\* the user may leave a search without choosing, whether he awaits the answer
\* before he confirms again, whether every request is served and answered,
\* which items the service gives of a place; and five bounds: on the map
\* coordinators before the user opens another map, on the openings of the plan
\* page, on the notifications of a place, on the logins and, in TabBar, on the
\* invitations.
AllRegimes ==
    [abandons : BOOLEAN, patient : BOOLEAN, lossless : BOOLEAN,
     maps : Nat, visits : 0..MaxVisits, pushes : Nat, starts : Nat, invites : Nat,
     provides : [Places -> SUBSET Items]]

ASSUME HomeConstants ==
    /\ Regimes \subseteq AllRegimes
    /\ Unset \notin Places \cup Groups \cup {Here, Origin}
    /\ Here \notin Places \cup {Origin}
    /\ MaxVisits \in Nat /\ MaxSaves \in Nat
    /\ IsFiniteSet(Slots)

VARIABLES
    nav,     \* the navigation controller's pages, the top one last; none
             \* before the tab bar is opened
    dialog,  \* position of the page whose alert or date sheet is open, or 0
    items,   \* the keychain's items of the chosen place
    groupId, \* the keychain's GroupId
    maps,    \* map coordinators alive: each keeps itself alive
    net,     \* saving requests in flight
    saved,   \* plans the service has saved, by opening of the plan page
    visits,  \* openings of the plan page so far
    pushes,  \* notifications so far
    starts,  \* tab bars opened so far
    regime   \* the regime of this behaviour

vars == <<nav, dialog, items, groupId, maps, net, saved, visits, pushes, starts, regime>>

\* A page has the group it was reached from; a plan page also has the label it
\* shows and the number of its opening.  A "placeMap" is a map with the sheet of a chosen
\* place; "plans" has been opened by the bell, "placePlans" by that sheet.
Kinds == {"groups", "map", "placeMap", "search", "plans", "placePlans",
          "plan", "findRoad"}
Names == Places \cup {Unset}
GroupIds == Groups \cup {Unset}
Values == Places \cup {Here, Origin, Unset}
Visits == 1..MaxVisits
PageSet == [kind : Kinds, group : GroupIds, label : Names, visit : 0..MaxVisits]
Requests == [status : {"sent", "saved"}, place : [Items -> Values],
             group : GroupIds, page : PageSet]
Idle == [status |-> "idle"]

TypeOK ==
    /\ nav \in Seq(PageSet)
    /\ dialog \in Nat
    /\ items \in [Items -> Values] /\ items["placeName"] \in Names
    /\ groupId \in GroupIds
    /\ maps \in Nat
    /\ net \in [Slots -> Requests \cup {Idle}]
    /\ saved \in [Visits -> Nat]
    /\ visits \in 0..MaxVisits
    /\ pushes \in Nat
    /\ starts \in Nat
    /\ regime \in Regimes

Page(kind) == [kind |-> kind, group |-> groupId, label |-> Unset, visit |-> 0]
Top == nav[Len(nav)]
Push(kind) == Append(nav, [Page(kind) EXCEPT !.group = Top.group])
Below == SubSeq(nav, 1, Len(nav) - 1)

\* The page the user can touch: an open alert covers the others.
Showing(kind) == dialog = 0 /\ nav # <<>> /\ Top.kind = kind

-----------------------------------------------------------------------------
\* The first launch after the app was installed: the keychain is empty.
Init ==
    /\ groupId = Unset
    /\ nav = <<>>
    /\ dialog = 0
    /\ items = [i \in Items |-> Unset]
    /\ maps = 0
    /\ net = [s \in Slots |-> Idle]
    /\ saved = [v \in Visits |-> 0]
    /\ visits = 0
    /\ pushes = 0
    /\ starts = 0
    /\ regime \in Regimes

\* A login sets the coordinates to 0.0 and opens a tab bar with the list of
\* groups.
Start ==
    /\ nav = <<>>
    /\ starts < regime.starts
    /\ starts' = starts + 1
    /\ items' = [items EXCEPT !["coordinates"] = Origin]
    /\ nav' = <<Page("groups")>>
    /\ UNCHANGED <<dialog, groupId, maps, net, saved, visits, pushes, regime>>

\* The process ends.  A request that was sent may still be served; its answer
\* finds nobody.
Kill ==
    /\ nav' = <<>>
    /\ dialog' = 0
    /\ maps' = 0
    /\ net' = [s \in Slots |-> Idle]
    /\ \E served \in SUBSET {s \in Slots : net[s] # Idle /\ net[s].status = "sent"} :
        saved' = [v \in Visits |->
                    saved[v] + Cardinality({s \in served : net[s].page.visit = v})]
    /\ UNCHANGED <<items, groupId, visits, pushes, starts, regime>>

\* Mutant: the group is saved only the first time.
SelectGroupOnce(g) ==
    /\ Showing("groups")
    /\ maps < regime.maps
    /\ groupId' = IF groupId = Unset THEN g ELSE groupId
    /\ nav' = Append(nav, [Page("map") EXCEPT !.group = g])
    /\ maps' = maps + 1
    /\ UNCHANGED <<dialog, items, net, saved, visits, pushes, starts, regime>>

SelectGroup(g) ==
    /\ Showing("groups")
    /\ maps < regime.maps
    /\ groupId' = g
    /\ nav' = Append(nav, [Page("map") EXCEPT !.group = g])
    /\ maps' = maps + 1
    /\ UNCHANGED <<dialog, items, net, saved, visits, pushes, starts, regime>>

\* The search bar of a map, with or without a sheet.  The own location
\* overwrites the coordinates of the place chosen before.
moveSearch ==
    /\ Showing("map") \/ Showing("placeMap")
    /\ items' = [items EXCEPT !["coordinates"] = Here]
    /\ nav' = Push("search")
    /\ UNCHANGED <<dialog, groupId, maps, net, saved, visits, pushes, starts, regime>>

\* Mutant: the coordinates of the choice are not saved.
SelectPlaceByName(p) ==
    /\ Showing("search")
    /\ items' = [i \in Items |->
                    IF i \in regime.provides[p] \ {"coordinates"}
                    THEN p ELSE items[i]]
    /\ nav' = [Below EXCEPT ![Len(Below)].kind = "placeMap"]
    /\ UNCHANGED <<dialog, groupId, maps, net, saved, visits, pushes, starts, regime>>

\* A row of the results: the fields it has are saved, the search page goes and
\* the map below it shows the sheet.
SelectPlace(p) ==
    /\ Showing("search")
    /\ items' = [i \in Items |->
                    IF i \in regime.provides[p] THEN p ELSE items[i]]
    /\ nav' = [Below EXCEPT ![Len(Below)].kind = "placeMap"]
    /\ UNCHANGED <<dialog, groupId, maps, net, saved, visits, pushes, starts, regime>>

\* The button of the sheet asks before it moves; the plan page has an alert for
\* its name and a sheet for its date.
OpenDialog ==
    /\ Showing("placeMap") \/ Showing("plan")
    /\ dialog' = Len(nav)
    /\ UNCHANGED <<nav, items, groupId, maps, net, saved, visits, pushes, starts,
                   regime>>

CloseDialog ==
    /\ dialog # 0
    /\ dialog' = 0
    /\ UNCHANGED <<nav, items, groupId, maps, net, saved, visits, pushes, starts,
                   regime>>

\* The alert of the sheet is answered: by now its map may be covered by the
\* pages of a notification, or be gone.  Or the bell, which a map with a sheet
\* lacks.
moveToPlans ==
    /\ \/ /\ dialog \in 1..Len(nav) /\ nav[dialog].kind = "placeMap"
          /\ nav' = Append(nav, [Page("placePlans") EXCEPT !.group = nav[dialog].group])
       \/ Showing("map") /\ nav' = Push("plans")
    /\ dialog' = 0
    /\ UNCHANGED <<items, groupId, maps, net, saved, visits, pushes, starts, regime>>

\* A plan page shows the name of the place saved when it opens.
PlanPage ==
    [Top EXCEPT !.kind = "plan", !.label = items["placeName"],
                !.visit = visits + 1]

\* Any plan of the list, or a new one, when the list is of the sheet: which
\* plan it was is not passed on.  A plan of the bell's list is a way to go.
OpenPlan ==
    \/ /\ Showing("placePlans")
       /\ visits < regime.visits
       /\ visits' = visits + 1
       /\ nav' = Append(nav, PlanPage)
       /\ UNCHANGED <<dialog, items, groupId, maps, net, saved, pushes, starts, regime>>
    \/ /\ Showing("plans")
       /\ nav' = Push("findRoad")
       /\ UNCHANGED <<dialog, items, groupId, maps, net, saved, visits, pushes, starts, regime>>

\* The back button of the navigation bar.
Back ==
    /\ Len(nav) > 1 /\ dialog = 0
    /\ Showing("search") => regime.abandons
    /\ nav' = Below
    /\ UNCHANGED <<dialog, items, groupId, maps, net, saved, visits, pushes, starts, regime>>

InFlight(visit) == {s \in Slots : net[s] # Idle /\ net[s].page.visit = visit}
Sent(visit) == {s \in InFlight(visit) : net[s].status = "sent"}

\* The confirm button, which is never disabled.  The place and the group are
\* read from the keychain at this moment, not from the page.
Confirm(s) ==
    /\ Showing("plan")
    /\ net[s] = Idle
    /\ saved[Top.visit] + Cardinality(Sent(Top.visit)) < MaxSaves
    /\ regime.patient => InFlight(Top.visit) = {}
    /\ net' = [net EXCEPT ![s] = [status |-> "sent", place |-> items,
                                  group |-> groupId, page |-> Top]]
    /\ UNCHANGED <<nav, dialog, items, groupId, maps, saved, visits, pushes, starts, regime>>

\* The service saves a plan (external).
Serve(s) ==
    /\ net[s] # Idle /\ net[s].status = "sent"
    /\ net' = [net EXCEPT ![s].status = "saved"]
    /\ saved' = [saved EXCEPT ![net[s].page.visit] = @ + 1]
    /\ UNCHANGED <<nav, dialog, items, groupId, maps, visits, pushes, starts, regime>>

\* Mutants: the pages stay as they are; or only the page that asked leaves.
PlanSavedStays(s) ==
    /\ net[s] # Idle /\ net[s].status = "saved"
    /\ net' = [net EXCEPT ![s] = Idle]
    /\ UNCHANGED <<nav, dialog, items, groupId, maps, saved, visits, pushes, starts, regime>>

PlanSavedOnTop(s) ==
    /\ net[s] # Idle /\ net[s].status = "saved"
    /\ net' = [net EXCEPT ![s] = Idle]
    /\ nav' = IF Top = net[s].page THEN <<Page("map")>> ELSE nav
    /\ maps' = maps + 1
    /\ UNCHANGED <<dialog, items, groupId, saved, visits, pushes, starts, regime>>

\* The answer opens a new map in place of all pages, whichever page is shown:
\* the plan page's view model outlives its page.
PlanSaved(s) ==
    /\ net[s] # Idle /\ net[s].status = "saved"
    /\ net' = [net EXCEPT ![s] = Idle]
    /\ nav' = <<Page("map")>>
    /\ maps' = maps + 1
    /\ UNCHANGED <<dialog, items, groupId, saved, visits, pushes, starts, regime>>

\* No answer, before or after the service saved the plan: printed, not shown.
PlanFailed(s) ==
    /\ ~regime.lossless
    /\ net[s] # Idle
    /\ net' = [net EXCEPT ![s] = Idle]
    /\ UNCHANGED <<nav, dialog, items, groupId, maps, saved, visits, pushes, starts, regime>>

\* The coordinator that hears of notifications lives as long as its page.
Hears == \E i \in 1..Len(nav) : nav[i].kind = "groups"

\* Mutant: the map takes the place of all pages, as after a save.
PlaceChangedAlone ==
    /\ nav # <<>>
    /\ pushes < regime.pushes
    /\ pushes' = pushes + 1
    /\ \/ /\ Hears
          /\ nav' = <<Page("map")>> \o [i \in 1..(maps + 1) |-> Page("plans")]
          /\ maps' = maps + 1
       \/ /\ ~Hears
          /\ UNCHANGED <<nav, maps>>
    /\ UNCHANGED <<dialog, items, groupId, net, saved, visits, starts, regime>>

\* The user taps the notification that a place has changed.  A map is opened,
\* and then every map coordinator alive, that one included, opens a page of
\* plans.
PlaceChanged ==
    /\ nav # <<>>
    /\ pushes < regime.pushes
    /\ pushes' = pushes + 1
    /\ \/ /\ Hears
          /\ nav' = Append(nav, Page("map"))
                        \o [i \in 1..(maps + 1) |-> Page("plans")]
          /\ maps' = maps + 1
       \/ /\ ~Hears
          /\ UNCHANGED <<nav, maps>>
    /\ UNCHANGED <<dialog, items, groupId, net, saved, visits, starts, regime>>

Answers(s) == Serve(s) \/ PlanSaved(s) \/ PlanFailed(s)

Next ==
    \/ \E g \in Groups : SelectGroup(g)
    \/ moveSearch
    \/ \E p \in Places : SelectPlace(p)
    \/ moveToPlans
    \/ OpenPlan
    \/ Back
    \/ OpenDialog
    \/ CloseDialog
    \/ \E s \in Slots : Confirm(s) \/ Answers(s)
    \/ PlaceChanged
    \/ Start
    \/ Kill

Spec == Init /\ [][Next]_vars

\* Alamofire answers or times out every request; the user owes nothing.
FairSpec == Spec /\ \A s \in Slots : WF_vars(Answers(s))

-----------------------------------------------------------------------------
(* Properties                                                              *)

\* The plan asked for is the one the page shows: the place under the label and
\* the group the user came from, although Confirm reads neither from the page.
\* It takes a notification to come between page and keychain.
SendsWhatPageShows ==
    pushes = 0 =>
        \A s \in Slots :
            net[s] # Idle =>
                /\ net[s].place["placeName"] = net[s].page.label
                /\ net[s].group = net[s].page.group

\* A plan's destination is one place, the "chosen destination" its page shows.
PlanHasOnePlace ==
    \A s \in Slots :
        net[s] # Idle =>
            \A i, j \in Items : net[s].place[i] = net[s].place[j]

\* The items of a destination are written and read pages apart.  They are those
\* of one place, whatever is tapped, lost or notified in between, unless a
\* search is left or the service leaves out a field.
WholePlace ==
    ( /\ ~regime.abandons
      /\ \A p \in Places : regime.provides[p] = Items ) => PlanHasOnePlace

\* A visit of the plan page saves at most one plan, for a user who awaits the
\* answer and a service that gives one.
OnePlanPerVisit ==
    (regime.patient /\ regime.lossless) => \A v \in Visits : saved[v] <= 1

\* The way back to the list of groups, and with it the listener to
\* notifications, is lost by saving a plan and by nothing else.
ListLostBySaving ==
    nav # <<>> => Hears \/ \E v \in Visits : saved[v] > 0

\* A saved plan brings the user to a map ("to the first map screen", moveToMain)
\* even if the page that asked for it is gone, unless the app is.
SavedPlanShowsMap ==
    \A s \in Slots :
        (net[s] # Idle /\ net[s].status = "saved" /\ regime.lossless)
            ~> (nav = <<>> \/ nav[1].kind \in {"map", "placeMap"})

\* showAlertPage and showMainPage are "the function that moves to the
\* notification page": the tap of a notification ends on a page of plans.
PushOpensPlans == [][pushes' # pushes => Top'.kind = "plans"]_vars
=============================================================================
