------------------------------- MODULE Members -------------------------------
(***************************************************************************)
(* The participants page of a group, opened from the map: it loads the     *)
(* members, invites the friends a picker hands over, and sends the user's  *)
(* own place when he chooses one on a search page.  Picker and search hand *)
(* their results to the coordinator, which passes them to the page through *)
(* an output it keeps from the first tap of the plus button on.            *)
(***************************************************************************)
EXTENDS Naturals, SequencesExt

CONSTANTS
    Friends,   \* whom the picker offers
    Places,    \* what the search page offers
    Located,   \* those with a latitude and a longitude
    NoPlace,   \* nil
    MaxVisits, \* bound on the openings of the page
    MaxSends,  \* bound on the choices of friends and of places
    MaxNet     \* bound on the requests in flight

ASSUME MembersConstants ==
    /\ Located \subseteq Places
    /\ NoPlace \notin Places
    /\ MaxVisits \in Nat /\ MaxSends \in Nat /\ MaxNet \in Nat

VARIABLES
    network,   \* "orderly": served in the order sent, none lost; or "any"
    nav,       \* the pages over the map, the top one last
    visits,    \* openings of the participants page so far
    sends,     \* choices handed over so far
    output,    \* the coordinator of this opening holds the page's output
    listed,    \* participantsRelay has its members: the table has rows
    net,       \* requests in flight, oldest first
    invited,   \* the friends the service was told to invite (external)
    location,  \* the place the service has for the user (external)
    handed,    \* history: the friends handed over
    passed,    \* history: the last place that reached myLocationRelay
    chosen     \* history: the last place chosen that has coordinates

pageVars == <<nav, visits, sends, output>>
serviceVars == <<invited, location>>
historyVars == <<handed, passed, chosen>>
vars == <<network, pageVars, listed, net, serviceVars, historyVars>>

Networks == {"orderly", "any"}
Orderly == network = "orderly"
Pages == {"participants", "picker", "search"}
Requests ==
    [kind : {"members", "invite", "location"}, visit : 1..MaxVisits,
     friends : SUBSET Friends, place : Places \cup {NoPlace}]

TypeOK ==
    /\ network \in Networks
    /\ nav \in {<<>>, <<"participants">>, <<"participants", "picker">>,
                <<"participants", "search">>}
    /\ visits \in 0..MaxVisits
    /\ sends \in 0..MaxSends
    /\ output \in BOOLEAN /\ listed \in BOOLEAN
    /\ net \in Seq(Requests)
    /\ invited \in SUBSET Friends
    /\ location \in Located \cup {NoPlace}
    /\ handed \in SUBSET Friends
    /\ passed \in Located \cup {NoPlace}
    /\ chosen \in Located \cup {NoPlace}

Request(kind, visit, friends, place) ==
    [kind |-> kind, visit |-> visit, friends |-> friends, place |-> place]
Invite(friends) == Request("invite", visits, friends, NoPlace)
SendPlace(p) == Request("location", visits, {}, p)

Top(page) == nav # <<>> /\ Last(nav) = page
CanSend == Len(net) < MaxNet

Init ==
    /\ network \in Networks
    /\ nav = <<>> /\ visits = 0 /\ sends = 0
    /\ output = FALSE /\ listed = FALSE
    /\ net = <<>>
    /\ invited = {} /\ location = NoPlace
    /\ handed = {} /\ passed = NoPlace /\ chosen = NoPlace

-----------------------------------------------------------------------------
\* A new coordinator, page and view model.  The invitation relay emits its
\* empty list when it is bound, so each opening invites nobody, then loads.
start ==
    /\ nav = <<>> /\ visits < MaxVisits
    /\ nav' = <<"participants">>
    /\ visits' = visits + 1
    /\ output' = FALSE /\ listed' = FALSE
    /\ net' = net \o <<Request("invite", visits + 1, {}, NoPlace),
                       Request("members", visits + 1, {}, NoPlace)>>
    /\ UNCHANGED <<network, sends, serviceVars, historyVars>>

moveAddNewFriends ==
    /\ Top("participants")
    /\ nav' = Append(nav, "picker")
    /\ output' = TRUE
    /\ UNCHANGED <<network, visits, sends, listed, net, serviceVars,
                   historyVars>>

\* Mutant: friends handed over while a request is out are not invited.
sendDataWhenIdle(friends) ==
    /\ Top("picker") /\ sends < MaxSends /\ CanSend
    /\ net' = IF net = <<>> THEN <<Invite(friends)>> ELSE net
    /\ handed' = handed \cup friends
    /\ sends' = sends + 1
    /\ nav' = Front(nav)
    /\ UNCHANGED <<network, visits, output, listed, serviceVars, passed,
                   chosen>>

\* The picker hands over its choice and is popped; the choice is invited.
sendData(friends) ==
    /\ Top("picker") /\ sends < MaxSends /\ CanSend
    /\ net' = IF output THEN Append(net, Invite(friends)) ELSE net
    /\ handed' = handed \cup friends
    /\ sends' = sends + 1
    /\ nav' = Front(nav)
    /\ UNCHANGED <<network, visits, output, listed, serviceVars, passed,
                   chosen>>

\* A tap on any member's row; whose row it is does not matter.
moveToChangeLocation ==
    /\ Top("participants") /\ listed
    /\ nav' = Append(nav, "search")
    /\ UNCHANGED <<network, visits, sends, output, listed, net, serviceVars,
                   historyVars>>

\* Mutant: a place chosen while a request is out is not sent.
didSelectPlaceWhenIdle(p) ==
    /\ Top("search") /\ sends < MaxSends /\ CanSend
    /\ IF output /\ p \in Located
       THEN /\ net' = IF net = <<>> THEN <<SendPlace(p)>> ELSE net
            /\ passed' = p
       ELSE UNCHANGED <<net, passed>>
    /\ chosen' = IF p \in Located THEN p ELSE chosen
    /\ sends' = sends + 1
    /\ nav' = Front(nav)
    /\ UNCHANGED <<network, visits, output, listed, serviceVars, handed>>

\* The coordinator drops the place while it has no output; the view model
\* drops one without coordinates.
didSelectPlace(p) ==
    /\ Top("search") /\ sends < MaxSends /\ CanSend
    /\ IF output /\ p \in Located
       THEN net' = Append(net, SendPlace(p)) /\ passed' = p
       ELSE UNCHANGED <<net, passed>>
    /\ chosen' = IF p \in Located THEN p ELSE chosen
    /\ sends' = sends + 1
    /\ nav' = Front(nav)
    /\ UNCHANGED <<network, visits, output, listed, serviceVars, handed>>

\* The back button; the view model goes with the participants page.
Back ==
    /\ nav # <<>>
    /\ nav' = Front(nav)
    /\ UNCHANGED <<network, visits, sends, output, listed, net, serviceVars,
                   historyVars>>

-----------------------------------------------------------------------------
Arriving == IF Orderly THEN 1..(IF net = <<>> THEN 0 ELSE 1) ELSE 1..Len(net)

\* The service does what it is asked (external); a list of members that comes
\* after its page was left is dropped with the subscription.
Served(i) ==
    LET r == net[i] IN
    /\ net' = RemoveAt(net, i)
    /\ invited' = invited \cup r.friends
    /\ location' = IF r.kind = "location" THEN r.place ELSE location
    /\ listed' = (listed \/ ( /\ r.kind = "members" /\ r.visit = visits
                              /\ nav # <<>>))
    /\ UNCHANGED <<network, pageVars, historyVars>>

\* An error is printed; nothing is undone or sent again.
Fails(i) ==
    /\ ~Orderly
    /\ net' = RemoveAt(net, i)
    /\ UNCHANGED <<network, pageVars, listed, serviceVars, historyVars>>

Answers == \E i \in Arriving : Served(i) \/ Fails(i)

Next ==
    \/ start
    \/ moveAddNewFriends
    \/ \E friends \in SUBSET Friends : sendData(friends)
    \/ moveToChangeLocation
    \/ \E p \in Places : didSelectPlace(p)
    \/ Back
    \/ Answers

Spec == Init /\ [][Next]_vars

\* Every request is served or times out; the user owes nothing.
FairSpec == Spec /\ WF_vars(Answers)

-----------------------------------------------------------------------------
(* Properties                                                              *)

\* Once all requests are served, everybody the picker handed over has been
\* invited and the user's place is the last one passed to the page, whatever
\* pages were left and opened again in between (sendData, didSelectPlace).
SettledService ==
    Orderly /\ net = <<>> => invited = handed /\ location = passed

\* Without losses, a place passed on reaches the service, or a later one does.
PlaceArrives ==
    \A p \in Located :
        (Orderly /\ passed = p) ~> (location = p \/ passed # p)

\* "Change the place of the person selected" (moveToChangeLocation's comment):
\* once all is served, the service has the last place chosen.
LocationFollowsChoice == Orderly /\ net = <<>> => location = chosen
=============================================================================
