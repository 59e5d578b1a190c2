----------------------------- MODULE GroupCreate -----------------------------
(***************************************************************************)
(* Creating a group: the list of groups, the page that takes a title and   *)
(* friends, the friend picker over it, and the chain of requests (create,  *)
(* then invite, then reload the list).  The view model of the page goes    *)
(* with the page; its requests go on, but their answers are then dropped.  *)
(***************************************************************************)
EXTENDS Naturals, Sequences, SequencesExt

CONSTANTS
    Titles,    \* the texts the title field may hold
    Empty,     \* the text of the field when the page opens
    Blank,     \* the text " ", the one CreateGroupViewModel refuses
    Friends,   \* the user's friends
    MaxNet,    \* bound on the requests in flight
    MaxVisits, \* bound on the openings of the page
    MaxGroups, \* bound on the groups asked for
    Regimes    \* what the user and the service may do, see below

\* A regime is one assumption about the world for a whole behaviour: whether
\* the user types on after a tap of the create button; whether he stays on the
\* page, and does not tap again, while it is asking for something; whether
\* requests of a kind are served and answered in order; whether every request
\* is served and its answer arrives; and a bound on the taps of that button.
AllRegimes ==
    [retypes : BOOLEAN, patient : BOOLEAN, inOrder : BOOLEAN,
     lossless : BOOLEAN, taps : Nat]

\* Two requests are in flight from the start.
ASSUME GroupConstants ==
    /\ {Empty, Blank} \subseteq Titles
    /\ MaxNet \in Nat \ {0, 1} /\ MaxVisits \in Nat
    /\ MaxGroups \in Nat
    /\ Regimes \subseteq AllRegimes

VARIABLES
    nav,     \* the pages of the home tab, the top one last
    visit,   \* openings of the create page; the last one's state follows
    field,   \* the text in the title field
    pending, \* the throttle holds a text back
    title,   \* the last text it let through
    tapped,  \* the create button has been tapped on this page
    picked,  \* output.selectedFriendListRelay
    net,     \* requests in flight, oldest first
    groups,  \* the service's groups, oldest first (external)
    listed,  \* output.groupListRelay: how many of the groups it holds
    taps,    \* history: taps of the create button
    offered, \* history: friends picked on each opening of the page
    asked,   \* history: groups asked for, one entry per request
    regime   \* the regime of this behaviour

pageVars == <<visit, field, pending, title, tapped, picked>>
vars == <<nav, pageVars, net, groups, listed, taps, offered, asked, regime>>

Pages == {"groups", "create", "picker"}
Requests ==
    [kind : {"list", "create", "invite"}, served : BOOLEAN,
     visit : 0..MaxVisits, title : Titles, friends : SUBSET Friends,
     group : Nat]  \* the group created or invited to, or how many were listed

Groups == [title : Titles, visit : 1..MaxVisits, invited : SUBSET Friends]

TypeOK ==
    /\ nav \in Seq(Pages) /\ nav # <<>> /\ nav[1] = "groups"
    /\ visit \in 0..MaxVisits
    /\ field \in Titles /\ title \in Titles
    /\ pending \in BOOLEAN /\ tapped \in BOOLEAN
    /\ picked \in SUBSET Friends
    /\ net \in Seq(Requests) /\ Len(net) <= MaxNet
    /\ groups \in Seq(Groups)
    /\ listed \in 0..Len(groups)
    /\ taps \in Nat
    /\ offered \in [1..MaxVisits -> SUBSET Friends]
    /\ asked \in Seq(Titles)
    /\ regime \in Regimes

Request(kind, t, friends, group) ==
    [kind |-> kind, served |-> FALSE, visit |-> visit, title |-> t,
     friends |-> friends, group |-> group]
ListRequest == Request("list", Empty, {}, 0)

Top == Last(nav)
HasRoom == Len(net) < MaxNet
\* Mutant: a page counts as open when any create page is.
SomeOpen(v) == Contains(nav, "create")

\* The view model that asked is alive: it lives as long as its page.
IsOpen(v) == v = visit /\ Contains(nav, "create")
Asking == \E i \in 1..Len(net) : net[i].visit = visit /\ net[i].kind # "list"

-----------------------------------------------------------------------------
\* The list is asked for by viewDidLoad and again by viewWillAppear.
Init ==
    /\ nav = <<"groups">>
    /\ visit = 0
    /\ field = Empty /\ pending = FALSE /\ title = Empty /\ tapped = FALSE
    /\ picked = {}
    /\ net = <<ListRequest, ListRequest>>
    /\ groups = <<>>
    /\ listed = 0
    /\ taps = 0
    /\ offered = [v \in 1..MaxVisits |-> {}]
    /\ asked = <<>>
    /\ regime \in Regimes

OpenCreate ==
    /\ Top = "groups"
    /\ visit < MaxVisits
    /\ nav' = Append(nav, "create")
    /\ visit' = visit + 1
    /\ field' = Empty /\ pending' = FALSE /\ title' = Empty /\ tapped' = FALSE
    /\ picked' = {}
    /\ UNCHANGED <<net, groups, listed, taps, offered, asked, regime>>

Edit(t) ==
    /\ Top = "create"
    /\ t # field
    /\ tapped => regime.retypes
    /\ field' = t
    /\ pending' = TRUE
    /\ UNCHANGED <<nav, visit, title, tapped, picked, net, groups, listed,
                   taps, offered, asked, regime>>

\* Only the text " " is refused (with a toast), not an empty one.
CreateGroup(t) ==
    IF t = Blank
    THEN UNCHANGED <<net, asked>>
    ELSE /\ HasRoom
         /\ Len(asked) < MaxGroups
         /\ net' = Append(net, Request("create", t, {}, 0))
         /\ asked' = Append(asked, t)

\* Mutant: the latest text alone creates a group.
ThrottledCreates ==
    /\ pending
    /\ Contains(nav, "create")
    /\ pending' = FALSE
    /\ title' = field
    /\ CreateGroup(field)
    /\ UNCHANGED <<nav, visit, field, tapped, picked, groups, listed, taps,
                   offered, regime>>

\* The throttle lets the latest text through.  combineLatest pairs it with the
\* last tap, if there was one, and a group is created.
Throttled ==
    /\ pending
    /\ Contains(nav, "create")
    /\ pending' = FALSE
    /\ title' = field
    /\ IF tapped THEN CreateGroup(field) ELSE UNCHANGED <<net, asked>>
    /\ UNCHANGED <<nav, visit, field, tapped, picked, groups, listed, taps,
                   offered, regime>>

\* The create button: the last text let through, not the one in the field.
TapCreate ==
    /\ Top = "create"
    /\ taps < regime.taps
    /\ regime.patient => ~pending /\ ~Asking
    /\ taps' = taps + 1
    /\ tapped' = TRUE
    /\ CreateGroup(title)
    /\ UNCHANGED <<nav, visit, field, pending, title, picked, groups, listed,
                   offered, regime>>

TapAddFriend ==
    /\ Top = "create"
    /\ regime.patient => ~Asking
    /\ nav' = Append(nav, "picker")
    /\ UNCHANGED <<pageVars, net, groups, listed, taps, offered, asked, regime>>

\* The picker hands over its selection, which replaces the earlier one.
PickFriends(chosen) ==
    /\ Top = "picker"
    /\ nav' = Front(nav)
    /\ picked' = chosen
    /\ offered' = [offered EXCEPT ![visit] = @ \cup chosen]
    /\ UNCHANGED <<visit, field, pending, title, tapped, net, groups, listed,
                   taps, asked, regime>>

\* Leaving the page shows the list again, which reloads itself.
Back ==
    /\ Top # "groups"
    /\ regime.patient => ~Asking
    /\ nav' = Front(nav)
    /\ IF Top = "create"
       THEN HasRoom /\ net' = Append(net, ListRequest)
       ELSE UNCHANGED net
    /\ UNCHANGED <<pageVars, groups, listed, taps, offered, asked, regime>>

-----------------------------------------------------------------------------
\* Requests of a kind may overtake each other unless the regime forbids it.
OlderServed(i) ==
    regime.inOrder =>
        \A j \in 1..(i - 1) : net[j].kind = net[i].kind => net[j].served
OldestOfKind(i) ==
    regime.inOrder =>
        \A j \in 1..(i - 1) : net[j].kind # net[i].kind

\* The service does what a request asks for (external).
Serve(i) ==
    /\ OlderServed(i)
    /\ ~net[i].served
    /\ LET r == net[i]
           done(group) == ReplaceAt(net, i, [r EXCEPT !.served = TRUE,
                                                      !.group = group])
       IN  \/ /\ r.kind = "list"
              /\ net' = done(Len(groups))
              /\ UNCHANGED groups
           \/ /\ r.kind = "create"
              /\ groups' = Append(groups, [title |-> r.title, invited |-> {},
                                           visit |-> r.visit])
              /\ net' = done(Len(groups) + 1)
           \/ /\ r.kind = "invite"
              /\ groups' = [groups EXCEPT ![r.group].invited = r.friends]
              /\ net' = done(r.group)
    /\ UNCHANGED <<nav, pageVars, listed, taps, offered, asked, regime>>

Arrived(i, kind) ==
    OldestOfKind(i) /\ net[i].served /\ net[i].kind = kind

\* Mutant: a page that shows the list does not take a newer one.
ListLoadedOnce(i) ==
    /\ Arrived(i, "list")
    /\ listed' = IF listed = 0 THEN net[i].group ELSE listed
    /\ net' = RemoveAt(net, i)
    /\ UNCHANGED <<nav, pageVars, groups, taps, offered, asked, regime>>

ListLoaded(i) ==
    /\ Arrived(i, "list")
    /\ listed' = net[i].group
    /\ net' = RemoveAt(net, i)
    /\ UNCHANGED <<nav, pageVars, groups, taps, offered, asked, regime>>

\* Mutant: nobody is invited to a group that was created for nobody.
CreateAnsweredQuietly(i) ==
    /\ Arrived(i, "create")
    /\ net' = IF IsOpen(net[i].visit) /\ picked # {}
              THEN ReplaceAt(net, i,
                             Request("invite", Empty, picked, net[i].group))
              ELSE RemoveAt(net, i)
    /\ UNCHANGED <<nav, pageVars, groups, listed, taps, offered, asked, regime>>

\* The friends on the page at this moment are invited.
CreateAnswered(i) ==
    /\ Arrived(i, "create")
    /\ net' = IF IsOpen(net[i].visit)
              THEN Append(RemoveAt(net, i),
                          Request("invite", Empty, picked, net[i].group))
              ELSE RemoveAt(net, i)
    /\ UNCHANGED <<nav, pageVars, groups, listed, taps, offered, asked, regime>>

\* Mutant: the page stays.
InviteAnsweredStays(i) ==
    /\ Arrived(i, "invite")
    /\ net' = RemoveAt(net, i)
    /\ UNCHANGED <<nav, pageVars, groups, listed, taps, offered, asked, regime>>

\* moveGroupList pops the top page, whichever it is.
InviteAnswered(i) ==
    /\ Arrived(i, "invite")
    /\ IF IsOpen(net[i].visit)
       THEN /\ nav' = Front(nav)
            /\ net' = IF Top = "create"
                      THEN Append(RemoveAt(net, i), ListRequest)
                      ELSE RemoveAt(net, i)
       ELSE /\ net' = RemoveAt(net, i)
            /\ UNCHANGED nav
    /\ UNCHANGED <<pageVars, groups, listed, taps, offered, asked, regime>>

\* No answer, before or after the service acted: a toast, or nothing.
Failed(i) ==
    /\ ~regime.lossless
    /\ net' = RemoveAt(net, i)
    /\ UNCHANGED <<nav, pageVars, groups, listed, taps, offered, asked, regime>>

Answers ==
    \E i \in 1..Len(net) :
        \/ Serve(i) \/ ListLoaded(i) \/ CreateAnswered(i) \/ InviteAnswered(i)
        \/ Failed(i)

Next ==
    \/ OpenCreate
    \/ \E t \in Titles : Edit(t)
    \/ Throttled
    \/ TapCreate
    \/ TapAddFriend
    \/ \E chosen \in SUBSET Friends : PickFriends(chosen)
    \/ Back
    \/ Answers

Spec == Init /\ [][Next]_vars

\* Alamofire answers or times out every request, in no particular order.
FairSpec == Spec /\ WF_vars(Answers)

-----------------------------------------------------------------------------
(* Properties                                                              *)

\* A user who has finished typing when he taps asks for at most a group per tap,
\* although combineLatest fires for a text as well as for a tap: one who types on
\* creates a group with every text, without tapping again.
OneGroupPerTap == (regime.patient /\ ~regime.retypes) => Len(asked) <= taps

\* A user who waits and does not type on gets one group from a visit of the
\* page: the page is gone before the button can be tapped again.
OneGroupPerVisit ==
    (regime.patient /\ ~regime.retypes /\ regime.lossless) =>
        \A j, k \in 1..Len(groups) : groups[j].visit = groups[k].visit => j = k

\* Once nothing is in flight the list holds all groups, however the reloads of
\* viewDidLoad, viewWillAppear and the pop overlap, if answers come in order.
SettledListShowsAll ==
    ( /\ regime.patient /\ ~regime.retypes
      /\ regime.inOrder /\ regime.lossless
      /\ net = <<>> /\ Top = "groups" ) => listed = Len(groups)

\* For a user who waits, the page that asks is the one on top: the pop that
\* follows the invitation, which hits any page, closes the create page.
AskingPageOnTop ==
    (regime.patient /\ ~regime.retypes /\ IsOpen(visit) /\ Asking) => Top = "create"

\* A group never receives the friends picked for another one, although the
\* friends are read when the answer arrives and the page may be gone by then.
OwnFriendsInvited ==
    \A k \in 1..Len(groups) :
        groups[k].invited \subseteq offered[groups[k].visit]

\* Creating ends: the chain of answers closes the page, for a user who waits.
CreatingClosesPage ==
    \A v \in 1..MaxVisits :
        (regime.patient /\ regime.lossless /\ IsOpen(v) /\ Asking)
            ~> ~IsOpen(v)
=============================================================================
