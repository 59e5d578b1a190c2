------------------------------- MODULE TabBar -------------------------------
(***************************************************************************)
(* The app around the home tab: the session that opens and ends it, and    *)
(* the notifications of invitations, whose tap shows an alert over it.     *)
(*                                                                         *)
(* AppDelegate posts every tapped notification as "showPage"; the only      *)
(* observer is TabBarController, which exists while somebody is logged in.  *)
(***************************************************************************)
EXTENDS HomeTab

CONSTANTS
    Invites,  \* invitations that may arrive as notifications
    Subject   \* [Invites -> Subjects]: what each invites to

Subjects == {"friend", "plan", "group"}

ASSUME TabBarConstants == Subject \in [Invites -> Subjects] /\ Unset \notin Invites

VARIABLES
    running, \* the process is alive
    tray,    \* invitations in the notification centre, not tapped yet
    alert,   \* the invitation whose alert is open, or Unset
    agreed,  \* invitations the user has agreed to, without those whose request
             \* was lost with the process
    joins,   \* requests to join in flight
    joined   \* requests the service has carried out

inviteVars == <<tray, alert, agreed, joins, joined>>
allVars == <<vars, running, inviteVars>>

App == INSTANCE Session WITH tabBars <- IF nav = <<>> THEN 0 ELSE 1

Joins == [to : Subjects, id : Invites]

TabBarTypeOK ==
    /\ TypeOK
    /\ running \in BOOLEAN
    /\ tray \subseteq Invites
    /\ alert \in Invites \cup {Unset}
    /\ agreed \subseteq Invites
    /\ joins \subseteq Joins
    /\ joined \subseteq Joins

TabBarInit ==
    /\ Init
    /\ running = FALSE
    /\ tray \in SUBSET Invites /\ Cardinality(tray) <= regime.invites
    /\ alert = Unset
    /\ agreed = {}
    /\ joins = {} /\ joined = {}

-----------------------------------------------------------------------------
(* The session                                                             *)

LaunchApp ==
    /\ UNCHANGED vars
    /\ App!Launch
    /\ UNCHANGED inviteVars

Login == Start /\ App!Enter /\ UNCHANGED inviteVars

\* A request to join that was sent may still be carried out.
KillApp ==
    /\ Kill
    /\ App!Kill
    /\ alert' = Unset
    /\ joins' = {}
    /\ \E served \in SUBSET joins :
        /\ joined' = joined \cup served
        /\ agreed' = agreed \ {r.id : r \in joins \ served}
    /\ UNCHANGED tray

-----------------------------------------------------------------------------
(* The home tab                                                            *)

Taps ==
    \/ \E g \in Groups : SelectGroup(g)
    \/ \E p \in Places : SelectPlace(p)
    \/ moveSearch
    \/ moveToPlans
    \/ OpenPlan
    \/ Back
    \/ OpenDialog
    \/ CloseDialog
    \/ \E s \in Slots : Confirm(s)

\* The alert of an invitation covers the pages; answers and notifications
\* reach them all the same.
HomeStep ==
    /\ \/ alert = Unset /\ Taps
       \/ \E s \in Slots : Answers(s)
       \/ PlaceChanged
    /\ UNCHANGED <<running, inviteVars>>

-----------------------------------------------------------------------------
(* Invitations                                                             *)

\* Mutant: an alert that is open gives way to the one that comes.
TapInvitationReplacing(n) ==
    /\ n \in tray
    /\ tray' = tray \ {n}
    /\ running' = TRUE
    /\ alert' = IF nav # <<>> /\ dialog = 0 THEN n ELSE alert
    /\ UNCHANGED <<vars, agreed, joins, joined>>

\* The tap of a notification removes it, and launches the app if need be.
\* Nobody observes it before the login; UIKit does not present an alert over
\* another one.
TapInvitation(n) ==
    /\ n \in tray
    /\ tray' = tray \ {n}
    /\ running' = TRUE
    /\ alert' = IF nav # <<>> /\ dialog = 0 /\ alert = Unset THEN n ELSE alert
    /\ UNCHANGED <<vars, agreed, joins, joined>>

\* Mutants: every invitation is taken for one to a group; the request is made
\* and not subscribed to.
AcceptAsGroup ==
    /\ alert # Unset
    /\ alert' = Unset
    /\ agreed' = agreed \cup {alert}
    /\ joins' = joins \cup {[to |-> "group", id |-> alert]}
    /\ UNCHANGED <<vars, running, tray, joined>>

AcceptUnsent ==
    /\ alert # Unset
    /\ alert' = Unset
    /\ agreed' = agreed \cup {alert}
    /\ UNCHANGED <<vars, running, tray, joins, joined>>

\* The type of the notification selects the service: statusFriend,
\* joinPlanService or joinGroup.
Accept ==
    /\ alert # Unset
    /\ alert' = Unset
    /\ agreed' = agreed \cup {alert}
    /\ joins' = joins \cup {[to |-> Subject[alert], id |-> alert]}
    /\ UNCHANGED <<vars, running, tray, joined>>

\* Nothing is sent.
Decline ==
    /\ alert # Unset
    /\ alert' = Unset
    /\ UNCHANGED <<vars, running, tray, agreed, joins, joined>>

\* The service carries out a request (external); the answer is only printed.
JoinServed(r) ==
    /\ r \in joins
    /\ joins' = joins \ {r}
    /\ joined' = joined \cup {r}
    /\ UNCHANGED <<vars, running, tray, alert, agreed>>

\* A failure, printed as well: nobody tells the user, nothing is tried again.
JoinFailed(r) ==
    /\ ~regime.lossless
    /\ r \in joins
    /\ joins' = joins \ {r}
    /\ UNCHANGED <<vars, running, tray, alert, agreed, joined>>

JoinAnswered(r) == JoinServed(r) \/ JoinFailed(r)

TabBarNext ==
    \/ LaunchApp
    \/ Login
    \/ KillApp
    \/ HomeStep
    \/ \E n \in Invites : TapInvitation(n)
    \/ Accept
    \/ Decline
    \/ \E r \in Joins : JoinAnswered(r)

TabBarSpec == TabBarInit /\ [][TabBarNext]_allVars

\* The requests of the plan page and those of the alert are answered or time out.
AnswerStep(s) == Answers(s) /\ UNCHANGED <<running, inviteVars>>

FairTabBarSpec ==
    /\ TabBarSpec
    /\ \A s \in Slots : WF_allVars(AnswerStep(s))
    /\ \A n \in Invites : WF_allVars(JoinAnswered([to |-> Subject[n], id |-> n]))

-----------------------------------------------------------------------------
(* Properties                                                              *)

\* The service joins the user to what he agreed to and to nothing else, as
\* what he was invited to: the type is parsed from a text and told apart once
\* for the alert and once more for the request.
JoinsAgreed ==
    \A r \in joins \cup joined : r.id \in agreed /\ r.to = Subject[r.id]

\* The question on the screen stands until it is answered or the app is
\* killed, whatever arrives: neither a second invitation nor a notification
\* that pushes pages nor a saved plan that replaces them takes it away.
QuestionStands ==
    [][alert # Unset /\ alert' # alert =>
          alert' = Unset /\ (UNCHANGED nav \/ ~running')]_allVars

\* An invitation agreed to is carried out, on a network that loses nothing and
\* unless the app is killed first.
AgreedIsJoined ==
    \A n \in Invites :
        (regime.lossless /\ n \in agreed)
            ~> (n \notin agreed \/ [to |-> Subject[n], id |-> n] \in joined)
=============================================================================
