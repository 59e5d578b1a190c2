----------------------------- MODULE SignUpForm -----------------------------
(***************************************************************************)
(* The sign-up page: a text field, the relay that holds the nickname to be *)
(* sent, the requests a tap of the done button or the return key starts,   *)
(* and the alerts that report what became of them.                         *)
(*                                                                         *)
(* Field and relay are bound both ways, and the field a second time to      *)
(* itself to keep spaces out.  An event of the field runs the two bindings  *)
(* in the order in which they were made, and each reads the field anew.     *)
(***************************************************************************)
EXTENDS Naturals, Sequences, SequencesExt

CONSTANTS
    Chars,      \* the characters a keyboard has
    Space,      \* the one the page keeps out
    Mark,       \* one that ends a path in an URL, like "?"
    MinLength,  \* of a nickname, in characters
    MaxLength,
    Slots       \* room for requests in flight (a bound)

ASSUME FormConstants ==
    /\ {Space, Mark} \subseteq Chars
    /\ MinLength \in Nat \ {0} /\ MaxLength \in Nat /\ MinLength <= MaxLength

VARIABLES
    field,  \* the text the page shows, which is also the state of the scan: the
            \* last text without a space
    relay,  \* nickNameFilteringRelay: the nickname that will be sent
    alert,  \* the alert over the page
    open,   \* the page is on the screen
    net     \* requests in flight

vars == <<field, relay, alert, open, net>>

\* What a user can enter in one event; longer texts end like these.
Texts == BoundedSeq(Chars, MaxLength + 1)
Names == BoundedSeq(Chars, MaxLength)

\* A request has the nickname sent, whether the page showed it at the tap, and
\* the nickname the service has found free.
Requests == [kind : {"overlap", "signUp"},
             status : {"sent", "free", "taken", "OK", "FAIL"},
             name : Names, shown : BOOLEAN, free : Names]
Idle == [kind |-> "idle"]

TypeOK ==
    /\ field \in Names /\ relay \in Names
    /\ alert \in {"none", "failed", "duplicate"}
    /\ open \in BOOLEAN
    /\ net \in [Slots -> Requests \cup {Idle}]

Has(text, char) == \E i \in 1..Len(text) : text[i] = char

-----------------------------------------------------------------------------
Init ==
    /\ field = <<>> /\ relay = <<>>
    /\ alert = "none"
    /\ open = TRUE
    /\ net = [s \in Slots |-> Idle]

Touchable == open /\ alert = "none"

\* dropLast(count - maxLength)
Cut(text) == IF Len(text) <= MaxLength THEN text ELSE SubSeq(text, 1, MaxLength)

\* Mutants: the relay does not drive the field; the scan lets spaces pass.
EditUndriven(text) ==
    /\ relay' = Cut(text)
    /\ field' = IF Has(text, Space) THEN field ELSE text

EditUnscanned(text) ==
    /\ relay' = Cut(text)
    /\ field' = relay'

\* An event of the field, which holds this text: the view model cuts it for the
\* relay, which drives the field; the scan then reads the field and puts the
\* last text without a space back, of which the relay hears nothing.
Edit(text) ==
    /\ relay' = Cut(text)
    /\ field' = IF Has(relay', Space) THEN field ELSE relay'

\* The user types, deletes or pastes.
Type ==
    /\ Touchable
    /\ \E text \in Texts : Edit(text)
    /\ UNCHANGED <<alert, open, net>>

\* The user touches the page outside the field, which ends the editing: an event
\* of the field as well.
EndEditing ==
    /\ Touchable
    /\ Edit(field)
    /\ UNCHANGED <<alert, open, net>>

\* present, which does nothing while an alert is open or the page is not.
Presented(shown, title) == IF shown = "none" /\ open THEN title ELSE shown

\* checkOverlapId
AskOverlap ==
    \E s \in Slots :
        /\ net[s] = Idle
        /\ net' = [net EXCEPT ![s] =
                     [kind |-> "overlap", status |-> "sent", name |-> relay,
                      shown |-> relay = field, free |-> <<>>]]

\* Mutant: a text of any length is sent.
TapDoneShort ==
    /\ Touchable
    /\ AskOverlap
    /\ UNCHANGED <<field, relay, alert, open>>

\* The done button or the return key, neither of which is ever disabled.
TapDone ==
    /\ Touchable
    /\ \/ Len(relay) >= MinLength /\ AskOverlap /\ UNCHANGED alert
       \/ /\ Len(relay) < MinLength
          /\ alert' = Presented(alert, "failed")
          /\ UNCHANGED net
    /\ UNCHANGED <<field, relay, open>>

CloseAlert ==
    /\ alert # "none"
    /\ alert' = "none"
    /\ UNCHANGED <<field, relay, open, net>>

\* The back button of the navigation bar.
Back ==
    /\ Touchable
    /\ open' = FALSE
    /\ UNCHANGED <<field, relay, alert, net>>

-----------------------------------------------------------------------------
\* The name the service is asked about: it is put into the path as it is.
Asked(name) ==
    IF Has(name, Mark)
    THEN SubSeq(name, 1, SelectInSeq(name, LAMBDA c : c = Mark) - 1)
    ELSE name

\* The service answers, or the request fails (external).
Serve(s) ==
    /\ net[s] # Idle /\ net[s].status = "sent"
    /\ \/ /\ net[s].kind = "overlap"
          /\ net' = [net EXCEPT ![s].status = "free", ![s].free = Asked(net[s].name)]
       \/ net[s].kind = "overlap" /\ net' = [net EXCEPT ![s].status = "taken"]
       \/ net[s].kind = "signUp" /\ net' = [net EXCEPT ![s].status = "OK"]
       \/ net' = [net EXCEPT ![s].status = "FAIL"]
    /\ UNCHANGED <<field, relay, alert, open>>

\* Mutant: the relay is read again.
NameFreeReread(s) ==
    /\ net[s] # Idle /\ net[s].status = "free"
    /\ net' = [net EXCEPT ![s].kind = "signUp", ![s].status = "sent", ![s].name = relay]
    /\ UNCHANGED <<field, relay, alert, open>>

\* signUp, with the name that was asked about.
NameFree(s) ==
    /\ net[s] # Idle /\ net[s].status = "free"
    /\ net' = [net EXCEPT ![s].kind = "signUp", ![s].status = "sent"]
    /\ UNCHANGED <<field, relay, alert, open>>

\* overlapNickNameSubject has two observers: the view model's, made first,
\* reports a failure; the page's reports the duplicate, and comes too late.
NameTaken(s) ==
    /\ net[s] # Idle /\ net[s].status = "taken"
    /\ net' = [net EXCEPT ![s] = Idle]
    /\ alert' = Presented(Presented(alert, "failed"), "duplicate")
    /\ UNCHANGED <<field, relay, open>>

\* Mutant: errors are printed only.
FailedSilently(s) ==
    /\ net[s] # Idle /\ net[s].status = "FAIL"
    /\ net' = [net EXCEPT ![s] = Idle]
    /\ UNCHANGED <<field, relay, alert, open>>

Failed(s) ==
    /\ net[s] # Idle /\ net[s].status = "FAIL"
    /\ net' = [net EXCEPT ![s] = Idle]
    /\ alert' = Presented(alert, "failed")
    /\ UNCHANGED <<field, relay, open>>

\* The tab bar takes the place of the page, and of an alert over it.
SignedUp(s) ==
    /\ net[s] # Idle /\ net[s].status = "OK"
    /\ net' = [net EXCEPT ![s] = Idle]
    /\ open' = FALSE
    /\ alert' = "none"
    /\ UNCHANGED <<field, relay>>

Answers(s) == Serve(s) \/ NameFree(s) \/ NameTaken(s) \/ Failed(s) \/ SignedUp(s)

Next ==
    \/ Type
    \/ EndEditing
    \/ TapDone
    \/ CloseAlert
    \/ Back
    \/ \E s \in Slots : Answers(s)

Spec == Init /\ [][Next]_vars

\* Alamofire answers or times out every request.
FairSpec == Spec /\ \A s \in Slots : WF_vars(Answers(s))

-----------------------------------------------------------------------------
(* Properties                                                              *)

\* Whatever is typed or pasted, the field shows neither a space nor more than
\* MaxLength characters, as the label under it demands, although three bindings
\* write it.
FieldObeysLabel == ~Has(field, Space) /\ Len(field) <= MaxLength

\* The nickname sent is the one the page showed at the tap, unless a space has
\* just been refused: then it is still in the relay, counts for the minimum
\* length and is sent.
SendsTextShown ==
    \A s \in Slots :
        net[s] # Idle =>
            /\ net[s].shown \/ Has(net[s].name, Space)
            /\ Len(net[s].name) >= MinLength

\* A nickname is signed up only after the service has answered that it is free,
\* however the text has been changed since the tap; of a nickname with a mark,
\* which nothing keeps out, a part was asked about.
SignsUpFreeName ==
    \A s \in Slots :
        (net[s] # Idle /\ net[s].kind = "signUp") =>
            net[s].name = net[s].free \/ Has(net[s].name, Mark)

\* A tap on a page that stays open ends in the tab bar or in an alert.
TapIsAnswered == \A s \in Slots : net[s] # Idle ~> (~open \/ alert # "none")

\* The page has an alert for a nickname that is taken, "it is a duplicate".
DuplicateIsTold ==
    [][\A s \in Slots : (open /\ alert = "none" /\ NameTaken(s)) => alert' = "duplicate"]_vars
=============================================================================
