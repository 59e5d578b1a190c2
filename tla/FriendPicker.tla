---------------------------- MODULE FriendPicker ----------------------------
(***************************************************************************)
(* One opening of a page with a search bar over a table of people.  On the *)
(* "friends" pages (FriendSearch, FriendsList for a plan) the list of all  *)
(* friends is loaded once and filtered on the phone; on the "strangers"    *)
(* page (MakeNewFriends) every text is searched for on the service.  A tap *)
(* chooses a row or takes it back; the add button hands the choice over.   *)
(***************************************************************************)
EXTENDS Naturals, SequencesExt

CONSTANTS
    People,    \* everybody who can be listed
    Friends,   \* those who already are friends
    Words,     \* the texts of the search bar
    EmptyWord, \* ""
    NoWord,    \* before any text has passed the debounce
    Named,     \* [Words -> SUBSET People]: whose nickname begins with the text
    MaxEdits   \* bound on the changes of the text

ASSUME PickerConstants ==
    /\ Friends \subseteq People
    /\ EmptyWord \in Words
    /\ NoWord \notin Words
    /\ Named \in [Words -> SUBSET People]
    /\ Named[EmptyWord] = People
    /\ MaxEdits \in Nat

VARIABLES
    regime,    \* the page, and whether its requests may fail
    open,      \* the page is on the stack
    field,     \* the text in the bar
    edits,     \* changes of the text so far
    pending,   \* the debounce timer runs
    word,      \* the text that last passed debounce and distinctUntilChanged
    loading,   \* getAllFriends is not answered
    friendList,
    searches,  \* searchNotFriends not answered; flatMapLatest hears one
    searching, \* no error has ended the stream of searches
    queued,    \* found rows waiting for MainScheduler.asyncInstance
    rows,      \* filteringFriendListRelay
    selected,  \* selectedFriendRelay
    dirty,     \* the table reloads at its next layout
    checked,   \* the rows drawn with a checkmark
    handed     \* the choices handed over

barVars == <<field, edits, pending, word>>
listVars == <<loading, friendList, searches, searching, queued>>
tableVars == <<rows, dirty, checked>>
choiceVars == <<selected, handed, open>>
vars == <<regime, barVars, listVars, tableVars, choiceVars>>

Regimes == [page : {"friends", "strangers"}, failing : BOOLEAN]
OfFriends == regime.page = "friends"
Searches == [word : Words, heard : BOOLEAN]

TypeOK ==
    /\ regime \in Regimes
    /\ open \in BOOLEAN
    /\ field \in Words
    /\ edits \in 0..MaxEdits
    /\ pending \in BOOLEAN
    /\ word \in Words \cup {NoWord}
    /\ loading \in BOOLEAN
    /\ friendList \in SUBSET People
    /\ searches \in SUBSET Searches
    /\ searching \in BOOLEAN
    /\ queued \in Seq(SUBSET People)
    /\ rows \in SUBSET People
    /\ selected \in Seq(People) /\ IsInjective(selected)
    /\ dirty \in BOOLEAN
    /\ checked \in SUBSET People
    /\ handed \in SUBSET (SUBSET People)

-----------------------------------------------------------------------------
\* The bar emits its empty text when it is bound, and the debounce delays it.
Init ==
    /\ regime \in Regimes
    /\ open = TRUE
    /\ field = EmptyWord
    /\ edits = 0
    /\ pending = TRUE
    /\ word = NoWord
    /\ loading = OfFriends
    /\ friendList = {}
    /\ searches = {}
    /\ searching = TRUE
    /\ queued = <<>>
    /\ rows = {}
    /\ selected = <<>>
    /\ dirty = FALSE
    /\ checked = {}
    /\ handed = {}

Type(w) ==
    /\ open
    /\ edits < MaxEdits
    /\ w # field
    /\ field' = w
    /\ edits' = edits + 1
    /\ pending' = TRUE
    /\ UNCHANGED <<regime, word, listVars, tableVars, choiceVars>>

Show(people) == rows' = people /\ dirty' = TRUE /\ UNCHANGED checked

\* A friends page filters what is loaded, now and whenever it changes.
Filter(w) == Show(friendList \cap Named[w]) /\ UNCHANGED listVars

\* Mutant: the answers to earlier texts are still heard (flatMap).
SearchAlso(w) ==
    /\ IF w = EmptyWord
       THEN queued' = Append(queued, {}) /\ UNCHANGED searches
       ELSE /\ searches' = searches \cup {[word |-> w, heard |-> TRUE]}
            /\ UNCHANGED queued
    /\ UNCHANGED <<loading, friendList, searching, tableVars>>

\* Mutant: an empty text emits nothing (Observable.empty).
SearchTextOnly(w) ==
    /\ searches' = {[s EXCEPT !.heard = FALSE] : s \in searches}
           \cup (IF w = EmptyWord THEN {} ELSE {[word |-> w, heard |-> TRUE]})
    /\ UNCHANGED <<loading, friendList, searching, queued, tableVars>>

\* flatMapLatest: only the answer to the last text is heard.  The empty text
\* finds nobody without a request.
Search(w) ==
    /\ searches' = {[s EXCEPT !.heard = FALSE] : s \in searches}
           \cup (IF w = EmptyWord THEN {} ELSE {[word |-> w, heard |-> TRUE]})
    /\ queued' = IF w = EmptyWord THEN Append(queued, {}) ELSE queued
    /\ UNCHANGED <<loading, friendList, searching, tableVars>>

\* The text has rested for 300 ms; a text equal to the last one is dropped.
Settle ==
    /\ open /\ pending /\ searching
    /\ pending' = FALSE
    /\ word' = field
    /\ IF field = word THEN UNCHANGED <<listVars, tableVars>>
       ELSE IF OfFriends THEN Filter(field) ELSE Search(field)
    /\ UNCHANGED <<regime, field, edits, choiceVars>>

\* Mutant: the filter reads the relay's value once and does not follow it.
ListArrivesUnfollowed ==
    /\ open /\ loading
    /\ loading' = FALSE
    /\ friendList' = Friends
    /\ UNCHANGED <<regime, searches, searching, queued, tableVars, barVars,
                   choiceVars>>

ListArrives ==
    /\ open /\ loading
    /\ loading' = FALSE
    /\ friendList' = Friends
    /\ IF word = NoWord THEN UNCHANGED tableVars
                        ELSE Show(Friends \cap Named[word])
    /\ UNCHANGED <<regime, searches, searching, queued, barVars, choiceVars>>

\* An error of the list is printed: the page stays as it is.
ListFails ==
    /\ open /\ loading /\ regime.failing
    /\ loading' = FALSE
    /\ UNCHANGED <<regime, friendList, searches, searching, queued, barVars,
                   tableVars, choiceVars>>

\* An answer waits for the scheduler.
Answer(s) ==
    /\ open
    /\ searches' = searches \ {s}
    /\ queued' = IF s.heard THEN Append(queued, Named[s.word] \ Friends)
                            ELSE queued
    /\ UNCHANGED <<regime, loading, friendList, searching, barVars, tableVars,
                   choiceVars>>

\* An error goes through to bind(to:), and no later text is searched for.
SearchFails(s) ==
    /\ open /\ regime.failing
    /\ searches' = searches \ {s}
    /\ searching' = (searching /\ ~s.heard)
    /\ UNCHANGED <<regime, loading, friendList, queued, barVars, tableVars,
                   choiceVars>>

Deliver ==
    /\ open /\ queued # <<>>
    /\ Show(Head(queued))
    /\ queued' = Tail(queued)
    /\ UNCHANGED <<regime, loading, friendList, searches, searching, barVars,
                   choiceVars>>

\* Layout asks for the cells of a reloaded table.
Draw ==
    /\ open /\ dirty
    /\ dirty' = FALSE
    /\ checked' = rows \cap ToSet(selected)
    /\ UNCHANGED <<regime, rows, barVars, listVars, choiceVars>>

firstIndex(p) ==
    CHOOSE i \in 1..Len(selected) :
        selected[i] = p /\ \A j \in 1..(i - 1) : selected[j] # p

Toggled(p) ==
    IF p \in ToSet(selected) THEN RemoveAt(selected, firstIndex(p))
                             ELSE Append(selected, p)

\* Mutant: the rows are not sent to the table again.
TapWithoutReload(p) ==
    /\ open /\ ~dirty
    /\ p \in rows
    /\ selected' = Toggled(p)
    /\ UNCHANGED <<regime, handed, open, barVars, listVars, tableVars>>

\* A tap lands on a table that has been laid out.  The rows are sent to the
\* table before the choice changes, and drawn after.
Tap(p) ==
    /\ open /\ ~dirty
    /\ p \in rows
    /\ selected' = Toggled(p)
    /\ Show(rows)
    /\ UNCHANGED <<regime, handed, open, barVars, listVars>>

\* Mutant: only the chosen people still on the screen are handed over.
AddShown ==
    /\ open
    /\ handed' = {ToSet(selected) \cap rows}
    /\ open' = FALSE
    /\ UNCHANGED <<regime, selected, barVars, listVars, tableVars>>

\* The choice goes to the page below; on the strangers page, as friend
\* requests, one for each of them.
HandOver == handed' = {ToSet(selected)}

\* The add button; the page is popped either way.
Add ==
    /\ open
    /\ HandOver
    /\ open' = FALSE
    /\ UNCHANGED <<regime, selected, barVars, listVars, tableVars>>

Leave ==
    /\ open
    /\ open' = FALSE
    /\ UNCHANGED <<regime, selected, handed, barVars, listVars, tableVars>>

Answers == \E s \in searches : Answer(s) \/ SearchFails(s)

Next ==
    \/ \E w \in Words : Type(w)
    \/ Settle
    \/ ListArrives \/ ListFails
    \/ Answers
    \/ Deliver \/ Draw
    \/ \E p \in People : Tap(p)
    \/ Add \/ Leave

Spec == Init /\ [][Next]_vars

\* Timers fire, requests are answered or time out, the main queue and the
\* layout are served.  The user owes nothing.
FairSpec ==
    /\ Spec
    /\ WF_vars(Settle)
    /\ WF_vars(ListArrives \/ ListFails)
    /\ \A w \in Words, heard \in BOOLEAN :
          WF_vars(LET s == [word |-> w, heard |-> heard]
                  IN  s \in searches /\ (Answer(s) \/ SearchFails(s)))
    /\ WF_vars(Deliver)
    /\ WF_vars(Draw)

-----------------------------------------------------------------------------
(* Properties                                                              *)

\* Who the page should list for a text.
Expected(w) ==
    IF OfFriends THEN friendList \cap Named[w]
    ELSE IF w = EmptyWord THEN {} ELSE Named[w] \ Friends

\* No tap on a person is lost or counted twice, whatever is typed, loaded or
\* searched in between, and the add button hands over just those chosen
\* (the tap handlers and moveCreateFriend).
Choice == INSTANCE Selection WITH chosen <- ToSet(selected)
ImplementsSelection == Choice!Spec

\* A drawn table marks exactly the chosen people it shows, though the handlers
\* reload it before they change the choice.
ChecksMatch == ~dirty => checked = rows \cap ToSet(selected)

\* When no timer, request or delivery is open, the rows are those of the text
\* in the bar, in whatever order list, answers and texts came.
RowsMatchBar ==
    /\ searching /\ ~pending /\ queued = <<>>
    /\ \A s \in searches : ~s.heard
    => rows = Expected(field)

\* Without failures the people of a text left alone end up on the screen.
TextIsAnswered ==
    \A w \in Words :
        (open /\ ~regime.failing /\ field = w) ~>
            ~open \/ field # w \/ (~loading /\ ~dirty /\ rows = Expected(w))
=============================================================================
