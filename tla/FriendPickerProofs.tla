------------------------- MODULE FriendPickerProofs -------------------------
(***************************************************************************)
(* Proofs about FriendPicker for every value of its constants.             *)
(***************************************************************************)
EXTENDS FriendPicker, SequenceTheorems, TLAPS

(* The place found for a chosen person holds that person. *)
LEMMA FirstIndex ==
    ASSUME TypeOK, NEW p \in ToSet(selected)
    PROVE  /\ firstIndex(p) \in 1..Len(selected)
           /\ selected[firstIndex(p)] = p
<1>1. PICK i \in 1..Len(selected) : selected[i] = p
  BY DEF ToSet, TypeOK
<1>2. \A j \in 1..(i - 1) : selected[j] # p
  <2> SUFFICES ASSUME NEW j \in 1..(i - 1), selected[j] = p PROVE FALSE
    OBVIOUS
  <2>1. j \in DOMAIN selected /\ i \in DOMAIN selected /\ i # j
    BY <1>1 DEF TypeOK
  <2> QED
    BY <1>1, <2>1 DEF TypeOK, IsInjective
<1> QED
  BY <1>1, <1>2 DEF firstIndex

(* Removing one place of an injective sequence takes out just its element, *)
(* and the rest stays injective.                                           *)
LEMMA RemovedAt ==
    ASSUME NEW S, NEW s \in Seq(S), IsInjective(s), NEW i \in 1..Len(s)
    PROVE  /\ RemoveAt(s, i) \in Seq(S)
           /\ IsInjective(RemoveAt(s, i))
           /\ ToSet(RemoveAt(s, i)) = ToSet(s) \ {s[i]}
<1> DEFINE r == RemoveAt(s, i)
           From(j) == IF j < i THEN j ELSE j + 1
<1>1. Len(s) \in Nat /\ i \in Nat /\ i >= 1 /\ i <= Len(s)
  OBVIOUS
<1> DEFINE front == SubSeq(s, 1, i - 1)
           back == SubSeq(s, i + 1, Len(s))
<1>2. /\ front \in Seq(S) /\ Len(front) = i - 1
      /\ \A j \in 1..(i - 1) : front[j] = s[j]
  BY <1>1
<1>3. /\ back \in Seq(S) /\ Len(back) = Len(s) - i
      /\ \A j \in 1..(Len(s) - i) : back[j] = s[i + j]
  BY <1>1
<1>3a. r = front \o back
  BY DEF RemoveAt
<1> HIDE DEF r, front, back
<1>4. r \in Seq(S) /\ Len(r) = Len(s) - 1
  BY <1>1, <1>2, <1>3, <1>3a
<1>5. \A j \in 1..Len(r) : r[j] = s[From(j)]
  <2> SUFFICES ASSUME NEW j \in 1..Len(r) PROVE r[j] = s[From(j)]
    OBVIOUS
  <2>1. CASE j < i
    <3>1. j \in 1..Len(front) /\ r[j] = front[j]
      BY <1>1, <1>2, <1>3, <1>4, <1>3a, <2>1
    <3> QED
      BY <1>2, <2>1, <3>1
  <2>2. CASE j >= i
    <3>1. j - (i - 1) \in 1..(Len(s) - i) /\ i + (j - (i - 1)) = j + 1
      BY <1>1, <1>4, <2>2
    <3>2. r[j] = back[j - (i - 1)]
      BY <1>1, <1>2, <1>3, <1>4, <1>3a, <2>2
    <3>3. back[j - (i - 1)] = s[j + 1]
      BY <1>3, <3>1
    <3> QED
      BY <1>1, <2>2, <3>2, <3>3
  <2> QED
    BY <1>1, <1>4, <2>1, <2>2
<1>6. \A j \in 1..Len(r) : From(j) \in 1..Len(s) /\ From(j) # i
  BY <1>1, <1>4
<1>7. \A j, k \in 1..Len(r) : From(j) = From(k) => j = k
  BY <1>1, <1>4
<1>8. IsInjective(r)
  <2> SUFFICES ASSUME NEW j \in 1..Len(r), NEW k \in 1..Len(r), r[j] = r[k]
               PROVE  j = k
    BY <1>4 DEF IsInjective
  <2>1. From(j) = From(k)
    BY <1>5, <1>6 DEF IsInjective
  <2> QED
    BY <1>7, <2>1
<1>9. ToSet(r) = ToSet(s) \ {s[i]}
  <2>1. ASSUME NEW x \in ToSet(r) PROVE x \in ToSet(s) /\ x # s[i]
    <3>1. PICK j \in 1..Len(r) : x = r[j]
      BY <1>4 DEF ToSet
    <3>2. x = s[From(j)] /\ From(j) \in 1..Len(s) /\ From(j) # i
      BY <1>5, <1>6, <3>1
    <3> QED
      BY <3>2 DEF ToSet, IsInjective
  <2>2. ASSUME NEW x \in ToSet(s), x # s[i] PROVE x \in ToSet(r)
    <3>1. PICK k \in 1..Len(s) : x = s[k] /\ k # i
      BY <2>2 DEF ToSet
    <3> DEFINE j == IF k < i THEN k ELSE k - 1
    <3>2. j \in 1..Len(r) /\ From(j) = k
      BY <1>1, <1>4, <3>1
    <3>3. x = r[j]
      BY <1>5, <3>1, <3>2
    <3> HIDE DEF j
    <3>4. j \in DOMAIN r
      BY <1>4, <3>2
    <3> QED
      BY <3>3, <3>4 DEF ToSet
  <2> QED
    BY <2>1, <2>2
<1> QED
  BY <1>4, <1>8, <1>9 DEF r

(* Appending somebody new. *)
LEMMA AppendedTo ==
    ASSUME NEW S, NEW s \in Seq(S), IsInjective(s), NEW p \in S \ ToSet(s)
    PROVE  /\ Append(s, p) \in Seq(S)
           /\ IsInjective(Append(s, p))
           /\ ToSet(Append(s, p)) = ToSet(s) \cup {p}
<1> DEFINE r == Append(s, p)
<1>1. /\ r \in Seq(S) /\ Len(r) = Len(s) + 1 /\ r[Len(s) + 1] = p
      /\ \A j \in 1..Len(s) : r[j] = s[j] /\ s[j] # p
      /\ DOMAIN r = 1..(Len(s) + 1) /\ DOMAIN s = 1..Len(s) /\ Len(s) \in Nat
  BY DEF ToSet
<1>2. IsInjective(r)
  <2> SUFFICES ASSUME NEW j \in 1..(Len(s) + 1), NEW k \in 1..(Len(s) + 1),
                      r[j] = r[k]
               PROVE  j = k
    BY <1>1 DEF IsInjective
  <2>1. CASE j \in 1..Len(s) /\ k \in 1..Len(s)
    BY <1>1, <2>1 DEF IsInjective
  <2>2. CASE j = Len(s) + 1 \/ k = Len(s) + 1
    BY <1>1, <2>2
  <2> QED
    BY <1>1, <2>1, <2>2
<1>3. ToSet(r) = ToSet(s) \cup {p}
  <2>1. \A j \in 1..(Len(s) + 1) : j \in 1..Len(s) \/ j = Len(s) + 1
    BY <1>1
  <2>2. \A j \in 1..Len(s) : j \in 1..(Len(s) + 1)
    BY <1>1
  <2>3. Len(s) + 1 \in 1..(Len(s) + 1)
    BY <1>1
  <2> HIDE DEF r
  <2> QED
    BY <1>1, <2>1, <2>2, <2>3 DEF ToSet
<1> QED
  BY <1>1, <1>2, <1>3

(* One tap turns the choice over for one person. *)
LEMMA ToggledChoice ==
    ASSUME TypeOK, NEW p \in People
    PROVE  /\ Toggled(p) \in Seq(People) /\ IsInjective(Toggled(p))
           /\ ToSet(Toggled(p)) = IF p \in ToSet(selected)
                                  THEN ToSet(selected) \ {p}
                                  ELSE ToSet(selected) \cup {p}
<1>1. selected \in Seq(People) /\ IsInjective(selected)
  BY DEF TypeOK
<1>2. CASE p \in ToSet(selected)
  BY <1>1, <1>2, FirstIndex, RemovedAt DEF Toggled
<1>3. CASE p \notin ToSet(selected)
  BY <1>1, <1>3, AppendedTo DEF Toggled
<1> QED
  BY <1>2, <1>3

-----------------------------------------------------------------------------
(* Every variable keeps its type, and nobody is chosen twice.              *)
THEOREM TypeCorrect == Spec => []TypeOK
<1> USE PickerConstants
<1>1. Init => TypeOK
  <2> SUFFICES ASSUME Init PROVE TypeOK
    OBVIOUS
  <2>1. selected \in Seq(People) /\ IsInjective(selected)
    BY DEF Init, IsInjective
  <2>2. queued \in Seq(SUBSET People) /\ loading \in BOOLEAN
    BY DEF Init, OfFriends
  <2>3. /\ rows \in SUBSET People /\ checked \in SUBSET People
        /\ handed \in SUBSET (SUBSET People) /\ searches \in SUBSET Searches
        /\ friendList \in SUBSET People
    BY DEF Init
  <2>4. /\ field \in Words /\ word \in Words \cup {NoWord}
        /\ edits \in 0..MaxEdits /\ regime \in Regimes
    BY DEF Init
  <2>5. /\ open \in BOOLEAN /\ pending \in BOOLEAN /\ dirty \in BOOLEAN
        /\ searching \in BOOLEAN
    BY DEF Init
  <2> QED
    BY <2>1, <2>2, <2>3, <2>4, <2>5 DEF TypeOK
<1>2. TypeOK /\ [Next]_vars => TypeOK'
  <2> SUFFICES ASSUME TypeOK, [Next]_vars PROVE TypeOK'
    OBVIOUS
  <2> USE DEF barVars, listVars, tableVars, choiceVars
  <2>1. ASSUME NEW w \in Words, Type(w) PROVE TypeOK'
    BY <2>1 DEF Type, TypeOK
  <2>2. ASSUME Settle PROVE TypeOK'
    <3>1. CASE field = word
      BY <2>2, <3>1 DEF Settle, TypeOK
    <3>2. CASE field # word /\ OfFriends
      <4>1. friendList \cap Named[field] \in SUBSET People
        BY DEF TypeOK
      <4> QED
        BY <2>2, <3>2, <4>1 DEF Settle, Filter, Show, TypeOK
    <3>3. CASE field # word /\ ~OfFriends
      <4>1. searches' \in SUBSET Searches
        <5>1. searches' \subseteq {[s EXCEPT !.heard = FALSE] : s \in searches}
                \cup {[word |-> field, heard |-> TRUE]}
          BY <2>2, <3>3 DEF Settle, Search
        <5>2. [word |-> field, heard |-> TRUE] \in Searches
          BY DEF Searches, TypeOK
        <5>3. \A s \in searches : [s EXCEPT !.heard = FALSE] \in Searches
          BY DEF Searches, TypeOK
        <5> QED
          BY <5>1, <5>2, <5>3
      <4>2. queued' \in Seq(SUBSET People)
        <5>1. {} \in SUBSET People /\ queued \in Seq(SUBSET People)
          BY DEF TypeOK
        <5> QED
          BY <2>2, <3>3, <5>1 DEF Settle, Search
      <4> QED
        BY <2>2, <3>3, <4>1, <4>2 DEF Settle, Search, TypeOK
    <3> QED
      BY <3>1, <3>2, <3>3
  <2>3. ASSUME ListArrives PROVE TypeOK'
    <3>1. CASE word = NoWord
      BY <2>3, <3>1 DEF ListArrives, TypeOK
    <3>2. CASE word # NoWord
      <4>1. Friends \cap Named[word] \in SUBSET People
        BY DEF TypeOK
      <4> QED
        BY <2>3, <3>2, <4>1 DEF ListArrives, Show, TypeOK
    <3> QED
      BY <3>1, <3>2
  <2>4. ASSUME ListFails PROVE TypeOK'
    BY <2>4 DEF ListFails, TypeOK
  <2>5. ASSUME NEW s \in searches, Answer(s) PROVE TypeOK'
    <3>1. s \in Searches /\ Named[s.word] \ Friends \in SUBSET People
      BY DEF Searches, TypeOK
    <3>2. queued' \in Seq(SUBSET People)
      BY <2>5, <3>1 DEF Answer, TypeOK
    <3>3. searches' \in SUBSET Searches
      BY <2>5 DEF Answer, TypeOK
    <3> QED
      BY <2>5, <3>2, <3>3 DEF Answer, TypeOK
  <2>6. ASSUME NEW s \in searches, SearchFails(s) PROVE TypeOK'
    BY <2>6 DEF SearchFails, TypeOK
  <2>7. ASSUME Deliver PROVE TypeOK'
    <3>1. Head(queued) \in SUBSET People /\ Tail(queued) \in Seq(SUBSET People)
      BY <2>7 DEF Deliver, TypeOK
    <3> QED
      BY <2>7, <3>1 DEF Deliver, Show, TypeOK
  <2>8. ASSUME Draw PROVE TypeOK'
    BY <2>8 DEF Draw, TypeOK
  <2>9. ASSUME NEW p \in People, Tap(p) PROVE TypeOK'
    <3>1. selected' \in Seq(People) /\ IsInjective(selected')
      BY <2>9, ToggledChoice DEF Tap
    <3> QED
      BY <2>9, <3>1 DEF Tap, Show, TypeOK
  <2>10. ASSUME Add PROVE TypeOK'
    <3>1. ToSet(selected) \in SUBSET People
      BY DEF ToSet, TypeOK
    <3> QED
      BY <2>10, <3>1 DEF Add, HandOver, TypeOK
  <2>11. ASSUME Leave PROVE TypeOK'
    BY <2>11 DEF Leave, TypeOK
  <2>12. CASE UNCHANGED vars
    BY <2>12 DEF vars, TypeOK
  <2> QED
    BY <2>1, <2>2, <2>3, <2>4, <2>5, <2>6, <2>7, <2>8, <2>9, <2>10, <2>11,
       <2>12 DEF Next, Answers
<1> QED
  BY <1>1, <1>2, PTL DEF Spec

(* A laid out table marks the chosen people it shows: every step that      *)
(* changes the rows or the choice leaves the table to be laid out again.   *)
THEOREM ChecksHold == Spec => []ChecksMatch
<1>1. Init => ChecksMatch
  BY DEF Init, ChecksMatch
<1>2. ChecksMatch /\ [Next]_vars => ChecksMatch'
  <2> SUFFICES ASSUME ChecksMatch, [Next]_vars PROVE ChecksMatch'
    OBVIOUS
  <2> USE DEF tableVars, choiceVars
  <2>1. CASE UNCHANGED <<rows, dirty, checked, selected>>
    BY <2>1 DEF ChecksMatch
  <2>2. CASE dirty'
    BY <2>2 DEF ChecksMatch
  <2>3. CASE Draw
    BY <2>3 DEF Draw, ChecksMatch
  <2>4. ASSUME Settle PROVE ChecksMatch'
    BY <2>1, <2>2, <2>4 DEF Settle, Filter, Search, Show
  <2>5. ASSUME NEW s \in searches, Answer(s) \/ SearchFails(s)
        PROVE  ChecksMatch'
    BY <2>1, <2>5 DEF Answer, SearchFails
  <2>6. ASSUME ListArrives \/ ListFails PROVE ChecksMatch'
    BY <2>1, <2>2, <2>6 DEF ListArrives, ListFails, Show
  <2>7. ASSUME Deliver \/ \E p \in People : Tap(p) PROVE ChecksMatch'
    BY <2>2, <2>7 DEF Deliver, Tap, Show
  <2>8. ASSUME \/ \E w \in Words : Type(w)
               \/ Add \/ Leave \/ UNCHANGED vars
        PROVE  ChecksMatch'
    BY <2>1, <2>8 DEF Type, Add, Leave, vars
  <2> QED
    BY <2>3, <2>4, <2>5, <2>6, <2>7, <2>8 DEF Next, Answers
<1> QED
  BY <1>1, <1>2, PTL DEF Spec

-----------------------------------------------------------------------------
(* The rows follow the text: on a friends page they are filtered by the    *)
(* last text at every step; on the strangers page the newest rows, shown   *)
(* or still waiting, are those of the last text unless its answer is still *)
(* to come, and no other answer is heard.                                  *)
NewestRows == IF queued = <<>> THEN rows ELSE queued[Len(queued)]

FollowsBar ==
    /\ word = NoWord => pending
    /\ searching /\ ~pending => word = field
    /\ \A s \in searches : s.word # EmptyWord /\ (s.heard => s.word = word)
    /\ OfFriends => searches = {} /\ queued = <<>>
    /\ OfFriends /\ word # NoWord => rows = Expected(word)
    /\ ~OfFriends => ~loading
    /\ ~OfFriends /\ searching /\ word # NoWord =>
          \/ \E s \in searches : s.heard
          \/ NewestRows = Expected(word)

(* FollowsBar is inductive. *)
THEOREM BarFollowed == Spec => []FollowsBar
<1> USE PickerConstants
<1>1. Init => FollowsBar
  BY DEF Init, FollowsBar, OfFriends
<1>2. TypeOK /\ FollowsBar /\ [Next]_vars => FollowsBar'
  <2> SUFFICES ASSUME TypeOK, FollowsBar, [Next]_vars PROVE FollowsBar'
    OBVIOUS
  <2> USE DEF barVars, listVars, tableVars, choiceVars
  <2>1. ASSUME NEW w \in Words, Type(w) PROVE FollowsBar'
    BY <2>1 DEF Type, FollowsBar, OfFriends, NewestRows, Expected
  <2>2. ASSUME Settle PROVE FollowsBar'
    <3>1. CASE field = word
      BY <2>2, <3>1
         DEF Settle, FollowsBar, OfFriends, NewestRows, Expected, TypeOK
    <3>2. CASE field # word /\ OfFriends
      BY <2>2, <3>2
         DEF Settle, Filter, Show, FollowsBar, OfFriends, Expected, TypeOK
    <3>3. CASE field # word /\ ~OfFriends /\ field = EmptyWord
      <4>1. /\ \A s \in searches' : ~s.heard /\ s.word # EmptyWord
            /\ queued' = Append(queued, {})
        BY <2>2, <3>3 DEF Settle, Search, FollowsBar, TypeOK, Searches
      <4>2. NewestRows' = {}
        BY <4>1 DEF NewestRows, TypeOK
      <4> QED
        BY <2>2, <3>3, <4>1, <4>2
           DEF Settle, Search, FollowsBar, OfFriends, Expected, TypeOK
    <3>4. CASE field # word /\ ~OfFriends /\ field # EmptyWord
      <4>1. /\ \A s \in searches' : s.word # EmptyWord /\ (s.heard => s.word = field)
            /\ \E s \in searches' : s.heard
        <5> DEFINE new == [word |-> field, heard |-> TRUE]
        <5>1. searches' = {[s EXCEPT !.heard = FALSE] : s \in searches}
                            \cup {new}
          BY <2>2, <3>4 DEF Settle, Search
        <5>2. \A s \in searches : /\ [s EXCEPT !.heard = FALSE].word = s.word
                                 /\ ~[s EXCEPT !.heard = FALSE].heard
          BY DEF TypeOK, Searches
        <5>3. new.word = field /\ new.heard
          OBVIOUS
        <5> HIDE DEF new
        <5> QED
          BY <3>4, <5>1, <5>2, <5>3 DEF FollowsBar
      <4> QED
        BY <2>2, <3>4, <4>1 DEF Settle, Search, FollowsBar, OfFriends, TypeOK
    <3> QED
      BY <3>1, <3>2, <3>3, <3>4
  <2>3. ASSUME ListArrives PROVE FollowsBar'
    BY <2>3 DEF ListArrives, Show, FollowsBar, OfFriends, Expected
  <2>4. ASSUME ListFails PROVE FollowsBar'
    BY <2>4 DEF ListFails, FollowsBar, OfFriends, Expected
  <2>5. ASSUME NEW s \in searches, Answer(s) PROVE FollowsBar'
    <3>1. ~OfFriends /\ s \in Searches
      BY DEF FollowsBar, TypeOK
    <3>2. CASE s.heard
      <4>1. queued' = Append(queued, Expected(word)) /\ Expected(word) \in SUBSET People
        BY <2>5, <3>1, <3>2 DEF Answer, FollowsBar, Expected, Searches
      <4>2. NewestRows' = Expected(word)
        BY <4>1 DEF NewestRows, TypeOK
      <4> QED
        BY <2>5, <3>1, <4>2 DEF Answer, FollowsBar, OfFriends, Expected
    <3>3. CASE ~s.heard
      BY <2>5, <3>1, <3>3
         DEF Answer, FollowsBar, OfFriends, Expected, NewestRows
    <3> QED
      BY <3>2, <3>3
  <2>6. ASSUME NEW s \in searches, SearchFails(s) PROVE FollowsBar'
    BY <2>6 DEF SearchFails, FollowsBar, OfFriends, Expected, NewestRows
  <2>7. ASSUME Deliver PROVE FollowsBar'
    <3>1. NewestRows' = NewestRows
      <4>1. /\ queued \in Seq(SUBSET People) /\ queued # <<>>
            /\ rows' = Head(queued) /\ queued' = Tail(queued)
        BY <2>7 DEF Deliver, Show, TypeOK
      <4>2. CASE Len(queued) = 1
        BY <4>1, <4>2 DEF NewestRows
      <4>3. CASE Len(queued) > 1
        <5>1. Len(queued') = Len(queued) - 1 /\ queued' # <<>>
          BY <4>1, <4>3
        <5>2. queued'[Len(queued')] = queued[Len(queued)]
          BY <4>1, <4>3, <5>1
        <5> QED
          BY <4>1, <5>1, <5>2 DEF NewestRows
      <4>4. Len(queued) \in Nat \ {0}
        BY <4>1, EmptySeq
      <4>5. \A n \in Nat \ {0} : n = 1 \/ n > 1
        OBVIOUS
      <4> QED
        BY <4>2, <4>3, <4>4, <4>5
    <3> QED
      BY <2>7, <3>1 DEF Deliver, Show, FollowsBar, OfFriends, Expected
  <2>8. ASSUME \/ Draw \/ Add \/ Leave \/ UNCHANGED vars
               \/ \E p \in People : Tap(p)
        PROVE  FollowsBar'
    <3>1. UNCHANGED <<regime, barVars, listVars, rows>>
      BY <2>8 DEF Draw, Tap, Show, Add, Leave, vars
    <3> QED
      BY <3>1 DEF FollowsBar, OfFriends, Expected, NewestRows
  <2> QED
    BY <2>1, <2>2, <2>3, <2>4, <2>5, <2>6, <2>7, <2>8 DEF Next, Answers
<1> QED
  BY <1>1, <1>2, TypeCorrect, PTL DEF Spec

(* When nothing is awaited, the rows are those of the text in the bar. *)
THEOREM RowsSettle == Spec => []RowsMatchBar
<1>1. TypeOK /\ FollowsBar => RowsMatchBar
  BY DEF TypeOK, FollowsBar, RowsMatchBar, NewestRows
<1> QED
  BY <1>1, TypeCorrect, BarFollowed, PTL

-----------------------------------------------------------------------------
ClosedOnceHanded == open => handed = {}

(* Once the choice was handed over the page is closed: no tap can follow.  *)
THEOREM HandedOnce == Spec => []ClosedOnceHanded
<1>1. Init => ClosedOnceHanded
  BY DEF Init, ClosedOnceHanded
<1>2. ClosedOnceHanded /\ [Next]_vars => ClosedOnceHanded'
  BY DEF ClosedOnceHanded, Next, Answers, vars, choiceVars, Type, Settle,
         ListArrives, ListFails, Answer, SearchFails, Deliver, Draw, Tap, Add,
         Leave
<1> QED
  BY <1>1, <1>2, PTL DEF Spec

(* Every step of the page is a step of Selection or leaves the choice and  *)
(* what was handed over alone.                                             *)
THEOREM SelectionImplemented == Spec => ImplementsSelection
<1> DEFINE chosen == ToSet(selected)
<1>1. Init => Choice!Init
  <2>1. ToSet(<<>>) = {}
    BY DEF ToSet
  <2> QED
    BY <2>1 DEF Init, Choice!Init
<1>2. TypeOK /\ ClosedOnceHanded /\ [Next]_vars
        => [Choice!Next]_<<chosen, handed>>
  <2> SUFFICES ASSUME TypeOK, ClosedOnceHanded, [Next]_vars
               PROVE  [Choice!Next]_<<chosen, handed>>
    OBVIOUS
  <2>1. CASE UNCHANGED <<selected, handed>>
    BY <2>1
  <2>2. ASSUME NEW p \in People, Tap(p) PROVE Choice!Next
    <3>1. handed = {} /\ handed' = handed /\ selected' = Toggled(p)
      BY <2>2 DEF Tap, ClosedOnceHanded
    <3>2. chosen' = IF p \in chosen THEN chosen \ {p} ELSE chosen \cup {p}
      BY <3>1, ToggledChoice
    <3> QED
      BY <3>1, <3>2 DEF Choice!Next, Choice!Toggle
  <2>3. ASSUME Add PROVE Choice!Next
    <3>1. handed = {} /\ handed' = {chosen} /\ selected' = selected
      BY <2>3 DEF Add, HandOver, ClosedOnceHanded
    <3> QED
      BY <3>1 DEF Choice!Next, Choice!HandOver
  <2>4. ASSUME ~UNCHANGED <<selected, handed>>
        PROVE  Add \/ \E p \in People : Tap(p)
    BY <2>4 DEF Next, Answers, vars, choiceVars, Type, Settle, ListArrives,
               ListFails, Answer, SearchFails, Deliver, Draw, Leave
  <2> QED
    BY <2>1, <2>2, <2>3, <2>4
<1> QED
  BY <1>1, <1>2, TypeCorrect, HandedOnce, PTL
     DEF Spec, ImplementsSelection, Choice!Spec
=============================================================================
