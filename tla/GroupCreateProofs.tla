-------------------------- MODULE GroupCreateProofs --------------------------
(***************************************************************************)
(* Proofs about GroupCreate for every value of its constants.              *)
(***************************************************************************)
EXTENDS GroupCreate, SequenceTheorems, TLAPS

-----------------------------------------------------------------------------
(* The pages, and what the requests in flight refer to.                    *)

OnList == <<"groups">>
OnCreate == <<"groups", "create">>
OnPicker == <<"groups", "create", "picker">>

NavShape == nav \in {OnList, OnCreate, OnPicker}

\* Only an opened page asks for a group or an invitation.
Sound(r) ==
    /\ r.visit <= visit
    /\ r.kind # "list" => r.visit >= 1
    /\ r.kind = "list" /\ r.served => r.group <= Len(groups)
    /\ r.kind = "invite" \/ (r.kind = "create" /\ r.served) =>
          r.group \in 1..Len(groups) /\ groups[r.group].visit = r.visit
    /\ r.kind = "invite" => r.friends \subseteq offered[r.visit]

RequestsSound == \A i \in 1..Len(net) : Sound(net[i])

VisitsSoFar == \A k \in 1..Len(groups) : groups[k].visit <= visit

PickedHere == visit >= 1 => picked \subseteq offered[visit]

PageInv ==
    /\ TypeOK /\ NavShape /\ (nav # OnList => visit >= 1)
    /\ RequestsSound /\ VisitsSoFar /\ PickedHere /\ OwnFriendsInvited

-----------------------------------------------------------------------------
(* The user who waits and does not type on after a tap.                    *)

Waits == regime.patient /\ ~regime.retypes

\* No text may come through the throttle on a page that was tapped.
TapsSettled == Waits => ~(tapped /\ pending)

IsAsking(i) == net[i].kind # "list"

OneRequest ==
    Waits =>
        /\ \A i \in 1..Len(net) : IsAsking(i) => nav = OnCreate /\ net[i].visit = visit
        /\ \A i, j \in 1..Len(net) : IsAsking(i) /\ IsAsking(j) => i = j

\* Where a page that is open has made its group, the invitation is still to come.
InvitationToCome ==
    Waits /\ regime.lossless /\ nav # OnList =>
        \A k \in 1..Len(groups) : groups[k].visit = visit =>
            \E i \in 1..Len(net) :
                net[i].kind = "invite" \/ (net[i].kind = "create" /\ net[i].served)

\* While the list is on top, the load that is answered last shows all groups.
LastLoad(i) ==
    net[i].kind = "list" /\ \A j \in (i + 1)..Len(net) : net[j].kind # "list"

LastLoadShowsAll ==
    Waits /\ regime.inOrder /\ regime.lossless /\ nav = OnList =>
        /\ \A i \in 1..Len(net) :
              LastLoad(i) /\ net[i].served => net[i].group = Len(groups)
        /\ (\A i \in 1..Len(net) : IsAsking(i)) => listed = Len(groups)

-----------------------------------------------------------------------------
(* Taking a request out, adding one, answering one.                        *)

LEMMA Removed ==
    ASSUME NEW S, NEW s \in Seq(S), NEW i \in 1..Len(s)
    PROVE  /\ RemoveAt(s, i) \in Seq(S)
           /\ Len(s) \in Nat
           /\ Len(RemoveAt(s, i)) = Len(s) - 1
           /\ \A j \in 1..(Len(s) - 1) :
                RemoveAt(s, i)[j] = IF j < i THEN s[j] ELSE s[j + 1]
<1> DEFINE front == SubSeq(s, 1, i - 1)
           back  == SubSeq(s, i + 1, Len(s))
<1>1. Len(s) \in Nat /\ i \in Nat /\ 1 <= i /\ i <= Len(s)
  OBVIOUS
<1>2. /\ front \in Seq(S) /\ Len(front) = i - 1
      /\ \A j \in 1..(i - 1) : front[j] = s[j]
  <2>1. 1 \in Int /\ i - 1 \in Int /\ \A j \in 1..(i - 1) : s[j] \in S
    BY <1>1
  <2> QED
    BY <1>1, <2>1, SubSeqProperties
<1>3. /\ back \in Seq(S) /\ Len(back) = Len(s) - i
      /\ \A j \in 1..(Len(s) - i) : back[j] = s[j + i]
  <2>1. i + 1 \in Int /\ Len(s) \in Int /\ \A j \in (i + 1)..Len(s) : s[j] \in S
    BY <1>1
  <2> QED
    BY <1>1, <2>1, SubSeqProperties
<1>4. RemoveAt(s, i) = front \o back
  BY DEF RemoveAt
<1> HIDE DEF front, back
<1>5. /\ front \o back \in Seq(S) /\ Len(front \o back) = Len(s) - 1
      /\ \A j \in 1..(Len(s) - 1) :
            (front \o back)[j] = IF j < i THEN front[j] ELSE back[j - (i - 1)]
  <2>1. /\ front \o back \in Seq(S) /\ Len(front \o back) = Len(front) + Len(back)
        /\ \A j \in 1..(Len(front) + Len(back)) :
            (front \o back)[j] = IF j <= Len(front) THEN front[j] ELSE back[j - Len(front)]
    BY <1>2, <1>3, ConcatProperties
  <2> QED
    BY <1>1, <1>2, <1>3, <2>1
<1>6. ASSUME NEW j \in 1..(Len(s) - 1), ~(j < i)
      PROVE  back[j - (i - 1)] = s[j + 1]
  <2>1. j - (i - 1) \in 1..(Len(s) - i) /\ (j - (i - 1)) + i = j + 1
    BY <1>1, <1>6
  <2> QED
    BY <1>3, <2>1
<1> QED
  BY <1>1, <1>2, <1>4, <1>5, <1>6

(* What is left after taking one out keeps its order: Was gives for each place *)
(* where its element was.                                                       *)
Was(i, j) == IF j < i THEN j ELSE j + 1

LEMMA Remaining ==
    ASSUME TypeOK, NEW i \in 1..Len(net)
    PROVE  /\ RemoveAt(net, i) \in Seq(Requests) /\ Len(net) \in Nat
           /\ Len(RemoveAt(net, i)) = Len(net) - 1
           /\ \A j \in 1..(Len(net) - 1) :
                 /\ Was(i, j) \in 1..Len(net) /\ Was(i, j) # i
                 /\ RemoveAt(net, i)[j] = net[Was(i, j)]
           /\ \A k \in 1..Len(net) : k # i =>
                 \E j \in 1..(Len(net) - 1) : Was(i, j) = k
           /\ \A j, k \in 1..(Len(net) - 1) : j < k => Was(i, j) < Was(i, k)
<1>1. /\ RemoveAt(net, i) \in Seq(Requests) /\ Len(net) \in Nat
      /\ Len(RemoveAt(net, i)) = Len(net) - 1
      /\ \A j \in 1..(Len(net) - 1) :
            RemoveAt(net, i)[j] = IF j < i THEN net[j] ELSE net[j + 1]
  <2>1. net \in Seq(Requests)
    BY DEF TypeOK
  <2> QED
    BY <2>1, Removed
<1>2. ASSUME NEW k \in 1..Len(net), k # i
      PROVE  \E j \in 1..(Len(net) - 1) : Was(i, j) = k
  <2>1. CASE k < i
    BY <1>1, <2>1 DEF Was
  <2>2. CASE k > i
    <3>1. k - 1 \in 1..(Len(net) - 1) /\ ~(k - 1 < i) /\ (k - 1) + 1 = k
      BY <1>1, <2>2
    <3> QED
      BY <3>1 DEF Was
  <2> QED
    BY <1>1, <1>2, <2>1, <2>2
<1> QED
  BY <1>1, <1>2 DEF Was

LEMMA Sent ==
    ASSUME TypeOK, NEW r \in Requests
    PROVE  /\ Append(net, r) \in Seq(Requests) /\ Len(net) \in Nat
           /\ Len(Append(net, r)) = Len(net) + 1
           /\ \A i \in 1..Len(net) : Append(net, r)[i] = net[i]
           /\ Append(net, r)[Len(net) + 1] = r
  BY DEF TypeOK

(* An answer followed by a request: the one comes out, the other goes last. *)
LEMMA SentOn ==
    ASSUME TypeOK, NEW i \in 1..Len(net), NEW r \in Requests
    PROVE  /\ Append(RemoveAt(net, i), r) \in Seq(Requests)
           /\ Len(Append(RemoveAt(net, i), r)) = Len(net)
           /\ \A j \in 1..(Len(net) - 1) :
                 Append(RemoveAt(net, i), r)[j] = net[Was(i, j)]
           /\ Append(RemoveAt(net, i), r)[Len(net)] = r
<1> DEFINE left == RemoveAt(net, i)
<1>1. /\ left \in Seq(Requests) /\ Len(left) = Len(net) - 1 /\ Len(net) \in Nat
      /\ \A j \in 1..(Len(net) - 1) : left[j] = net[Was(i, j)]
  BY Remaining
<1> HIDE DEF left
<1>2. /\ Append(left, r) \in Seq(Requests)
      /\ Len(Append(left, r)) = Len(left) + 1
      /\ \A j \in 1..Len(left) : Append(left, r)[j] = left[j]
      /\ Append(left, r)[Len(left) + 1] = r
  BY <1>1, AppendProperties
<1>3. Len(left) + 1 = Len(net) /\ 1..Len(left) = 1..(Len(net) - 1)
  BY <1>1
<1>4. /\ Append(left, r) \in Seq(Requests) /\ Len(Append(left, r)) = Len(net)
      /\ \A j \in 1..(Len(net) - 1) : Append(left, r)[j] = net[Was(i, j)]
      /\ Append(left, r)[Len(net)] = r
  BY <1>1, <1>2, <1>3
<1> QED
  BY <1>4 DEF left

LEMMA RequestTyped ==
    ASSUME TypeOK, NEW kind \in {"list", "create", "invite"}, NEW t \in Titles,
           NEW friends \in SUBSET Friends, NEW group \in Nat
    PROVE  Request(kind, t, friends, group) \in Requests
  BY DEF TypeOK, Request, Requests

LEMMA ListRequestTyped == TypeOK => ListRequest \in Requests
<1>1. Empty \in Titles /\ {} \in SUBSET Friends /\ 0 \in Nat
  BY GroupConstants
<1> QED
  BY <1>1, RequestTyped DEF ListRequest

LEMMA Pushed ==
    ASSUME NEW S, NEW s \in Seq(S), NEW t \in Seq(S), NEW e \in S,
           Len(t) = Len(s) + 1, \A i \in 1..Len(s) : t[i] = s[i], t[Len(t)] = e
    PROVE  Append(s, e) = t /\ Front(t) = s
<1>1. /\ Append(s, e) \in Seq(S) /\ Len(Append(s, e)) = Len(t)
      /\ \A i \in 1..Len(t) : Append(s, e)[i] = t[i]
  OBVIOUS
<1>2. /\ SubSeq(t, 1, Len(s)) \in Seq(S) /\ Len(SubSeq(t, 1, Len(s))) = Len(s)
      /\ \A i \in 1..Len(s) : SubSeq(t, 1, Len(s))[i] = s[i]
  OBVIOUS
<1>3. SubSeq(t, 1, Len(s)) = s
  BY <1>2, SeqEqual
<1>4. Len(t) - 1 = Len(s)
  OBVIOUS
<1> QED
  BY <1>1, <1>3, <1>4, SeqEqual DEF Front

(* The three stacks of pages. *)
LEMMA Stacks ==
    /\ Last(OnList) = "groups" /\ Last(OnCreate) = "create" /\ Last(OnPicker) = "picker"
    /\ Front(OnCreate) = OnList /\ Front(OnPicker) = OnCreate
    /\ Append(OnList, "create") = OnCreate /\ Append(OnCreate, "picker") = OnPicker
    /\ ~Contains(OnList, "create")
    /\ Contains(OnCreate, "create") /\ Contains(OnPicker, "create")
    /\ OnList # OnCreate /\ OnList # OnPicker /\ OnCreate # OnPicker
    /\ \A stack \in {OnList, OnCreate, OnPicker} :
          stack \in Seq(Pages) /\ stack # <<>> /\ stack[1] = "groups"
<1>1. Len(OnList) = 1 /\ Len(OnCreate) = 2 /\ Len(OnPicker) = 3
  BY DEF OnList, OnCreate, OnPicker
<1>2. /\ OnList[1] = "groups"
      /\ OnCreate[1] = "groups" /\ OnCreate[2] = "create"
      /\ OnPicker[1] = "groups" /\ OnPicker[2] = "create" /\ OnPicker[3] = "picker"
  BY DEF OnList, OnCreate, OnPicker
<1>3. OnList \in Seq(Pages) /\ OnCreate \in Seq(Pages) /\ OnPicker \in Seq(Pages)
  BY DEF OnList, OnCreate, OnPicker, Pages
<1>4. "create" \in Pages /\ "picker" \in Pages
  BY DEF Pages
<1> HIDE DEF OnList, OnCreate, OnPicker
<1>5. Append(OnList, "create") = OnCreate /\ Front(OnCreate) = OnList
  <2>1. /\ Len(OnCreate) = Len(OnList) + 1 /\ OnCreate[Len(OnCreate)] = "create"
        /\ \A i \in 1..Len(OnList) : OnCreate[i] = OnList[i]
    BY <1>1, <1>2
  <2> QED
    BY <1>3, <1>4, <2>1, Pushed
<1>6. Append(OnCreate, "picker") = OnPicker /\ Front(OnPicker) = OnCreate
  <2>1. /\ Len(OnPicker) = Len(OnCreate) + 1 /\ OnPicker[Len(OnPicker)] = "picker"
        /\ \A i \in 1..Len(OnCreate) : OnPicker[i] = OnCreate[i]
    BY <1>1, <1>2
  <2> QED
    BY <1>3, <1>4, <2>1, Pushed
<1> QED
  BY <1>1, <1>2, <1>3, <1>5, <1>6 DEF Last, Contains

LEMMA TopPage ==
    ASSUME NavShape
    PROVE  /\ Top = "groups" <=> nav = OnList
           /\ Top = "create" <=> nav = OnCreate
           /\ Top = "picker" <=> nav = OnPicker
           /\ Contains(nav, "create") <=> nav # OnList
           /\ nav = OnPicker => Front(nav) = OnCreate
           /\ nav = OnCreate => Front(nav) = OnList
  BY Stacks DEF NavShape, Top

LEMMA NavTyped == NavShape => nav \in Seq(Pages) /\ nav # <<>> /\ nav[1] = "groups"
  BY Stacks DEF NavShape

-----------------------------------------------------------------------------
(* What a step leaves true of the requests: groups stay, pages are opened    *)
(* one after the other, friends picked for a page are only added to.         *)

Grown ==
    /\ visit' \in Nat /\ visit <= visit'
    /\ Len(groups') \in Nat /\ Len(groups) <= Len(groups')
    /\ \A k \in 1..Len(groups) : groups'[k].visit = groups[k].visit
    /\ \A v \in 1..MaxVisits : offered[v] \subseteq offered'[v]

LEMMA SoundStays ==
    ASSUME TypeOK, Grown, NEW r \in Requests, Sound(r)
    PROVE  Sound(r)'
<1>1. /\ r.visit \in 0..MaxVisits /\ r.group \in Nat /\ visit \in Nat /\ MaxVisits \in Nat
      /\ Len(groups) \in Nat
  BY GroupConstants DEF TypeOK, Requests
<1>2. r.visit >= 1 => offered[r.visit] \subseteq offered'[r.visit]
  BY <1>1 DEF Grown
<1> QED
  BY <1>1, <1>2 DEF Grown, Sound

LEMMA KeepsSound ==
    ASSUME TypeOK, Grown, RequestsSound,
           \A j \in 1..Len(net') :
              Sound(net[j])' \/ \E k \in 1..Len(net) : net'[j] = net[k]
    PROVE  RequestsSound'
<1>1. SUFFICES ASSUME NEW j \in 1..Len(net'), NEW k \in 1..Len(net), net'[j] = net[k]
               PROVE  Sound(net[j])'
  BY DEF RequestsSound
<1>2. net[k] \in Requests /\ Sound(net[k])
  BY DEF TypeOK, RequestsSound
<1>3. PICK r \in Requests : r = net[k]
  BY <1>2
<1>4. Sound(r)'
  BY <1>2, <1>3, SoundStays
<1>5. r = net'[j]
  BY <1>1, <1>3
<1> QED
  BY <1>4, <1>5 DEF Sound

LEMMA SameGrown ==
    ASSUME TypeOK, UNCHANGED <<visit, groups, offered>>
    PROVE  Grown
  BY GroupConstants DEF TypeOK, Grown

LEMMA PageInit == Init => PageInv
<1> SUFFICES ASSUME Init PROVE PageInv
  OBVIOUS
<1>1. NavShape /\ nav = OnList
  BY DEF Init, NavShape, OnList
<1>2. /\ ListRequest \in Requests
      /\ ListRequest.kind = "list" /\ ~ListRequest.served /\ ListRequest.visit = visit
  <2>1. /\ Empty \in Titles /\ visit \in 0..MaxVisits
    BY GroupConstants DEF Init
  <2> QED
    BY <2>1 DEF ListRequest, Request, Requests
<1>3. net = <<ListRequest, ListRequest>>
  BY DEF Init
<1> HIDE DEF ListRequest
<1>4. net \in Seq(Requests) /\ Len(net) = 2 /\ Len(net) <= MaxNet
      /\ \A i \in 1..Len(net) : net[i] = ListRequest
  BY <1>2, <1>3, GroupConstants
<1>5. groups = <<>> /\ Len(groups) = 0 /\ groups \in Seq(Groups) /\ visit = 0
  BY DEF Init
<1>6. TypeOK
  <2>1. asked \in Seq(Titles) /\ listed \in 0..Len(groups) /\ visit \in 0..MaxVisits
    BY <1>5, GroupConstants DEF Init
  <2>2. offered \in [1..MaxVisits -> SUBSET Friends]
    BY DEF Init
  <2>3. nav \in Seq(Pages) /\ nav # <<>> /\ nav[1] = "groups"
    BY <1>1, NavTyped
  <2> QED
    BY <1>4, <1>5, <2>1, <2>2, <2>3, GroupConstants DEF Init, TypeOK
<1>7. RequestsSound
  BY <1>2, <1>4, <1>5 DEF RequestsSound, Sound
<1> QED
  BY <1>1, <1>5, <1>6, <1>7 DEF PageInv, VisitsSoFar, PickedHere, OwnFriendsInvited

(* The four ways in which a step changes the requests. *)
LEMMA SentSound ==
    ASSUME TypeOK, RequestsSound, Grown, NEW r \in Requests, Sound(r)',
           net' = Append(net, r)
    PROVE  net' \in Seq(Requests) /\ Len(net') = Len(net) + 1 /\ RequestsSound'
<1>1. /\ net' \in Seq(Requests) /\ Len(net') = Len(net) + 1 /\ Len(net) \in Nat
      /\ \A i \in 1..Len(net) : net'[i] = net[i]
      /\ net'[Len(net) + 1] = r
  BY Sent
<1>2. \A j \in 1..Len(net') : Sound(net[j])' \/ \E k \in 1..Len(net) : net'[j] = net[k]
  <2> SUFFICES ASSUME NEW j \in 1..Len(net'), j = Len(net) + 1
               PROVE  Sound(net[j])'
    BY <1>1
  <2> QED
    BY <1>1 DEF Sound
<1> QED
  BY <1>1, <1>2, KeepsSound

LEMMA RemovedSound ==
    ASSUME TypeOK, RequestsSound, Grown, NEW i \in 1..Len(net), net' = RemoveAt(net, i)
    PROVE  net' \in Seq(Requests) /\ Len(net') <= MaxNet /\ RequestsSound'
<1>1. /\ net' \in Seq(Requests) /\ Len(net') = Len(net) - 1 /\ Len(net) \in Nat
      /\ \A j \in 1..(Len(net) - 1) : Was(i, j) \in 1..Len(net) /\ net'[j] = net[Was(i, j)]
  BY Remaining
<1>2. \A j \in 1..Len(net') : \E k \in 1..Len(net) : net'[j] = net[k]
  BY <1>1
<1> QED
  BY <1>1, <1>2, KeepsSound, GroupConstants DEF TypeOK

LEMMA SentOnSound ==
    ASSUME TypeOK, RequestsSound, Grown, NEW i \in 1..Len(net), NEW r \in Requests,
           Sound(r)', net' = Append(RemoveAt(net, i), r)
    PROVE  net' \in Seq(Requests) /\ Len(net') <= MaxNet /\ RequestsSound'
<1>1. /\ net' \in Seq(Requests) /\ Len(net') = Len(net)
      /\ \A j \in 1..(Len(net) - 1) : net'[j] = net[Was(i, j)]
      /\ net'[Len(net)] = r
  BY SentOn
<1>2. Len(net) \in Nat /\ \A j \in 1..(Len(net) - 1) : Was(i, j) \in 1..Len(net)
  BY Remaining
<1>3. ASSUME NEW j \in 1..Len(net')
      PROVE  Sound(net[j])' \/ \E k \in 1..Len(net) : net'[j] = net[k]
  <2>1. CASE j = Len(net)
    BY <1>1, <2>1 DEF Sound
  <2>2. CASE j # Len(net)
    <3>1. j \in 1..(Len(net) - 1)
      BY <1>1, <1>2, <1>3, <2>2
    <3> QED
      BY <1>1, <1>2, <3>1
  <2> QED
    BY <2>1, <2>2
<1> QED
  BY <1>1, <1>3, KeepsSound, GroupConstants DEF TypeOK

LEMMA ReplacedSound ==
    ASSUME TypeOK, RequestsSound, Grown, NEW i \in 1..Len(net), NEW r \in Requests,
           Sound(r)', net' = ReplaceAt(net, i, r)
    PROVE  net' \in Seq(Requests) /\ Len(net') <= MaxNet /\ RequestsSound'
<1>1. /\ net' \in Seq(Requests) /\ Len(net') = Len(net)
      /\ \A j \in 1..Len(net) : net'[j] = IF j = i THEN r ELSE net[j]
  BY DEF TypeOK, ReplaceAt
<1>2. ASSUME NEW j \in 1..Len(net')
      PROVE  Sound(net[j])' \/ \E k \in 1..Len(net) : net'[j] = net[k]
  <2>1. CASE j = i
    BY <1>1, <2>1 DEF Sound
  <2>2. CASE j # i
    BY <1>1, <2>2
  <2> QED
    BY <2>1, <2>2
<1> QED
  BY <1>1, <1>2, KeepsSound DEF TypeOK

(* The request for a group, from either side of combineLatest. *)
LEMMA CreateSound ==
    ASSUME PageInv, NEW t \in Titles, CreateGroup(t), visit >= 1,
           UNCHANGED <<visit, groups, offered>>
    PROVE  /\ net' \in Seq(Requests) /\ Len(net') <= MaxNet /\ RequestsSound'
           /\ asked' \in Seq(Titles)
<1> USE DEF PageInv
<1>1. CASE t = Blank
  BY <1>1 DEF CreateGroup, TypeOK, RequestsSound, Sound
<1>2. CASE t # Blank
  <2>1. /\ Len(net) < MaxNet
        /\ net' = Append(net, Request("create", t, {}, 0))
        /\ asked' = Append(asked, t)
    BY <1>2 DEF CreateGroup, HasRoom
  <2>2. PICK r : r = Request("create", t, {}, 0)
    OBVIOUS
  <2>3. r \in Requests
    BY <2>2, RequestTyped
  <2>4. Sound(r)'
    BY <2>2, GroupConstants DEF Request, Sound, TypeOK
  <2>5. net' \in Seq(Requests) /\ Len(net') = Len(net) + 1 /\ RequestsSound'
    BY <2>1, <2>2, <2>3, <2>4, SentSound, SameGrown
  <2>6. Len(net) \in Nat /\ Len(net') <= MaxNet
    BY <2>1, <2>5, GroupConstants DEF TypeOK
  <2> QED
    BY <2>1, <2>5, <2>6 DEF TypeOK
<1> QED
  BY <1>1, <1>2

(* A request as the service leaves it: only whether it was served and what it *)
(* refers to change.                                                          *)
Done(r, group) == [r EXCEPT !.served = TRUE, !.group = group]

LEMMA DoneTyped ==
    ASSUME NEW r \in Requests, NEW group \in Nat
    PROVE  /\ Done(r, group) \in Requests
           /\ Done(r, group).kind = r.kind /\ Done(r, group).visit = r.visit
           /\ Done(r, group).friends = r.friends /\ Done(r, group).group = group
  BY DEF Done, Requests

LEMMA RequestFields ==
    ASSUME NEW r \in Requests
    PROVE  /\ r.visit \in 0..MaxVisits /\ r.visit \in Nat /\ r.group \in Nat
           /\ r.title \in Titles /\ r.friends \in SUBSET Friends
  BY GroupConstants DEF Requests

-----------------------------------------------------------------------------
(* Type correctness, and the friends of a group, are inductive together.   *)

LEMMA PageStep == PageInv /\ [Next]_vars => PageInv'
<1> SUFFICES ASSUME PageInv, [Next]_vars PROVE PageInv'
  OBVIOUS
<1> USE DEF PageInv
<1>1. /\ visit \in 0..MaxVisits /\ visit \in Nat /\ MaxVisits \in Nat
      /\ Len(groups) \in Nat /\ Len(net) \in Nat
  BY GroupConstants DEF TypeOK
<1>1a. \A k \in 1..Len(groups) : groups[k].visit \in 1..MaxVisits /\ groups[k].visit \in Nat
  <2>1. \A k \in 1..Len(groups) : groups[k] \in Groups
    BY <1>1 DEF TypeOK
  <2> QED
    BY <1>1, <2>1 DEF Groups
<1>2. ASSUME UNCHANGED <<visit, groups, offered>>
      PROVE  Grown /\ VisitsSoFar' /\ OwnFriendsInvited'
  BY <1>2, SameGrown DEF VisitsSoFar, OwnFriendsInvited
<1>3. ASSUME UNCHANGED <<visit, groups, net, offered>> PROVE RequestsSound'
  BY <1>3 DEF RequestsSound, Sound
<1>4. ASSUME UNCHANGED <<visit, picked, offered>> PROVE PickedHere'
  BY <1>4 DEF PickedHere
<1>5. ASSUME UNCHANGED <<nav, visit>> PROVE NavShape' /\ (nav' # OnList => visit' >= 1)
  BY <1>5 DEF NavShape
<1>6. CASE UNCHANGED vars
  <2>1. TypeOK'
    BY <1>6 DEF vars, pageVars, TypeOK
  <2> QED
    BY <1>2, <1>3, <1>4, <1>5, <1>6, <2>1 DEF vars, pageVars
<1>7. CASE OpenCreate
  <2>1. nav = OnList /\ nav' = OnCreate /\ visit' = visit + 1 /\ visit' <= MaxVisits
    BY <1>1, <1>7, TopPage, Stacks DEF OpenCreate
  <2>2. NavShape' /\ visit' >= 1
    BY <1>1, <2>1 DEF NavShape
  <2>3. TypeOK'
    <3>1. nav' \in Seq(Pages) /\ nav' # <<>> /\ nav'[1] = "groups"
      BY <2>1, Stacks
    <3>2. visit' \in 0..MaxVisits
      BY <1>1, <2>1
    <3>3. Empty \in Titles /\ {} \in SUBSET Friends
      BY GroupConstants
    <3> QED
      BY <1>7, <3>1, <3>2, <3>3 DEF OpenCreate, TypeOK
  <2>4. Grown /\ VisitsSoFar' /\ OwnFriendsInvited'
    BY <1>1, <1>1a, <1>7, <2>1 DEF OpenCreate, Grown, VisitsSoFar, OwnFriendsInvited
  <2>5. RequestsSound'
    BY <1>7, <2>4, KeepsSound DEF OpenCreate
  <2> QED
    BY <1>7, <2>2, <2>3, <2>4, <2>5 DEF OpenCreate, PickedHere
<1>8. ASSUME NEW t \in Titles, Edit(t) PROVE PageInv'
  <2>1. TypeOK'
    BY <1>8 DEF Edit, TypeOK
  <2> QED
    BY <1>2, <1>3, <1>4, <1>5, <1>8, <2>1 DEF Edit
<1>9. ASSUME Throttled \/ TapCreate PROVE PageInv'
  <2>1. nav # OnList
    BY <1>9, TopPage, Stacks DEF Throttled, TapCreate
  <2>2. /\ UNCHANGED <<nav, visit, picked, groups, offered>>
        /\ net' \in Seq(Requests) /\ Len(net') <= MaxNet /\ RequestsSound'
        /\ asked' \in Seq(Titles)
    <3>1. UNCHANGED <<nav, visit, picked, groups, offered>>
      BY <1>9 DEF Throttled, TapCreate
    <3>2. CASE UNCHANGED <<net, asked>>
      BY <1>3, <3>1, <3>2 DEF TypeOK
    <3>3. CASE \E t \in Titles : CreateGroup(t)
      BY <2>1, <3>1, <3>3, CreateSound
    <3>4. UNCHANGED <<net, asked>> \/ \E t \in Titles : CreateGroup(t)
      BY <1>9 DEF Throttled, TapCreate, TypeOK
    <3> QED
      BY <3>1, <3>2, <3>3, <3>4
  <2>3. TypeOK'
    <3>1. CASE Throttled
      BY <2>2, <3>1 DEF Throttled, TypeOK
    <3>2. CASE TapCreate
      BY <2>2, <3>2 DEF TapCreate, TypeOK
    <3> QED
      BY <1>9, <3>1, <3>2
  <2> QED
    BY <1>2, <1>4, <1>5, <2>2, <2>3
<1>10. CASE TapAddFriend
  <2>1. nav = OnCreate /\ nav' = OnPicker
    BY <1>10, TopPage, Stacks DEF TapAddFriend
  <2>2. TypeOK' /\ NavShape' /\ visit' >= 1
    <3>1. nav' \in Seq(Pages) /\ nav' # <<>> /\ nav'[1] = "groups"
      BY <2>1, Stacks
    <3> QED
      BY <1>10, <2>1, <3>1, Stacks DEF TapAddFriend, pageVars, TypeOK, NavShape
  <2> QED
    BY <1>2, <1>3, <1>4, <1>10, <2>2 DEF TapAddFriend, pageVars
<1>11. ASSUME NEW chosen \in SUBSET Friends, PickFriends(chosen) PROVE PageInv'
  <2>1. nav = OnPicker /\ nav' = OnCreate /\ visit \in 1..MaxVisits /\ visit' = visit
    BY <1>1, <1>11, TopPage, Stacks DEF PickFriends
  <2>2. TypeOK' /\ NavShape'
    <3>1. nav' \in Seq(Pages) /\ nav' # <<>> /\ nav'[1] = "groups"
      BY <2>1, Stacks
    <3>2. offered' \in [1..MaxVisits -> SUBSET Friends]
      BY <1>11 DEF PickFriends, TypeOK
    <3> QED
      BY <1>11, <2>1, <3>1, <3>2 DEF PickFriends, TypeOK, NavShape
  <2>3. Grown /\ VisitsSoFar' /\ PickedHere'
    BY <1>1, <1>11, <2>1 DEF PickFriends, Grown, VisitsSoFar, PickedHere, TypeOK
  <2>4. OwnFriendsInvited'
    BY <1>1a, <1>11, <2>3 DEF PickFriends, OwnFriendsInvited, Grown
  <2>5. RequestsSound'
    BY <1>11, <2>3, KeepsSound DEF PickFriends
  <2> QED
    BY <2>1, <2>2, <2>3, <2>4, <2>5
<1>12. CASE Back
  <2>1. \/ nav = OnCreate /\ nav' = OnList
        \/ nav = OnPicker /\ nav' = OnCreate
    BY <1>12, TopPage DEF Back, NavShape
  <2>2. /\ UNCHANGED <<pageVars, groups, listed, taps, offered, asked, regime>>
        /\ \/ UNCHANGED net
           \/ Len(net) < MaxNet /\ net' = Append(net, ListRequest)
    BY <1>12 DEF Back, HasRoom
  <2>3. net' \in Seq(Requests) /\ Len(net') <= MaxNet /\ RequestsSound'
    <3>1. CASE UNCHANGED net
      BY <1>3, <2>2, <3>1 DEF TypeOK, pageVars
    <3>2. CASE Len(net) < MaxNet /\ net' = Append(net, ListRequest)
      <4>1. PICK r : r = ListRequest
        OBVIOUS
      <4>2. r \in Requests
        BY <4>1, ListRequestTyped
      <4>3. Sound(r)'
        BY <1>1, <2>2, <4>1 DEF ListRequest, Request, Sound, pageVars
      <4>4. Len(net') = Len(net) + 1 /\ net' \in Seq(Requests) /\ RequestsSound'
        BY <1>2, <2>2, <3>2, <4>1, <4>2, <4>3, SentSound DEF pageVars
      <4> QED
        BY <1>1, <3>2, <4>4, GroupConstants
    <3> QED
      BY <2>2, <3>1, <3>2
  <2>4. TypeOK' /\ NavShape' /\ (nav' # OnList => visit' >= 1)
    <3>1. nav' \in Seq(Pages) /\ nav' # <<>> /\ nav'[1] = "groups"
      BY <2>1, Stacks
    <3> QED
      BY <2>1, <2>2, <2>3, <3>1, Stacks DEF pageVars, TypeOK, NavShape
  <2> QED
    BY <1>2, <1>4, <2>2, <2>3, <2>4 DEF pageVars
<1>13. ASSUME NEW i \in 1..Len(net), Serve(i) PROVE PageInv'
  <2>1. PICK r \in Requests : r = net[i]
    BY DEF TypeOK
  <2>2. Sound(r)
    BY <2>1 DEF RequestsSound
  <2>3. /\ r.visit \in 0..MaxVisits /\ r.visit \in Nat /\ r.group \in Nat
        /\ r.title \in Titles /\ r.friends \in SUBSET Friends
    BY RequestFields
  <2>4. UNCHANGED <<nav, pageVars, listed, taps, offered, asked, regime>>
    BY <1>13 DEF Serve
  <2>5. ASSUME NEW q \in Requests, net' = ReplaceAt(net, i, q), Sound(q)', Grown,
               groups' \in Seq(Groups), VisitsSoFar', OwnFriendsInvited'
        PROVE  PageInv'
    <3>1. net' \in Seq(Requests) /\ Len(net') <= MaxNet /\ RequestsSound'
      BY <2>5, ReplacedSound
    <3>2. TypeOK'
      <4>1. listed' \in 0..Len(groups')
        BY <1>1, <2>4, <2>5 DEF TypeOK, Grown
      <4> QED
        BY <2>4, <2>5, <3>1, <4>1 DEF TypeOK, pageVars
    <3> QED
      BY <1>4, <1>5, <2>4, <2>5, <3>1, <3>2 DEF pageVars
  <2>6. CASE /\ r.kind = "list" /\ groups' = groups
             /\ net' = ReplaceAt(net, i, Done(r, Len(groups)))
    <3>1. PICK q \in Requests : q = Done(r, Len(groups))
      BY <1>1, DoneTyped
    <3>2. q.kind = "list" /\ q.visit = r.visit /\ q.group = Len(groups)
      BY <1>1, <2>6, <3>1, DoneTyped
    <3>3. Grown /\ VisitsSoFar' /\ OwnFriendsInvited'
      BY <1>2, <2>4, <2>6 DEF pageVars
    <3>4. Sound(q)'
      BY <1>1, <2>2, <2>4, <2>6, <3>2 DEF Sound, pageVars
    <3>5. groups' \in Seq(Groups)
      BY <2>6 DEF TypeOK
    <3> QED
      BY <2>5, <2>6, <3>1, <3>3, <3>4, <3>5
  <2>7. CASE /\ r.kind = "create"
             /\ groups' = Append(groups, [title |-> r.title, invited |-> {},
                                          visit |-> r.visit])
             /\ net' = ReplaceAt(net, i, Done(r, Len(groups) + 1))
    <3>1. PICK q \in Requests : q = Done(r, Len(groups) + 1)
      <4>1. Len(groups) + 1 \in Nat
        BY <1>1
      <4> QED
        BY <4>1, DoneTyped
    <3>2. q.kind = "create" /\ q.visit = r.visit /\ q.group = Len(groups) + 1
      <4>1. Len(groups) + 1 \in Nat
        BY <1>1
      <4> QED
        BY <2>7, <3>1, <4>1, DoneTyped
    <3>3. PICK made : made = [title |-> r.title, invited |-> {}, visit |-> r.visit]
      OBVIOUS
    <3>4. /\ made \in Groups /\ made.visit = r.visit /\ made.invited = {}
          /\ r.visit >= 1 /\ r.visit <= visit
      BY <1>1, <2>2, <2>3, <2>7, <3>3 DEF Groups, Sound
    <3>5. /\ groups' \in Seq(Groups) /\ Len(groups') = Len(groups) + 1
          /\ \A k \in 1..Len(groups) : groups'[k] = groups[k]
          /\ groups'[Len(groups) + 1] = made
      BY <2>7, <3>3, <3>4 DEF TypeOK
    <3>6. Grown
      BY <1>1, <2>4, <3>5 DEF Grown, pageVars
    <3>7. VisitsSoFar' /\ OwnFriendsInvited'
      <4> SUFFICES ASSUME NEW k \in 1..Len(groups')
                   PROVE  /\ groups'[k].visit <= visit'
                          /\ groups'[k].invited \subseteq offered'[groups'[k].visit]
        BY DEF VisitsSoFar, OwnFriendsInvited
      <4>1. CASE k = Len(groups) + 1
        BY <2>4, <3>4, <3>5, <4>1 DEF pageVars
      <4>2. CASE k \in 1..Len(groups)
        BY <2>4, <3>5, <4>2 DEF pageVars, VisitsSoFar, OwnFriendsInvited
      <4> QED
        BY <1>1, <3>5, <4>1, <4>2
    <3>8. Sound(q)'
      <4>1. q.group \in 1..Len(groups') /\ groups'[q.group].visit = q.visit
        BY <1>1, <3>2, <3>4, <3>5
      <4> QED
        BY <2>4, <3>2, <3>4, <4>1 DEF Sound, pageVars
    <3> QED
      BY <2>5, <2>7, <3>1, <3>5, <3>6, <3>7, <3>8
  <2>8. CASE /\ r.kind = "invite"
             /\ groups' = [groups EXCEPT ![r.group].invited = r.friends]
             /\ net' = ReplaceAt(net, i, Done(r, r.group))
    <3>1. PICK q \in Requests : q = Done(r, r.group)
      BY <2>3, DoneTyped
    <3>2. /\ q.kind = "invite" /\ q.visit = r.visit /\ q.group = r.group
          /\ q.friends = r.friends
      BY <2>3, <2>8, <3>1, DoneTyped
    <3>3. /\ r.group \in 1..Len(groups) /\ groups[r.group].visit = r.visit
          /\ r.friends \subseteq offered[r.visit]
      BY <2>2, <2>8 DEF Sound
    <3>4. PICK g \in Groups : g = groups[r.group]
      BY <3>3 DEF TypeOK
    <3>5. PICK h : h = [g EXCEPT !.invited = r.friends]
      OBVIOUS
    <3>6. h \in Groups /\ h.visit = g.visit /\ h.invited = r.friends
      BY <2>3, <3>5 DEF Groups
    <3>7. groups' = [groups EXCEPT ![r.group] = h]
      BY <2>8, <3>4, <3>5
    <3>8. /\ groups' \in Seq(Groups) /\ Len(groups') = Len(groups)
          /\ \A k \in 1..Len(groups) :
                groups'[k] = IF k = r.group THEN h ELSE groups[k]
      BY <3>3, <3>6, <3>7 DEF TypeOK
    <3>9. \A k \in 1..Len(groups) :
             /\ groups'[k].visit = groups[k].visit
             /\ groups'[k].invited = IF k = r.group THEN r.friends ELSE groups[k].invited
      BY <3>4, <3>6, <3>8
    <3>10. Grown /\ VisitsSoFar' /\ OwnFriendsInvited'
      BY <1>1, <2>4, <3>3, <3>8, <3>9
         DEF Grown, VisitsSoFar, OwnFriendsInvited, pageVars
    <3>11. Sound(q)'
      BY <2>2, <2>4, <2>8, <3>2, <3>3, <3>8, <3>9 DEF Sound, pageVars
    <3> QED
      BY <2>5, <2>8, <3>1, <3>8, <3>10, <3>11
  <2> QED
    BY <1>13, <2>1, <2>6, <2>7, <2>8 DEF Serve, Done
<1>14. ASSUME NEW i \in 1..Len(net), net' = RemoveAt(net, i), groups' = groups,
              UNCHANGED <<pageVars, taps, offered, asked, regime>>,
              listed' \in 0..Len(groups), UNCHANGED nav
       PROVE  PageInv'
  <2>1. Grown /\ VisitsSoFar' /\ OwnFriendsInvited'
    BY <1>2, <1>14 DEF pageVars
  <2>2. net' \in Seq(Requests) /\ Len(net') <= MaxNet /\ RequestsSound'
    BY <1>14, <2>1, RemovedSound
  <2>3. TypeOK'
    BY <1>14, <2>2 DEF TypeOK, pageVars
  <2> QED
    BY <1>4, <1>5, <1>14, <2>1, <2>2, <2>3 DEF pageVars
<1>15. ASSUME NEW i \in 1..Len(net), ListLoaded(i) PROVE PageInv'
  <2>1. net[i] \in Requests /\ Sound(net[i]) /\ net[i].served /\ net[i].kind = "list"
    BY <1>15 DEF ListLoaded, Arrived, TypeOK, RequestsSound
  <2>2. listed' \in 0..Len(groups)
    BY <1>1, <1>15, <2>1 DEF ListLoaded, Sound, Requests
  <2> QED
    BY <1>14, <1>15, <2>2 DEF ListLoaded
<1>16. ASSUME NEW i \in 1..Len(net), CreateAnswered(i) PROVE PageInv'
  <2>1. UNCHANGED <<nav, pageVars, groups, listed, taps, offered, asked, regime>>
    BY <1>16 DEF CreateAnswered
  <2>2. CASE net' = RemoveAt(net, i)
    BY <1>14, <2>1, <2>2 DEF TypeOK
  <2>3. CASE /\ IsOpen(net[i].visit)
             /\ net' = Append(RemoveAt(net, i), Request("invite", Empty, picked, net[i].group))
    <3>1. /\ net[i] \in Requests /\ Sound(net[i]) /\ net[i].served /\ net[i].kind = "create"
          /\ net[i].visit = visit
      BY <1>16, <2>3 DEF CreateAnswered, Arrived, IsOpen, TypeOK, RequestsSound
    <3>2. PICK r : r = Request("invite", Empty, picked, net[i].group)
      OBVIOUS
    <3>3. r \in Requests
      BY <3>1, <3>2, RequestTyped, GroupConstants DEF TypeOK, Requests
    <3>4. Sound(r)'
      BY <1>1, <2>1, <3>1, <3>2 DEF Request, Sound, PickedHere, pageVars
    <3>5. Grown /\ VisitsSoFar' /\ OwnFriendsInvited'
      BY <1>2, <2>1 DEF pageVars
    <3>6. net' \in Seq(Requests) /\ Len(net') <= MaxNet /\ RequestsSound'
      BY <2>3, <3>2, <3>3, <3>4, <3>5, SentOnSound
    <3>7. TypeOK'
      BY <2>1, <3>6 DEF TypeOK, pageVars
    <3> QED
      BY <1>4, <1>5, <2>1, <3>5, <3>6, <3>7 DEF pageVars
  <2> QED
    BY <1>16, <2>2, <2>3 DEF CreateAnswered
<1>17. ASSUME NEW i \in 1..Len(net), InviteAnswered(i) PROVE PageInv'
  <2>1. UNCHANGED <<pageVars, groups, listed, taps, offered, asked, regime>>
    BY <1>17 DEF InviteAnswered
  <2>2. Grown /\ VisitsSoFar' /\ OwnFriendsInvited'
    BY <1>2, <2>1 DEF pageVars
  <2>3. NavShape' /\ (nav' # OnList => visit' >= 1)
    <3>1. CASE IsOpen(net[i].visit)
      BY <1>17, <2>1, <3>1, TopPage, Stacks DEF InviteAnswered, IsOpen, NavShape, pageVars
    <3>2. CASE ~IsOpen(net[i].visit)
      BY <1>5, <1>17, <2>1, <3>2 DEF InviteAnswered, pageVars
    <3> QED
      BY <3>1, <3>2
  <2>4. net' \in Seq(Requests) /\ Len(net') <= MaxNet /\ RequestsSound'
    <3>1. CASE net' = RemoveAt(net, i)
      BY <2>2, <3>1, RemovedSound
    <3>2. CASE net' = Append(RemoveAt(net, i), ListRequest)
      <4>1. PICK r : r = ListRequest
        OBVIOUS
      <4>2. r \in Requests
        BY <4>1, ListRequestTyped
      <4>3. Sound(r)'
        BY <1>1, <2>1, <4>1 DEF ListRequest, Request, Sound, pageVars
      <4> QED
        BY <2>2, <3>2, <4>1, <4>2, <4>3, SentOnSound
    <3> QED
      BY <1>17, <3>1, <3>2 DEF InviteAnswered
  <2>5. TypeOK'
    BY <2>1, <2>3, <2>4, Stacks DEF NavShape, TypeOK, pageVars
  <2> QED
    BY <1>4, <2>1, <2>2, <2>3, <2>4, <2>5 DEF pageVars
<1>18. ASSUME NEW i \in 1..Len(net), Failed(i) PROVE PageInv'
  BY <1>14, <1>18 DEF Failed, TypeOK
<1> QED
  BY <1>6, <1>7, <1>8, <1>9, <1>10, <1>11, <1>12, <1>13, <1>15, <1>16, <1>17, <1>18
     DEF Next, Answers

LEMMA PageInductive == Spec => []PageInv
<1> QED
  BY PageInit, PageStep, PTL DEF Spec

(* The list shown is no longer than the service's, requests carry only what *)
(* the page had, and no more of them are in flight than the bound.          *)
THEOREM TypeCorrect == Spec => []TypeOK
<1>1. PageInv => TypeOK
  BY DEF PageInv
<1> QED
  BY <1>1, PageInductive, PTL

(* Whatever the user and the service do, the friends invited to a group were *)
(* picked on the page that asked for it: an answer whose page is gone invites *)
(* nobody.                                                                    *)
THEOREM FriendsOfPage == Spec => []OwnFriendsInvited
<1>1. PageInv => OwnFriendsInvited
  BY DEF PageInv
<1> QED
  BY <1>1, PageInductive, PTL

-----------------------------------------------------------------------------
(* A user who waits asks for a group with each tap only.                   *)

LEMMA RegimeStays == [Next]_vars => regime' = regime
  BY DEF Next, vars, Answers, OpenCreate, Edit, Throttled, TapCreate, TapAddFriend,
     PickFriends, Back, Serve, ListLoaded, CreateAnswered, InviteAnswered, Failed

LEMMA TapStep ==
    TypeOK /\ TapsSettled /\ OneGroupPerTap /\ [Next]_vars
        => TapsSettled' /\ OneGroupPerTap'
<1> SUFFICES ASSUME TypeOK, TapsSettled, OneGroupPerTap, [Next]_vars, Waits
             PROVE  ~(tapped' /\ pending') /\ Len(asked') <= taps'
  BY RegimeStays DEF TapsSettled, OneGroupPerTap, Waits
<1>1. /\ ~(tapped /\ pending) /\ Len(asked) <= taps /\ taps \in Nat
      /\ asked \in Seq(Titles) /\ Len(asked) \in Nat
  BY DEF TypeOK, TapsSettled, OneGroupPerTap, Waits
<1>2. CASE UNCHANGED <<asked, taps, tapped, pending>>
  BY <1>1, <1>2
<1>3. CASE OpenCreate
  BY <1>1, <1>3 DEF OpenCreate
<1>4. ASSUME NEW t \in Titles, Edit(t) PROVE ~(tapped' /\ pending') /\ Len(asked') <= taps'
  BY <1>1, <1>4 DEF Edit, Waits
<1>5. CASE Throttled
  BY <1>1, <1>5 DEF Throttled
<1>6. CASE TapCreate
  <2>1. ~pending' /\ taps' = taps + 1 /\ title \in Titles /\ CreateGroup(title)
    BY <1>6 DEF TapCreate, TypeOK, Waits
  <2>2. Len(asked') <= Len(asked) + 1
    BY <1>1, <2>1 DEF CreateGroup
  <2> QED
    BY <1>1, <2>1, <2>2
<1> QED
  BY <1>2, <1>3, <1>4, <1>5, <1>6
     DEF Next, vars, pageVars, Answers, TapAddFriend, PickFriends, Back, Serve,
         ListLoaded, CreateAnswered, InviteAnswered, Failed

(* A user who has finished typing creates no more groups than he taps, for   *)
(* any number of pages, failures and overtaken answers.                      *)
THEOREM GroupPerTap == Spec => []OneGroupPerTap
<1>1. Init => TapsSettled /\ OneGroupPerTap
  BY DEF Init, TapsSettled, OneGroupPerTap
<1> QED
  BY <1>1, TapStep, TypeCorrect, PTL DEF Spec

-----------------------------------------------------------------------------
(* The one request of the page that asks, and the page itself.             *)

(* The service changes one request, and not what it is about. *)
LEMMA Served ==
    ASSUME PageInv, NEW i \in 1..Len(net), Serve(i)
    PROVE  /\ UNCHANGED <<nav, visit, listed, regime>> /\ Len(net') = Len(net)
           /\ \A j \in 1..Len(net) : net'[j].kind = net[j].kind /\ net'[j].visit = net[j].visit
           /\ \A j \in 1..Len(net) : j # i => net'[j] = net[j]
           /\ ~net[i].served /\ net'[i].served
           /\ net[i].kind = "list" => groups' = groups /\ net'[i].group = Len(groups)
           /\ net[i].kind = "invite" =>
                 /\ Len(groups') = Len(groups)
                 /\ \A k \in 1..Len(groups) : groups'[k].visit = groups[k].visit
           /\ net[i].kind = "create" =>
                 /\ Len(groups') = Len(groups) + 1
                 /\ \A k \in 1..Len(groups) : groups'[k] = groups[k]
                 /\ groups'[Len(groups) + 1].visit = net[i].visit
<1> USE DEF PageInv
<1>1. PICK r \in Requests : r = net[i]
  BY DEF TypeOK
<1>2. r.group \in Nat /\ Len(groups) \in Nat /\ Len(groups) + 1 \in Nat
  <2>1. Len(groups) \in Nat
    BY DEF TypeOK
  <2> QED
    BY <2>1, RequestFields
<1>3. UNCHANGED <<nav, visit, listed, regime>> /\ ~r.served
  BY <1>1 DEF Serve, pageVars
<1>4. PICK group \in Nat :
        /\ net' = ReplaceAt(net, i, Done(r, group))
        /\ \/ r.kind = "list" /\ groups' = groups /\ group = Len(groups)
           \/ /\ r.kind = "create"
              /\ groups' = Append(groups, [title |-> r.title, invited |-> {},
                                           visit |-> r.visit])
           \/ r.kind = "invite" /\ groups' = [groups EXCEPT ![r.group].invited = r.friends]
  BY <1>1, <1>2 DEF Serve, Done
<1>5. PICK q \in Requests : q = Done(r, group)
  BY DoneTyped
<1>6. q.kind = r.kind /\ q.visit = r.visit /\ q.group = group /\ q.served
  BY <1>5, DoneTyped DEF Done, Requests
<1>7. /\ Len(net') = Len(net) /\ net'[i] = q
      /\ \A j \in 1..Len(net) : j # i => net'[j] = net[j]
  BY <1>4, <1>5 DEF TypeOK, ReplaceAt
<1>8. CASE r.kind = "list"
  BY <1>1, <1>3, <1>4, <1>6, <1>7, <1>8
<1>9. CASE r.kind = "create"
  <2>1. PICK made : made = [title |-> r.title, invited |-> {}, visit |-> r.visit]
    OBVIOUS
  <2>2. made.visit = r.visit /\ groups' = Append(groups, made)
    BY <1>4, <1>9, <2>1
  <2>3. /\ Len(groups') = Len(groups) + 1 /\ groups'[Len(groups) + 1] = made
        /\ \A k \in 1..Len(groups) : groups'[k] = groups[k]
    BY <2>2 DEF TypeOK
  <2> QED
    BY <1>1, <1>3, <1>6, <1>7, <1>9, <2>2, <2>3
<1>10. CASE r.kind = "invite"
  <2>1. groups' = [groups EXCEPT ![r.group].invited = r.friends]
    BY <1>4, <1>10
  <2>2. /\ Len(groups') = Len(groups)
        /\ \A k \in 1..Len(groups) : groups'[k].visit = groups[k].visit
    <3>1. r.group \in 1..Len(groups)
      BY <1>1, <1>10 DEF RequestsSound, Sound
    <3>2. PICK g \in Groups : g = groups[r.group]
      BY <3>1 DEF TypeOK
    <3>3. PICK h : h = [g EXCEPT !.invited = r.friends]
      OBVIOUS
    <3>4. h.visit = g.visit /\ groups' = [groups EXCEPT ![r.group] = h]
      BY <2>1, <3>2, <3>3 DEF Groups
    <3> QED
      BY <3>1, <3>2, <3>4 DEF TypeOK
  <2> QED
    BY <1>1, <1>3, <1>6, <1>7, <1>10, <2>2
<1> QED
  BY <1>8, <1>9, <1>10 DEF Requests

LEMMA NoneAsking ==
    ASSUME OneRequest, Waits, ~Asking \/ nav # OnCreate
    PROVE  \A i \in 1..Len(net) : ~IsAsking(i)
  BY DEF OneRequest, Asking, IsAsking

LEMMA OneRequestStep == PageInv /\ TapsSettled /\ OneRequest /\ [Next]_vars => OneRequest'
<1> SUFFICES ASSUME PageInv, TapsSettled, OneRequest, [Next]_vars, Waits PROVE OneRequest'
  BY RegimeStays DEF OneRequest, Waits
<1>1. /\ TypeOK /\ NavShape /\ Len(net) \in Nat
  BY DEF PageInv, TypeOK
<1>2. ASSUME \A i \in 1..Len(net') : net'[i].kind = "list" PROVE OneRequest'
  BY <1>2 DEF OneRequest, IsAsking
<1>3. ASSUME UNCHANGED net, \A i \in 1..Len(net) : ~IsAsking(i) PROVE OneRequest'
  BY <1>3 DEF OneRequest, IsAsking
<1>4. ASSUME UNCHANGED <<net, nav, visit>> PROVE OneRequest'
  BY <1>4, RegimeStays DEF OneRequest, IsAsking, Waits
<1>5. CASE OpenCreate \/ TapAddFriend \/ \E chosen \in SUBSET Friends : PickFriends(chosen)
  <2>1. UNCHANGED net /\ (nav # OnCreate \/ ~Asking)
    BY <1>1, <1>5, TopPage, Stacks DEF OpenCreate, TapAddFriend, PickFriends, Waits
  <2> QED
    BY <1>3, <2>1, NoneAsking
<1>6. CASE Throttled
  BY <1>4, <1>6 DEF Throttled, TapsSettled
<1>7. CASE TapCreate
  <2>1. /\ nav = OnCreate /\ UNCHANGED <<nav, visit>>
        /\ \A i \in 1..Len(net) : ~IsAsking(i)
    BY <1>1, <1>7, TopPage, NoneAsking DEF TapCreate, Waits
  <2>2. CASE UNCHANGED net
    BY <1>3, <2>1, <2>2
  <2>3. CASE net' = Append(net, Request("create", title, {}, 0))
    <3>1. PICK r \in Requests : r = Request("create", title, {}, 0)
      BY <1>1, RequestTyped DEF TypeOK
    <3>2. /\ Len(net') = Len(net) + 1 /\ net'[Len(net) + 1] = r
          /\ \A i \in 1..Len(net) : net'[i] = net[i]
      BY <1>1, <2>3, <3>1, Sent
    <3>3. r.visit = visit
      BY <3>1 DEF Request
    <3> QED
      BY <1>1, <2>1, <3>2, <3>3 DEF OneRequest, IsAsking
  <2> QED
    BY <1>7, <2>2, <2>3 DEF TapCreate, CreateGroup
<1>8. CASE Back
  <2>1. \A i \in 1..Len(net) : ~IsAsking(i)
    BY <1>8, NoneAsking DEF Back, Waits
  <2>2. CASE UNCHANGED net
    BY <1>3, <2>1, <2>2
  <2>3. CASE net' = Append(net, ListRequest)
    <3>1. PICK r \in Requests : r = ListRequest
      BY <1>1, ListRequestTyped
    <3>2. /\ Len(net') = Len(net) + 1 /\ net'[Len(net) + 1] = r
          /\ \A i \in 1..Len(net) : net'[i] = net[i]
      BY <1>1, <2>3, <3>1, Sent
    <3>3. r.kind = "list"
      BY <3>1 DEF ListRequest, Request
    <3> QED
      BY <1>1, <1>2, <2>1, <3>2, <3>3 DEF IsAsking
  <2> QED
    BY <1>8, <2>2, <2>3 DEF Back
<1>9. ASSUME NEW i \in 1..Len(net), Serve(i) PROVE OneRequest'
  <2>1. /\ UNCHANGED <<nav, visit>> /\ Len(net') = Len(net)
        /\ \A j \in 1..Len(net) : net'[j].kind = net[j].kind /\ net'[j].visit = net[j].visit
    BY <1>9, Served
  <2> QED
    BY <2>1, RegimeStays DEF OneRequest, IsAsking, Waits
<1>10. ASSUME NEW i \in 1..Len(net), net' = RemoveAt(net, i), UNCHANGED <<nav, visit>>
       PROVE  OneRequest'
  <2>1. /\ Len(net') = Len(net) - 1
        /\ \A j \in 1..(Len(net) - 1) :
              Was(i, j) \in 1..Len(net) /\ net'[j] = net[Was(i, j)]
        /\ \A j, k \in 1..(Len(net) - 1) : Was(i, j) = Was(i, k) => j = k
    <3>1. \A j, k \in 1..(Len(net) - 1) : Was(i, j) = Was(i, k) => j = k
      BY <1>1 DEF Was
    <3> QED
      BY <1>1, <1>10, <3>1, Remaining
  <2> QED
    BY <1>10, <2>1 DEF OneRequest, IsAsking
<1>11. ASSUME NEW i \in 1..Len(net), CreateAnswered(i) \/ InviteAnswered(i)
       PROVE  OneRequest'
  <2>1. /\ IsAsking(i) /\ nav = OnCreate /\ net[i].visit = visit /\ IsOpen(net[i].visit)
        /\ \A j \in 1..Len(net) : j # i => ~IsAsking(j)
    BY <1>1, <1>11, Stacks
       DEF OneRequest, IsAsking, CreateAnswered, InviteAnswered, Arrived, IsOpen
  <2>2. ASSUME NEW r \in Requests, net' = Append(RemoveAt(net, i), r)
        PROVE  /\ Len(net') = Len(net) /\ net'[Len(net)] = r
               /\ \A j \in 1..(Len(net) - 1) : net'[j].kind = "list"
    <3>1. /\ Len(net') = Len(net) /\ net'[Len(net)] = r
          /\ \A j \in 1..(Len(net) - 1) : net'[j] = net[Was(i, j)]
      BY <1>1, <2>2, SentOn
    <3>2. \A j \in 1..(Len(net) - 1) : Was(i, j) \in 1..Len(net) /\ Was(i, j) # i
      BY <1>1, Remaining
    <3> QED
      BY <2>1, <3>1, <3>2 DEF IsAsking
  <2>3. CASE CreateAnswered(i)
    <3>1. PICK r : r = Request("invite", Empty, picked, net[i].group)
      OBVIOUS
    <3>2. net[i].group \in Nat
      <4>1. net[i] \in Requests
        BY <1>1 DEF TypeOK
      <4> QED
        BY <4>1, RequestFields
    <3>3. r \in Requests /\ r.visit = visit
      BY <1>1, <3>1, <3>2, RequestTyped, GroupConstants DEF TypeOK, Request
    <3>4. net' = Append(RemoveAt(net, i), r) /\ UNCHANGED <<nav, visit>>
      BY <2>1, <2>3, <3>1 DEF CreateAnswered, pageVars
    <3>5. /\ Len(net') = Len(net) /\ net'[Len(net)] = r
          /\ \A j \in 1..(Len(net) - 1) : net'[j].kind = "list"
      BY <2>2, <3>3, <3>4
    <3> QED
      BY <1>1, <2>1, <3>3, <3>4, <3>5 DEF OneRequest, IsAsking
  <2>4. CASE InviteAnswered(i)
    <3>1. PICK r \in Requests : r = ListRequest
      BY <1>1, ListRequestTyped
    <3>2. net' = Append(RemoveAt(net, i), r)
      BY <1>1, <2>1, <2>4, <3>1, TopPage DEF InviteAnswered
    <3>3. r.kind = "list"
      BY <3>1 DEF ListRequest, Request
    <3> QED
      BY <1>1, <1>2, <2>2, <3>2, <3>3
  <2> QED
    BY <1>11, <2>3, <2>4
<1> QED
  BY <1>4, <1>5, <1>6, <1>7, <1>8, <1>9, <1>10, <1>11
     DEF Next, vars, pageVars, Answers, Edit, ListLoaded, Failed

LEMMA OneRequestInductive == Spec => [](PageInv /\ TapsSettled /\ OneRequest)
<1>1. Init => TapsSettled /\ OneRequest
  <2> SUFFICES ASSUME Init PROVE TapsSettled /\ OneRequest
    OBVIOUS
  <2>1. PICK r : r = ListRequest
    OBVIOUS
  <2>2. net = <<r, r>> /\ r.kind = "list"
    BY <2>1 DEF Init, ListRequest, Request
  <2> QED
    BY <2>2 DEF Init, TapsSettled, OneRequest, IsAsking
<1>2. PageInv /\ OneGroupPerTap /\ TapsSettled /\ OneRequest /\ [Next]_vars
        => TapsSettled' /\ OneRequest'
  BY TapStep, OneRequestStep DEF PageInv
<1> QED
  BY <1>1, <1>2, PageInductive, GroupPerTap, PTL DEF Spec

(* A page that waits for its group or its invitation is on top, so the pop   *)
(* after the invitation closes this page and no other.                       *)
THEOREM AskingOnTop == Spec => []AskingPageOnTop
<1>1. PageInv /\ OneRequest => AskingPageOnTop
  BY TopPage DEF PageInv, OneRequest, AskingPageOnTop, Asking, IsAsking, Waits
<1> QED
  BY <1>1, OneRequestInductive, PTL

-----------------------------------------------------------------------------
(* One group for each visit of the page.                                   *)

LEMMA VisitStep ==
    PageInv /\ TapsSettled /\ OneRequest /\ InvitationToCome /\ OneGroupPerVisit
        /\ [Next]_vars
        => InvitationToCome' /\ OneGroupPerVisit'
<1> SUFFICES ASSUME PageInv, TapsSettled, OneRequest, InvitationToCome, OneGroupPerVisit,
                    [Next]_vars, Waits, regime.lossless
             PROVE  InvitationToCome' /\ OneGroupPerVisit'
  BY RegimeStays DEF InvitationToCome, OneGroupPerVisit, Waits
<1> DEFINE Coming(i) == net[i].kind = "invite" \/ (net[i].kind = "create" /\ net[i].served)
<1>1. /\ TypeOK /\ NavShape /\ Len(net) \in Nat /\ Len(groups) \in Nat /\ visit \in Nat
      /\ Waits' /\ regime'.lossless
  BY RegimeStays, GroupConstants DEF PageInv, TypeOK, Waits
<1>2. ASSUME UNCHANGED groups PROVE OneGroupPerVisit'
  BY <1>2, RegimeStays DEF OneGroupPerVisit
<1>3. ASSUME nav' = OnList PROVE InvitationToCome'
  BY <1>3 DEF InvitationToCome
<1>4. ASSUME nav # OnList, UNCHANGED <<groups, visit>>,
             \A i \in 1..Len(net) : Coming(i) =>
                 \E j \in 1..Len(net') : net'[j].kind = "invite"
                                         \/ (net'[j].kind = "create" /\ net'[j].served)
      PROVE  InvitationToCome'
  BY <1>1, <1>4 DEF InvitationToCome
<1>5. ASSUME nav # OnList, UNCHANGED <<groups, visit, net>> PROVE InvitationToCome'
  BY <1>4, <1>5
<1>6. ASSUME UNCHANGED <<nav, groups, visit, net>> PROVE InvitationToCome'
  BY <1>3, <1>5, <1>6 DEF NavShape
<1>7. CASE OpenCreate
  <2>1. UNCHANGED groups /\ visit' = visit + 1
    BY <1>7 DEF OpenCreate
  <2>2. \A k \in 1..Len(groups) : groups[k].visit <= visit
    BY DEF PageInv, VisitsSoFar
  <2>3. \A k \in 1..Len(groups) : groups[k].visit \in Nat
    <3>1. \A k \in 1..Len(groups) : groups[k] \in Groups
      BY <1>1 DEF TypeOK
    <3> QED
      BY <3>1 DEF Groups
  <2> QED
    BY <1>1, <1>2, <2>1, <2>2, <2>3 DEF InvitationToCome
<1>8. CASE Throttled
  BY <1>2, <1>6, <1>8 DEF Throttled, TapsSettled
<1>9. CASE TapCreate
  <2>1. /\ nav = OnCreate /\ UNCHANGED <<nav, visit, groups>>
        /\ \A i \in 1..Len(net) : ~IsAsking(i)
    BY <1>1, <1>9, TopPage, NoneAsking DEF TapCreate, Waits
  <2>2. \A k \in 1..Len(groups) : groups[k].visit # visit
    BY <2>1, Stacks DEF InvitationToCome, IsAsking
  <2> QED
    BY <1>2, <2>1, <2>2 DEF InvitationToCome
<1>10. CASE TapAddFriend \/ \E chosen \in SUBSET Friends : PickFriends(chosen)
  <2>1. nav # OnList
    BY <1>1, <1>10, TopPage, Stacks DEF TapAddFriend, PickFriends
  <2>2. UNCHANGED <<groups, visit, net>>
    BY <1>10 DEF TapAddFriend, PickFriends, pageVars
  <2> QED
    BY <1>2, <1>5, <2>1, <2>2
<1>11. CASE Back
  <2>1. UNCHANGED <<groups, visit>> /\ nav' = Front(nav) /\ nav # OnList
    BY <1>1, <1>11, TopPage DEF Back, pageVars
  <2>2. CASE nav = OnCreate
    BY <1>2, <1>3, <2>1, <2>2, Stacks
  <2>3. CASE nav = OnPicker
    <3>1. UNCHANGED net
      BY <1>1, <1>11, <2>3, TopPage, Stacks DEF Back
    <3> QED
      BY <1>2, <1>5, <2>1, <3>1
  <2> QED
    BY <1>1, <2>1, <2>2, <2>3 DEF NavShape
<1>12. ASSUME NEW i \in 1..Len(net), Serve(i) PROVE InvitationToCome' /\ OneGroupPerVisit'
  <2>1. /\ UNCHANGED <<nav, visit, regime>> /\ Len(net') = Len(net)
        /\ \A j \in 1..Len(net) : net'[j].kind = net[j].kind
        /\ \A j \in 1..Len(net) : j # i => net'[j] = net[j]
        /\ ~net[i].served /\ net'[i].served
    BY <1>12, Served
  <2>2. net[i].kind \in {"list", "create", "invite"}
    <3>1. net[i] \in Requests
      BY <1>1 DEF TypeOK
    <3> QED
      BY <3>1 DEF Requests
  <2>3. CASE net[i].kind = "list"
    <3>1. groups' = groups
      BY <1>12, <2>3, Served
    <3>2. \A j \in 1..Len(net) : Coming(j) =>
             net'[j].kind = "invite" \/ (net'[j].kind = "create" /\ net'[j].served)
      BY <2>1, <2>3
    <3> QED
      BY <1>2, <1>3, <1>4, <2>1, <3>1, <3>2 DEF NavShape
  <2>4. CASE net[i].kind = "invite"
    <3>1. /\ Len(groups') = Len(groups)
          /\ \A k \in 1..Len(groups) : groups'[k].visit = groups[k].visit
      BY <1>12, <2>4, Served
    <3>2. OneGroupPerVisit'
      BY <1>1, <3>1 DEF OneGroupPerVisit, Waits
    <3>3. InvitationToCome'
      BY <2>1, <2>4 DEF InvitationToCome
    <3> QED
      BY <3>2, <3>3
  <2>5. CASE net[i].kind = "create"
    <3>1. /\ Len(groups') = Len(groups) + 1
          /\ \A k \in 1..Len(groups) : groups'[k] = groups[k]
          /\ groups'[Len(groups) + 1].visit = net[i].visit
      BY <1>12, <2>5, Served
    <3>2. /\ nav = OnCreate /\ net[i].visit = visit
          /\ \A j \in 1..Len(net) : IsAsking(j) => j = i
      BY <2>5 DEF OneRequest, IsAsking
    <3>3. \A k \in 1..Len(groups) : groups[k].visit # visit
      BY <2>1, <2>5, <3>2, Stacks DEF InvitationToCome, IsAsking
    <3>4. OneGroupPerVisit'
      BY <1>1, <3>1, <3>2, <3>3 DEF OneGroupPerVisit, Waits
    <3>5. InvitationToCome'
      BY <2>1, <2>5 DEF InvitationToCome
    <3> QED
      BY <3>4, <3>5
  <2> QED
    BY <2>2, <2>3, <2>4, <2>5
<1>13. ASSUME NEW i \in 1..Len(net), ListLoaded(i)
       PROVE  InvitationToCome' /\ OneGroupPerVisit'
  <2>1. /\ net' = RemoveAt(net, i) /\ UNCHANGED <<nav, visit, groups>>
        /\ net[i].kind = "list"
    BY <1>13 DEF ListLoaded, Arrived, pageVars
  <2>2. ASSUME NEW k \in 1..Len(net), Coming(k)
        PROVE  \E j \in 1..Len(net') : net'[j].kind = "invite"
                                       \/ (net'[j].kind = "create" /\ net'[j].served)
    <3>1. k # i
      BY <2>1, <2>2
    <3>2. PICK j \in 1..(Len(net) - 1) : Was(i, j) = k
      BY <1>1, <3>1, Remaining
    <3>3. j \in 1..Len(net') /\ net'[j] = net[k]
      BY <1>1, <2>1, <3>2, Remaining
    <3> QED
      BY <2>2, <3>3
  <2> QED
    BY <1>2, <1>3, <1>4, <2>1, <2>2 DEF NavShape
<1>14. ASSUME NEW i \in 1..Len(net), CreateAnswered(i)
       PROVE  InvitationToCome' /\ OneGroupPerVisit'
  <2>1. /\ nav = OnCreate /\ IsOpen(net[i].visit)
        /\ UNCHANGED <<nav, visit, groups>>
    BY <1>1, <1>14, Stacks
       DEF OneRequest, IsAsking, CreateAnswered, Arrived, IsOpen, pageVars
  <2>2. PICK r : r = Request("invite", Empty, picked, net[i].group)
    OBVIOUS
  <2>3. net[i].group \in Nat
    <3>1. net[i] \in Requests
      BY <1>1 DEF TypeOK
    <3> QED
      BY <3>1, RequestFields
  <2>4. r \in Requests /\ r.kind = "invite"
    BY <1>1, <2>2, <2>3, RequestTyped, GroupConstants DEF TypeOK, Request
  <2>5. Len(net') = Len(net) /\ net'[Len(net)] = r
    BY <1>1, <1>14, <2>1, <2>2, <2>4, SentOn DEF CreateAnswered
  <2> QED
    BY <1>1, <1>2, <2>1, <2>4, <2>5 DEF InvitationToCome
<1>15. ASSUME NEW i \in 1..Len(net), InviteAnswered(i)
       PROVE  InvitationToCome' /\ OneGroupPerVisit'
  <2>1. /\ nav = OnCreate /\ IsOpen(net[i].visit)
    BY <1>1, <1>15, Stacks DEF OneRequest, IsAsking, InviteAnswered, Arrived, IsOpen
  <2>2. nav' = OnList /\ UNCHANGED groups
    BY <1>1, <1>15, <2>1, TopPage DEF InviteAnswered
  <2> QED
    BY <1>2, <1>3, <2>2
<1> QED
  BY <1>2, <1>6, <1>7, <1>8, <1>9, <1>10, <1>11, <1>12, <1>13, <1>14, <1>15
     DEF Next, vars, pageVars, Answers, Edit, Failed

(* A user who waits gets at most one group from a visit of the page, on a    *)
(* network that loses nothing: when his button can be tapped again, the page *)
(* has made no group yet.                                                    *)
THEOREM GroupPerVisit == Spec => []OneGroupPerVisit
<1>1. Init => InvitationToCome /\ OneGroupPerVisit
  BY DEF Init, InvitationToCome, OneGroupPerVisit
<1> QED
  BY <1>1, VisitStep, OneRequestInductive, PTL DEF Spec

-----------------------------------------------------------------------------
(* The list, once nothing is in flight.                                    *)

\* A load that was just asked for is the last one, and not served.
LEMMA NewLoadLast ==
    ASSUME PageInv, NEW n \in Nat, Len(net') = n + 1, net'[n + 1] = ListRequest
    PROVE  LastLoadShowsAll'
<1>1. ListRequest.kind = "list" /\ ~ListRequest.served
  BY DEF ListRequest, Request
<1>2. PICK r : r = ListRequest
  OBVIOUS
<1>3. r.kind = "list" /\ ~r.served /\ net'[n + 1] = r
  BY <1>1, <1>2
<1>4. ASSUME NEW i \in 1..(n + 1), net'[i].kind = "list",
             \A j \in (i + 1)..(n + 1) : net'[j].kind # "list"
      PROVE  ~net'[i].served
  BY <1>3, <1>4
<1>5. n + 1 \in 1..(n + 1)
  OBVIOUS
<1> QED
  BY <1>3, <1>4, <1>5 DEF LastLoadShowsAll, LastLoad, IsAsking

LEMMA LoadStep == PageInv /\ OneRequest /\ LastLoadShowsAll /\ [Next]_vars
                    => LastLoadShowsAll'
<1> SUFFICES ASSUME PageInv, OneRequest, LastLoadShowsAll, [Next]_vars,
                    Waits, regime.inOrder, regime.lossless, nav' = OnList
             PROVE  LastLoadShowsAll'
  BY RegimeStays DEF LastLoadShowsAll, Waits
<1>1. TypeOK /\ NavShape /\ Len(net) \in Nat
  BY DEF PageInv, TypeOK
<1>2. CASE UNCHANGED <<nav, net, groups, listed, regime>>
  BY <1>2 DEF LastLoadShowsAll, LastLoad, IsAsking, Waits
<1>3. CASE OpenCreate \/ Throttled \/ TapCreate \/ TapAddFriend
           \/ \E chosen \in SUBSET Friends : PickFriends(chosen)
  <2>1. CASE OpenCreate
    BY <1>1, <2>1, TopPage, Stacks DEF OpenCreate
  <2>2. CASE Throttled
    BY <1>1, <2>2, TopPage DEF Throttled
  <2>3. CASE TapCreate
    BY <1>1, <2>3, TopPage, Stacks DEF TapCreate
  <2>4. CASE TapAddFriend
    BY <1>1, <2>4, TopPage, Stacks DEF TapAddFriend
  <2>5. ASSUME NEW chosen \in SUBSET Friends, PickFriends(chosen) PROVE FALSE
    BY <1>1, <2>5, TopPage, Stacks DEF PickFriends
  <2> QED
    BY <1>3, <2>1, <2>2, <2>3, <2>4, <2>5
<1>4. CASE Back
  <2>1. nav = OnCreate
    BY <1>1, <1>4, TopPage, Stacks DEF Back, NavShape
  <2>2. net' = Append(net, ListRequest)
    BY <1>1, <1>4, <2>1, TopPage DEF Back
  <2>3. Len(net') = Len(net) + 1 /\ net'[Len(net) + 1] = ListRequest
    BY <1>1, <2>2, Sent, ListRequestTyped
  <2> QED
    BY <1>1, <2>3, NewLoadLast
<1>5. ASSUME NEW i \in 1..Len(net), Serve(i) PROVE LastLoadShowsAll'
  <2>1. /\ UNCHANGED <<nav, visit, listed, regime>> /\ Len(net') = Len(net)
        /\ \A j \in 1..Len(net) : net'[j].kind = net[j].kind
        /\ \A j \in 1..Len(net) : j # i => net'[j] = net[j]
        /\ net[i].kind = "list" => groups' = groups /\ net'[i].group = Len(groups)
    BY <1>5, Served
  <2>2. nav = OnList /\ net[i].kind = "list"
    BY <2>1, Stacks DEF OneRequest, IsAsking
  <2>3. /\ groups' = groups /\ net'[i].group = Len(groups)
        /\ ~\A j \in 1..Len(net) : IsAsking(j)
    BY <2>1, <2>2 DEF IsAsking
  <2> QED
    BY <2>1, <2>2, <2>3 DEF LastLoadShowsAll, LastLoad, IsAsking, Waits
<1>6. ASSUME NEW i \in 1..Len(net), ListLoaded(i) PROVE LastLoadShowsAll'
  <2>1. /\ net' = RemoveAt(net, i) /\ UNCHANGED <<nav, groups, regime>>
        /\ net[i].served /\ net[i].kind = "list" /\ listed' = net[i].group
        /\ \A j \in 1..(i - 1) : net[j].kind # "list"
    BY <1>6 DEF ListLoaded, Arrived, OldestOfKind
  <2>2. /\ Len(net') = Len(net) - 1
        /\ \A j \in 1..(Len(net) - 1) :
              Was(i, j) \in 1..Len(net) /\ Was(i, j) # i /\ net'[j] = net[Was(i, j)]
        /\ \A k \in 1..Len(net) : k # i => \E j \in 1..(Len(net) - 1) : Was(i, j) = k
        /\ \A j, k \in 1..(Len(net) - 1) : j < k => Was(i, j) < Was(i, k)
    BY <1>1, <2>1, Remaining
  <2>3. ASSUME NEW j \in 1..Len(net'), LastLoad(j)', net'[j].served
        PROVE  net'[j].group = Len(groups')
    <3>1. /\ j \in 1..(Len(net) - 1) /\ Was(i, j) \in 1..Len(net)
          /\ net'[j] = net[Was(i, j)] /\ net'[j].kind = "list"
      BY <1>1, <2>2, <2>3 DEF LastLoad
    <3>2. Was(i, j) > i
      BY <1>1, <2>1, <2>2, <3>1 DEF Was
    <3>3. ASSUME NEW k \in (Was(i, j) + 1)..Len(net) PROVE net[k].kind # "list"
      <4>1. k - 1 \in (j + 1)..Len(net') /\ Was(i, k - 1) = k
        BY <1>1, <2>2, <3>1, <3>2, <3>3 DEF Was
      <4>2. k - 1 \in 1..(Len(net) - 1)
        BY <1>1, <2>2, <3>1, <4>1
      <4>3. net'[k - 1] = net[k] /\ net'[k - 1].kind # "list"
        BY <2>2, <2>3, <4>1, <4>2 DEF LastLoad
      <4> QED
        BY <4>3
    <3>4. LastLoad(Was(i, j)) /\ net[Was(i, j)].served
      BY <2>3, <3>1, <3>3 DEF LastLoad
    <3> QED
      BY <2>1, <3>1, <3>4 DEF LastLoadShowsAll
  <2>4. ASSUME \A j \in 1..Len(net') : net'[j].kind # "list"
        PROVE  listed' = Len(groups')
    <3>1. ASSUME NEW k \in (i + 1)..Len(net) PROVE net[k].kind # "list"
      <4>1. k \in 1..Len(net) /\ k # i
        BY <1>1, <3>1
      <4>2. PICK j \in 1..(Len(net) - 1) : Was(i, j) = k
        BY <2>2, <4>1
      <4> QED
        BY <1>1, <2>2, <2>4, <4>2
    <3>2. LastLoad(i)
      BY <2>1, <3>1 DEF LastLoad
    <3> QED
      BY <2>1, <3>2 DEF LastLoadShowsAll
  <2> QED
    BY <2>3, <2>4 DEF LastLoadShowsAll, IsAsking
<1>7. ASSUME NEW i \in 1..Len(net), CreateAnswered(i) \/ InviteAnswered(i)
      PROVE  LastLoadShowsAll'
  <2>1. nav = OnCreate /\ IsOpen(net[i].visit)
    BY <1>1, <1>7, Stacks
       DEF OneRequest, IsAsking, CreateAnswered, InviteAnswered, Arrived, IsOpen
  <2>2. CASE CreateAnswered(i)
    BY <2>1, <2>2, Stacks DEF CreateAnswered
  <2>3. CASE InviteAnswered(i)
    <3>1. net' = Append(RemoveAt(net, i), ListRequest)
      BY <1>1, <2>1, <2>3, TopPage DEF InviteAnswered
    <3>2. Len(net') = Len(net) /\ net'[Len(net)] = ListRequest
      BY <1>1, <3>1, SentOn, ListRequestTyped
    <3>3. Len(net) - 1 \in Nat /\ (Len(net) - 1) + 1 = Len(net)
      BY <1>1
    <3> QED
      BY <3>2, <3>3, NewLoadLast
  <2> QED
    BY <1>7, <2>2, <2>3
<1> QED
  BY <1>2, <1>3, <1>4, <1>5, <1>6, <1>7
     DEF Next, vars, pageVars, Answers, Edit, Failed

(* With answers in order and none lost, a user who waits and has the list    *)
(* before him sees every group, once all loads are answered: the last load   *)
(* was asked for after the last group was made.                              *)
THEOREM ListSettles == Spec => []SettledListShowsAll
<1>1. Init => LastLoadShowsAll
  <2> SUFFICES ASSUME Init PROVE LastLoadShowsAll
    OBVIOUS
  <2>1. PICK r : r = ListRequest
    OBVIOUS
  <2>2. r.kind = "list" /\ ~r.served /\ net = <<r, r>>
    BY <2>1 DEF Init, ListRequest, Request
  <2> QED
    BY <2>2 DEF LastLoadShowsAll, LastLoad, IsAsking
<1>2. PageInv /\ LastLoadShowsAll => SettledListShowsAll
  <2> SUFFICES ASSUME PageInv, LastLoadShowsAll, Waits, regime.inOrder, regime.lossless,
                      net = <<>>, Top = "groups"
               PROVE  listed = Len(groups)
    BY DEF SettledListShowsAll, Waits
  <2>1. nav = OnList
    BY TopPage DEF PageInv
  <2> QED
    BY <2>1 DEF LastLoadShowsAll
<1> QED
  BY <1>1, <1>2, LoadStep, OneRequestInductive, PTL DEF Spec
=============================================================================
