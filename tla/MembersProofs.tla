---------------------------- MODULE MembersProofs ----------------------------
(***************************************************************************)
(* Proofs about Members for every value of its constants.                  *)
(***************************************************************************)
EXTENDS Members, SequenceTheorems, TLAPS

(* What the service takes out of the requests in flight. *)
LEMMA Removed ==
    ASSUME NEW S, NEW s \in Seq(S), NEW i \in 1..Len(s)
    PROVE  /\ RemoveAt(s, i) \in Seq(S)
           /\ Len(s) \in Nat
           /\ Len(RemoveAt(s, i)) = Len(s) - 1
           /\ \A j \in 1..(Len(s) - 1) :
                RemoveAt(s, i)[j] = IF j < i THEN s[j] ELSE s[j + 1]
<1> DEFINE front == SubSeq(s, 1, i - 1)
           back  == SubSeq(s, i + 1, Len(s))
<1>1. Len(s) \in Nat /\ i \in Nat /\ 1 <= i /\ i <= Len(s)
  OBVIOUS
<1>2. /\ front \in Seq(S) /\ Len(front) = i - 1
      /\ \A j \in 1..(i - 1) : front[j] = s[j]
  <2>1. 1 \in Int /\ i - 1 \in Int /\ \A j \in 1..(i - 1) : s[j] \in S
    BY <1>1
  <2> QED
    BY <1>1, <2>1, SubSeqProperties
<1>3. /\ back \in Seq(S) /\ Len(back) = Len(s) - i
      /\ \A j \in 1..(Len(s) - i) : back[j] = s[j + i]
  <2>1. i + 1 \in Int /\ Len(s) \in Int /\ \A j \in (i + 1)..Len(s) : s[j] \in S
    BY <1>1
  <2> QED
    BY <1>1, <2>1, SubSeqProperties
<1>4. RemoveAt(s, i) = front \o back
  BY DEF RemoveAt
<1> HIDE DEF front, back
<1>5. /\ front \o back \in Seq(S)
      /\ Len(front \o back) = (i - 1) + (Len(s) - i)
      /\ \A j \in 1..((i - 1) + (Len(s) - i)) :
            (front \o back)[j] = IF j <= i - 1 THEN front[j] ELSE back[j - (i - 1)]
  <2>1. /\ front \o back \in Seq(S) /\ Len(front \o back) = Len(front) + Len(back)
        /\ \A j \in 1..(Len(front) + Len(back)) :
            (front \o back)[j] = IF j <= Len(front) THEN front[j] ELSE back[j - Len(front)]
    BY <1>2, <1>3, ConcatProperties
  <2> QED
    BY <1>2, <1>3, <2>1
<1>6. ASSUME NEW j \in 1..(Len(s) - 1)
      PROVE  (front \o back)[j] = IF j < i THEN s[j] ELSE s[j + 1]
  <2>1. (front \o back)[j] = IF j <= i - 1 THEN front[j] ELSE back[j - (i - 1)]
    BY <1>1, <1>5
  <2>2. CASE j < i
    BY <1>1, <1>2, <2>1, <2>2
  <2>3. CASE ~(j < i)
    <3>1. j - (i - 1) \in 1..(Len(s) - i) /\ (j - (i - 1)) + i = j + 1
      BY <1>1, <2>3
    <3> QED
      BY <1>1, <1>3, <2>1, <2>3, <3>1
  <2> QED
    BY <2>2, <2>3
<1> QED
  BY <1>1, <1>4, <1>5, <1>6

LEMMA Sent ==
    ASSUME net \in Seq(Requests), NEW r \in Requests
    PROVE  /\ Append(net, r) \in Seq(Requests)
           /\ Len(net) \in Nat
           /\ Len(Append(net, r)) = Len(net) + 1
           /\ \A i \in 1..(Len(net) + 1) :
                Append(net, r)[i] = IF i <= Len(net) THEN net[i] ELSE r
  OBVIOUS

(* The page left behind when the top one goes. *)
LEMMA Popped ==
    ASSUME TypeOK, nav # <<>>
    PROVE  \/ nav = <<"participants">> /\ Front(nav) = <<>> /\ Last(nav) = "participants"
           \/ /\ nav = <<"participants", "picker">> /\ Front(nav) = <<"participants">>
              /\ Last(nav) = "picker"
           \/ /\ nav = <<"participants", "search">> /\ Front(nav) = <<"participants">>
              /\ Last(nav) = "search"
<1>1. CASE nav = <<"participants">>
  <2>1. Len(nav) = 1
    BY <1>1
  <2>2. Front(nav) = <<>>
    BY <2>1, SubSeqEmpty DEF Front
  <2> QED
    BY <1>1, <2>1, <2>2 DEF Last
<1>2. ASSUME NEW page \in Pages, nav = <<"participants", page>>
      PROVE  Front(nav) = <<"participants">> /\ Last(nav) = page
  <2>1. Len(nav) = 2 /\ nav \in Seq(Pages) /\ nav[1] = "participants" /\ nav[2] = page
    BY <1>2 DEF Pages
  <2>2. SubSeq(nav, 1, 1) \in Seq(Pages) /\ Len(SubSeq(nav, 1, 1)) = 1
        /\ SubSeq(nav, 1, 1)[1] = nav[1]
    BY <2>1, SubSeqProperties
  <2>3. <<"participants">> \in Seq(Pages) /\ Len(<<"participants">>) = 1
        /\ <<"participants">>[1] = "participants"
    BY DEF Pages
  <2>4. SubSeq(nav, 1, 1) = <<"participants">>
    <3>1. \A i \in 1..Len(SubSeq(nav, 1, 1)) : SubSeq(nav, 1, 1)[i] = <<"participants">>[i]
      BY <2>1, <2>2, <2>3
    <3>2. Len(SubSeq(nav, 1, 1)) = Len(<<"participants">>)
      BY <2>2, <2>3
    <3> QED
      BY <2>2, <2>3, <3>1, <3>2, SeqEqual
  <2> QED
    BY <2>1, <2>4 DEF Front, Last
<1> QED
  BY <1>1, <1>2 DEF TypeOK, Pages

(* A page opened over the participants page. *)
LEMMA Opened ==
    ASSUME NEW page \in Pages
    PROVE  Append(<<"participants">>, page) = <<"participants", page>>
<1> DEFINE opened == Append(<<"participants">>, page)
<1> DEFINE pages == <<"participants", page>>
<1>1. /\ <<"participants">> \in Seq(Pages) /\ Len(<<"participants">>) = 1
      /\ <<"participants">>[1] = "participants"
  BY DEF Pages
<1>2. /\ opened \in Seq(Pages) /\ Len(opened) = 2
      /\ opened[1] = "participants" /\ opened[2] = page
  BY <1>1, AppendProperties
<1>3. /\ pages \in Seq(Pages) /\ Len(pages) = 2
      /\ pages[1] = "participants" /\ pages[2] = page
  BY DEF Pages
<1> HIDE DEF opened, pages
<1>4. \A i \in 1..Len(opened) : opened[i] = pages[i]
  BY <1>2, <1>3
<1>5. opened = pages
  BY <1>2, <1>3, <1>4, SeqEqual
<1> QED
  BY <1>5 DEF opened, pages

(* A place is sent only if it has coordinates, and the picker's page has     *)
(* given the coordinator the output.                                         *)
SendsLocated == \A i \in 1..Len(net) : net[i].kind = "location" => net[i].place \in Located
PickerHasOutput == nav = <<"participants", "picker">> => output
PageIsOfVisit == nav # <<>> => visits > 0

PageInv == TypeOK /\ SendsLocated /\ PickerHasOutput /\ PageIsOfVisit

LEMMA PageInit == Init => PageInv
<1> SUFFICES ASSUME Init PROVE PageInv
  OBVIOUS
<1>1. net \in Seq(Requests) /\ Len(net) = 0
  BY DEF Init
<1>2. visits \in 0..MaxVisits /\ sends \in 0..MaxSends
  BY MembersConstants DEF Init
<1>3. TypeOK
  BY <1>1, <1>2 DEF Init, TypeOK
<1>4. SendsLocated
  BY <1>1 DEF SendsLocated
<1>5. PickerHasOutput /\ PageIsOfVisit
  BY DEF Init, PickerHasOutput, PageIsOfVisit
<1> QED
  BY <1>3, <1>4, <1>5 DEF PageInv

LEMMA StartSends ==
    ASSUME TypeOK, start
    PROVE  /\ net' \in Seq(Requests) /\ Len(net) \in Nat
           /\ Len(net') = Len(net) + 2
           /\ \A i \in 1..Len(net) : net'[i] = net[i]
           /\ \A i \in 1..Len(net') :
                i \in 1..Len(net) \/ (net'[i].kind # "location" /\ net'[i].friends = {})
<1> DEFINE opening == <<Request("invite", visits + 1, {}, NoPlace),
                        Request("members", visits + 1, {}, NoPlace)>>
<1>1. visits + 1 \in 1..MaxVisits
  BY MembersConstants DEF TypeOK, start
<1>2. /\ Request("invite", visits + 1, {}, NoPlace) \in Requests
      /\ Request("members", visits + 1, {}, NoPlace) \in Requests
  BY <1>1 DEF Request, Requests
<1>3. /\ opening \in Seq(Requests) /\ Len(opening) = 2
      /\ \A i \in 1..2 : opening[i].kind # "location" /\ opening[i].friends = {}
  BY <1>2 DEF Request
<1>4. net' = net \o opening /\ net \in Seq(Requests) /\ Len(net) \in Nat
  BY DEF start, TypeOK
<1> HIDE DEF opening
<1>5. /\ net' \in Seq(Requests) /\ Len(net') = Len(net) + 2
      /\ \A i \in 1..Len(net') :
            net'[i] = IF i <= Len(net) THEN net[i] ELSE opening[i - Len(net)]
  <2>1. /\ net \o opening \in Seq(Requests) /\ Len(net \o opening) = Len(net) + Len(opening)
        /\ \A i \in 1..(Len(net) + Len(opening)) :
            (net \o opening)[i] = IF i <= Len(net) THEN net[i] ELSE opening[i - Len(net)]
    BY <1>3, <1>4, ConcatProperties
  <2> QED
    BY <1>3, <1>4, <2>1
<1>6. ASSUME NEW i \in 1..Len(net')
      PROVE  i \in 1..Len(net) \/ (net'[i].kind # "location" /\ net'[i].friends = {})
  <2>1. CASE i <= Len(net)
    BY <1>4, <2>1
  <2>2. CASE ~(i <= Len(net))
    <3>1. i - Len(net) \in 1..2 /\ net'[i] = opening[i - Len(net)]
      BY <1>4, <1>5, <2>2
    <3> QED
      BY <1>3, <3>1
  <2> QED
    BY <2>1, <2>2
<1>7. \A i \in 1..Len(net) : i \in 1..Len(net') /\ i <= Len(net)
  BY <1>4, <1>5
<1>8. \A i \in 1..Len(net) : net'[i] = net[i]
  BY <1>5, <1>7
<1> QED
  BY <1>4, <1>5, <1>6, <1>8

(* A request for the page that is open. *)
LEMMA RequestTyped ==
    ASSUME PageInv, nav # <<>>
    PROVE  /\ \A friends \in SUBSET Friends :
                /\ Invite(friends) \in Requests
                /\ Invite(friends).kind = "invite" /\ Invite(friends).friends = friends
           /\ \A p \in Places :
                /\ SendPlace(p) \in Requests
                /\ SendPlace(p).kind = "location" /\ SendPlace(p).place = p
                /\ SendPlace(p).friends = {}
<1>1. visits \in 1..MaxVisits
  BY MembersConstants DEF PageInv, TypeOK, PageIsOfVisit
<1> QED
  BY <1>1 DEF Invite, SendPlace, Request, Requests

LEMMA PageStep == PageInv /\ [Next]_vars => PageInv'
<1> SUFFICES ASSUME PageInv, [Next]_vars PROVE PageInv'
  OBVIOUS
<1> USE DEF pageVars, serviceVars, historyVars
<1>0. /\ TypeOK /\ net \in Seq(Requests) /\ Len(net) \in Nat
      /\ visits \in 0..MaxVisits /\ sends \in 0..MaxSends
      /\ \A i \in 1..Len(net) : net[i] \in Requests
  BY DEF PageInv, TypeOK
<1>00. /\ <<"participants">> # <<"participants", "picker">> /\ <<>> # <<"participants", "picker">>
       /\ <<"participants", "search">> # <<"participants", "picker">>
  OBVIOUS
<1>1. CASE start
  <2>1. net' \in Seq(Requests) /\ SendsLocated'
    BY <1>0, <1>1, StartSends DEF PageInv, SendsLocated
  <2>2. visits' \in 0..MaxVisits /\ visits' > 0
    BY <1>0, <1>1, MembersConstants DEF start
  <2>3. nav' = <<"participants">>
    BY <1>1 DEF start
  <2>4. TypeOK'
    BY <1>0, <1>1, <2>1, <2>2, <2>3 DEF start, TypeOK
  <2> QED
    BY <1>00, <2>1, <2>2, <2>3, <2>4 DEF PageInv, PickerHasOutput, PageIsOfVisit
<1>2. CASE moveAddNewFriends
  <2>1. nav = <<"participants">> /\ nav # <<>>
    BY <1>0, <1>2, Popped DEF moveAddNewFriends, Top
  <2>2. nav' = <<"participants", "picker">> /\ output' = TRUE
    <3>1. Append(<<"participants">>, "picker") = <<"participants", "picker">>
      BY Opened DEF Pages
    <3>2. nav' = Append(nav, "picker") /\ output' = TRUE
      BY <1>2 DEF moveAddNewFriends
    <3> QED
      BY <2>1, <3>1, <3>2
  <2>3. TypeOK'
    BY <1>0, <1>2, <2>2 DEF moveAddNewFriends, TypeOK
  <2> QED
    BY <1>2, <2>1, <2>2, <2>3
       DEF moveAddNewFriends, PageInv, SendsLocated, PickerHasOutput, PageIsOfVisit
<1>3. ASSUME NEW friends \in SUBSET Friends, sendData(friends) PROVE PageInv'
  <2>1. nav # <<>> /\ nav' = <<"participants">>
    BY <1>0, <1>3, Popped DEF sendData, Top
  <2>2. sends' \in 0..MaxSends
    BY <1>0, <1>3, MembersConstants DEF sendData
  <2>3. net' \in Seq(Requests) /\ SendsLocated'
    <3>1. CASE net' = net
      BY <1>0, <3>1 DEF PageInv, SendsLocated
    <3>2. CASE net' = Append(net, Invite(friends))
      BY <1>0, <2>1, <3>2, RequestTyped, Sent DEF PageInv, SendsLocated
    <3> QED
      BY <1>3, <3>1, <3>2 DEF sendData
  <2>4. TypeOK'
    BY <1>0, <1>3, <2>1, <2>2, <2>3 DEF sendData, TypeOK
  <2> QED
    BY <1>00, <1>3, <2>1, <2>3, <2>4 DEF sendData, PageInv, PickerHasOutput, PageIsOfVisit
<1>4. CASE moveToChangeLocation
  <2>1. nav = <<"participants">> /\ nav # <<>>
    BY <1>0, <1>4, Popped DEF moveToChangeLocation, Top
  <2>2. nav' = <<"participants", "search">>
    <3>1. Append(<<"participants">>, "search") = <<"participants", "search">>
      BY Opened DEF Pages
    <3>2. nav' = Append(nav, "search")
      BY <1>4 DEF moveToChangeLocation
    <3> QED
      BY <2>1, <3>1, <3>2
  <2>3. TypeOK'
    BY <1>0, <1>4, <2>2 DEF moveToChangeLocation, TypeOK
  <2> QED
    BY <1>00, <1>4, <2>1, <2>2, <2>3
       DEF moveToChangeLocation, PageInv, SendsLocated, PickerHasOutput, PageIsOfVisit
<1>5. ASSUME NEW p \in Places, didSelectPlace(p) PROVE PageInv'
  <2>1. nav # <<>> /\ nav' = <<"participants">>
    BY <1>0, <1>5, Popped DEF didSelectPlace, Top
  <2>2. sends' \in 0..MaxSends
    BY <1>0, <1>5, MembersConstants DEF didSelectPlace
  <2>3. net' \in Seq(Requests) /\ SendsLocated'
    <3>1. CASE net' = net
      BY <1>0, <3>1 DEF PageInv, SendsLocated
    <3>2. CASE p \in Located /\ net' = Append(net, SendPlace(p))
      BY <1>0, <2>1, <3>2, RequestTyped, Sent DEF PageInv, SendsLocated
    <3> QED
      BY <1>5, <3>1, <3>2 DEF didSelectPlace
  <2>4. passed' \in Located \cup {NoPlace} /\ chosen' \in Located \cup {NoPlace}
    BY <1>0, <1>5 DEF didSelectPlace, TypeOK
  <2>5. TypeOK'
    BY <1>0, <1>5, <2>1, <2>2, <2>3, <2>4 DEF didSelectPlace, TypeOK
  <2> QED
    BY <1>00, <1>5, <2>1, <2>3, <2>5 DEF didSelectPlace, PageInv, PickerHasOutput, PageIsOfVisit
<1>6. CASE Back
  <2>1. nav # <<>> /\ nav' \in {<<>>, <<"participants">>}
    BY <1>0, <1>6, Popped DEF Back
  <2>2. TypeOK'
    BY <1>0, <1>6, <2>1 DEF Back, TypeOK
  <2> QED
    BY <1>00, <1>6, <2>1, <2>2 DEF Back, PageInv, SendsLocated, PickerHasOutput, PageIsOfVisit
<1>7. ASSUME NEW i \in 1..Len(net), Served(i) \/ Fails(i) PROVE PageInv'
  <2>1. net[i] \in Requests /\ net' = RemoveAt(net, i)
    BY <1>0, <1>7 DEF Served, Fails
  <2>2. net' \in Seq(Requests) /\ SendsLocated'
    <3>1. /\ net' \in Seq(Requests) /\ Len(net') = Len(net) - 1
          /\ \A j \in 1..Len(net') : net'[j] = IF j < i THEN net[j] ELSE net[j + 1]
      BY <1>0, <2>1, Removed
    <3>2. \A k \in 1..Len(net) : net[k].kind = "location" => net[k].place \in Located
      BY DEF PageInv, SendsLocated
    <3>3. \A j \in 1..Len(net') : \E k \in 1..Len(net) : net'[j] = net[k]
      BY <1>0, <3>1
    <3>4. SendsLocated'
      BY <3>2, <3>3 DEF SendsLocated
    <3> QED
      BY <3>1, <3>4
  <2>3. /\ invited' \in SUBSET Friends /\ location' \in Located \cup {NoPlace}
        /\ listed' \in BOOLEAN
    <3>1. CASE Fails(i)
      BY <1>0, <3>1 DEF Fails, TypeOK
    <3>2. CASE Served(i)
      <4>1. net[i].friends \in SUBSET Friends
        BY <2>1 DEF Requests
      <4>2. net[i].kind = "location" => net[i].place \in Located
        BY DEF PageInv, SendsLocated
      <4>3. invited \in SUBSET Friends /\ location \in Located \cup {NoPlace}
        BY <1>0 DEF TypeOK
      <4>4. invited' = invited \cup net[i].friends
        BY <3>2 DEF Served
      <4>5. location' = IF net[i].kind = "location" THEN net[i].place ELSE location
        BY <3>2 DEF Served
      <4>6. listed' \in BOOLEAN
        BY <1>0, <3>2 DEF Served, TypeOK
      <4> QED
        BY <4>1, <4>2, <4>3, <4>4, <4>5, <4>6
    <3> QED
      BY <1>7, <3>1, <3>2
  <2>4. UNCHANGED <<network, pageVars, historyVars>>
    BY <1>7 DEF Served, Fails
  <2>5. TypeOK'
    BY <1>0, <2>2, <2>3, <2>4 DEF TypeOK
  <2> QED
    BY <2>2, <2>4, <2>5 DEF PageInv, PickerHasOutput, PageIsOfVisit
<1>8. CASE UNCHANGED vars
  BY <1>8 DEF vars, PageInv, TypeOK, SendsLocated, PickerHasOutput, PageIsOfVisit
<1>9. Arriving \subseteq 1..Len(net)
  BY <1>0 DEF Arriving
<1> QED
  BY <1>1, <1>2, <1>3, <1>4, <1>5, <1>6, <1>7, <1>8, <1>9 DEF Next, Answers

(* For any friends, places and bounds the participants page keeps its types, *)
(* on either network: only places with coordinates are sent, and the pages    *)
(* over the map are the page, a picker or a search.                          *)
THEOREM TypeCorrect == Spec => []TypeOK
<1>1. PageInv => TypeOK
  BY DEF PageInv
<1> QED
  BY <1>1, PageInit, PageStep, PTL DEF Spec

-----------------------------------------------------------------------------
(* What the requests in flight will still do: the friends handed over are    *)
(* invited or on their way, and the last place on its way is the last passed. *)
FriendsComing ==
    /\ invited \subseteq handed
    /\ \A i \in 1..Len(net) : net[i].friends \subseteq handed
    /\ \A f \in handed : f \in invited \/ \E i \in 1..Len(net) : f \in net[i].friends

PlaceComing ==
    /\ \A i \in 1..Len(net) :
        (net[i].kind = "location" /\ \A j \in 1..Len(net) : j > i => net[j].kind # "location")
            => net[i].place = passed
    /\ (\A i \in 1..Len(net) : net[i].kind # "location") => location = passed

Coming == Orderly => FriendsComing /\ PlaceComing

LEMMA ComingStep == PageInv /\ Coming /\ [Next]_vars => Coming'
<1> SUFFICES ASSUME PageInv, Coming, [Next]_vars PROVE Coming'
  OBVIOUS
<1> USE DEF pageVars, serviceVars, historyVars
<1>0. /\ TypeOK /\ net \in Seq(Requests) /\ Len(net) \in Nat
      /\ \A i \in 1..Len(net) : net[i] \in Requests
  BY DEF PageInv, TypeOK
<1>1. network' = network
  BY DEF Next, start, moveAddNewFriends, sendData, moveToChangeLocation, didSelectPlace,
     Back, Answers, Served, Fails, vars
<1> SUFFICES ASSUME Orderly PROVE FriendsComing' /\ PlaceComing'
  BY <1>1 DEF Coming, Orderly
<1>2. FriendsComing /\ PlaceComing
  BY DEF Coming
<1>3. CASE start
  <2>1. UNCHANGED <<invited, location, handed, passed>>
    BY <1>3 DEF start
  <2>2. /\ Len(net') = Len(net) + 2
        /\ \A i \in 1..Len(net) : net'[i] = net[i] /\ i \in 1..Len(net')
        /\ \A i \in 1..Len(net') :
            i \in 1..Len(net) \/ (net'[i].kind # "location" /\ net'[i].friends = {})
    BY <1>0, <1>3, StartSends
  <2>3. FriendsComing'
    BY <1>2, <2>1, <2>2 DEF FriendsComing
  <2>4. PlaceComing'
    BY <1>2, <2>1, <2>2 DEF PlaceComing
  <2> QED
    BY <2>3, <2>4
<1>4. ASSUME NEW friends \in SUBSET Friends, sendData(friends)
      PROVE  FriendsComing' /\ PlaceComing'
  <2>1. output /\ nav # <<>>
    BY <1>0, <1>4, Popped DEF sendData, Top, PageInv, PickerHasOutput
  <2>2. /\ net' = Append(net, Invite(friends)) /\ handed' = handed \cup friends
        /\ UNCHANGED <<invited, location, passed>>
    BY <1>4, <2>1 DEF sendData
  <2>3. /\ Invite(friends) \in Requests
        /\ Invite(friends).kind = "invite" /\ Invite(friends).friends = friends
    BY <2>1, RequestTyped
  <2>4. /\ Len(net') = Len(net) + 1
        /\ \A i \in 1..Len(net') : net'[i] = IF i <= Len(net) THEN net[i] ELSE Invite(friends)
        /\ net'[Len(net) + 1] = Invite(friends) /\ Len(net) + 1 \in 1..Len(net')
        /\ \A i \in 1..Len(net) : net'[i] = net[i] /\ i \in 1..Len(net')
    BY <1>0, <2>2, <2>3, Sent
  <2>5. FriendsComing'
    BY <1>0, <1>2, <2>2, <2>3, <2>4 DEF FriendsComing
  <2>6. \A i \in 1..Len(net') : net'[i].kind = "location" => i \in 1..Len(net)
    BY <1>0, <2>3, <2>4
  <2>7. PlaceComing'
    BY <1>2, <2>2, <2>4, <2>6 DEF PlaceComing
  <2> QED
    BY <2>5, <2>7
<1>5. ASSUME NEW p \in Places, didSelectPlace(p) PROVE FriendsComing' /\ PlaceComing'
  <2>0. UNCHANGED <<invited, location, handed>> /\ nav # <<>>
    BY <1>5 DEF didSelectPlace, Top
  <2>1. CASE net' = Append(net, SendPlace(p)) /\ passed' = p
    <3>1. /\ SendPlace(p) \in Requests /\ SendPlace(p).place = p
          /\ SendPlace(p).kind = "location" /\ SendPlace(p).friends = {}
      BY <2>0, RequestTyped
    <3>2. /\ Len(net') = Len(net) + 1
          /\ \A i \in 1..Len(net') : net'[i] = IF i <= Len(net) THEN net[i] ELSE SendPlace(p)
          /\ net'[Len(net) + 1] = SendPlace(p) /\ Len(net) + 1 \in 1..Len(net')
          /\ \A i \in 1..Len(net) : net'[i] = net[i] /\ i \in 1..Len(net')
      BY <1>0, <2>1, <3>1, Sent
    <3>3. FriendsComing'
      BY <1>0, <1>2, <2>0, <3>1, <3>2 DEF FriendsComing
    <3>4. ASSUME NEW i \in 1..Len(net'), net'[i].kind = "location",
                 \A j \in 1..Len(net') : j > i => net'[j].kind # "location"
          PROVE  net'[i].place = passed'
      <4>1. i = Len(net) + 1
        BY <1>0, <3>1, <3>2, <3>4
      <4> QED
        BY <2>1, <3>1, <3>2, <4>1
    <3>5. PlaceComing'
      BY <3>1, <3>2, <3>4 DEF PlaceComing
    <3> QED
      BY <3>3, <3>5
  <2>2. CASE UNCHANGED <<net, passed>>
    BY <1>2, <2>0, <2>2 DEF FriendsComing, PlaceComing
  <2> QED
    BY <1>5, <2>1, <2>2 DEF didSelectPlace
<1>6. ASSUME NEW i \in Arriving, Served(i) PROVE FriendsComing' /\ PlaceComing'
  <2>1. i = 1 /\ 1 \in 1..Len(net) /\ net' = RemoveAt(net, 1) /\ net[1] \in Requests
    BY <1>0, <1>6 DEF Arriving, Served
  <2>2. /\ UNCHANGED <<handed, passed>> /\ invited' = invited \cup net[1].friends
        /\ location' = IF net[1].kind = "location" THEN net[1].place ELSE location
    BY <1>6, <2>1 DEF Served
  <2>3. /\ Len(net') = Len(net) - 1
        /\ \A j \in 1..(Len(net) - 1) : net'[j] = IF j < 1 THEN net[j] ELSE net[j + 1]
    BY <1>0, <2>1, Removed
  <2>4. \A j \in 1..Len(net') : net'[j] = net[j + 1] /\ j + 1 \in 1..Len(net)
    BY <1>0, <2>3
  <2>5. \A j \in 1..Len(net) : j = 1 \/ (j - 1 \in 1..Len(net') /\ net'[j - 1] = net[j])
    BY <1>0, <2>3
  <2>6. FriendsComing'
    <3>1. invited' \subseteq handed'
      BY <1>2, <2>1, <2>2 DEF FriendsComing
    <3>2. \A j \in 1..Len(net') : net'[j].friends \subseteq handed'
      BY <1>2, <2>2, <2>4 DEF FriendsComing
    <3>3. ASSUME NEW f \in handed'
          PROVE  f \in invited' \/ \E j \in 1..Len(net') : f \in net'[j].friends
      <4>1. CASE f \in invited
        BY <2>2, <4>1
      <4>2. CASE \E j \in 1..Len(net) : f \in net[j].friends
        BY <2>2, <2>5, <4>2
      <4> QED
        BY <1>2, <2>2, <4>1, <4>2 DEF FriendsComing
    <3> QED
      BY <3>1, <3>2, <3>3 DEF FriendsComing
  <2>7. ASSUME NEW k \in 1..Len(net'), net'[k].kind = "location",
               \A j \in 1..Len(net') : j > k => net'[j].kind # "location"
        PROVE  net'[k].place = passed'
    <3>1. k + 1 \in 1..Len(net) /\ net[k + 1].kind = "location"
      BY <2>4, <2>7
    <3>2. ASSUME NEW j \in 1..Len(net), j > k + 1 PROVE net[j].kind # "location"
      <4>1. j # 1 /\ j - 1 > k
        BY <3>2, <1>0
      <4> QED
        BY <2>5, <2>7, <4>1
    <3> QED
      BY <1>2, <2>2, <2>4, <3>1, <3>2 DEF PlaceComing
  <2>8. ASSUME \A j \in 1..Len(net') : net'[j].kind # "location"
        PROVE  location' = passed'
    <3>1. \A j \in 1..Len(net) : j > 1 => net[j].kind # "location"
      BY <2>5, <2>8
    <3>2. CASE net[1].kind = "location"
      BY <1>2, <2>1, <2>2, <3>1, <3>2 DEF PlaceComing
    <3>3. CASE net[1].kind # "location"
      <4>1. \A j \in 1..Len(net) : net[j].kind # "location"
        BY <2>5, <2>8, <3>3
      <4> QED
        BY <1>2, <2>2, <3>3, <4>1 DEF PlaceComing
    <3> QED
      BY <3>2, <3>3
  <2> QED
    BY <2>6, <2>7, <2>8 DEF PlaceComing
<1>7. CASE UNCHANGED <<net, invited, location, handed, passed>>
  BY <1>2, <1>7 DEF FriendsComing, PlaceComing
<1> QED
  BY <1>3, <1>4, <1>5, <1>6, <1>7
     DEF Next, moveAddNewFriends, moveToChangeLocation, Back, Answers, Fails, vars

(* However pages are left and opened again and however many requests are in *)
(* flight: with a network that keeps the order, once all are served the      *)
(* service has invited exactly the friends handed over and has the last      *)
(* place passed on.                                                          *)
THEOREM ServiceSettles == Spec => []SettledService
<1>1. Init => Coming
  <2> SUFFICES ASSUME Init PROVE FriendsComing /\ PlaceComing
    BY DEF Coming
  <2>1. Len(net) = 0
    BY DEF Init
  <2> QED
    BY <2>1 DEF Init, FriendsComing, PlaceComing
<1>2. PageInv /\ Coming => SettledService
  <2> SUFFICES ASSUME Coming, Orderly, net = <<>>
               PROVE  invited = handed /\ location = passed
    BY DEF SettledService
  <2>1. Len(net) = 0
    OBVIOUS
  <2> QED
    BY <2>1 DEF Coming, FriendsComing, PlaceComing
<1> QED
  BY <1>1, <1>2, PageInit, PageStep, ComingStep, PTL DEF Spec
=============================================================================
