---------------------------- MODULE HomeTabProofs ----------------------------
(***************************************************************************)
(* Proofs about HomeTab for every value of its constants, then about       *)
(* TabBar: what holds of the home tab holds of it inside the app, and the  *)
(* app keeps to the session.                                               *)
(***************************************************************************)
EXTENDS TabBar, SequenceTheorems, FiniteSetTheorems, TLAPS

-----------------------------------------------------------------------------
(* What the operations make of the stack of pages.                         *)

LEMMA PageTyped ==
    ASSUME TypeOK, NEW kind \in Kinds
    PROVE  /\ Page(kind) \in PageSet
           /\ Page(kind).kind = kind /\ Page(kind).group = groupId
           /\ Page(kind).label = Unset /\ Page(kind).visit = 0
  BY HomeConstants DEF TypeOK, Page, PageSet, Names

LEMMA TopIs ==
    ASSUME TypeOK, nav # <<>>
    PROVE  Len(nav) \in Nat \ {0} /\ Top = nav[Len(nav)] /\ Top \in PageSet
  BY DEF TypeOK, Top

LEMMA Appended ==
    ASSUME TypeOK, NEW page \in PageSet
    PROVE  /\ Append(nav, page) \in Seq(PageSet)
           /\ Len(nav) \in Nat
           /\ Len(Append(nav, page)) = Len(nav) + 1
           /\ \A i \in 1..(Len(nav) + 1) :
                Append(nav, page)[i] = IF i <= Len(nav) THEN nav[i] ELSE page
  BY DEF TypeOK

LEMMA BelowIs ==
    ASSUME TypeOK, Len(nav) > 1
    PROVE  /\ Below \in Seq(PageSet)
           /\ Len(nav) \in Nat
           /\ Len(Below) = Len(nav) - 1
           /\ \A i \in 1..(Len(nav) - 1) : Below[i] = nav[i]
<1>1. /\ Len(nav) \in Nat
      /\ \A i \in 1..(Len(nav) - 1) : nav[i] \in PageSet
  BY DEF TypeOK
<1> QED
  BY <1>1, SubSeqProperties DEF Below

LEMMA Single ==
    ASSUME NEW page
    PROVE  Len(<<page>>) = 1 /\ <<page>>[1] = page /\ <<page>> # <<>>
  OBVIOUS

(* The pages after the choice of a place: the map under the search. *)
LEMMA Chosen ==
    ASSUME TypeOK, Len(nav) > 1
    PROVE  LET chosen == [Below EXCEPT ![Len(Below)].kind = "placeMap"]
           IN  /\ chosen \in Seq(PageSet)
               /\ Len(chosen) = Len(nav) - 1
               /\ \A i \in 1..(Len(nav) - 1) :
                    chosen[i] = IF i = Len(nav) - 1
                                THEN [nav[i] EXCEPT !.kind = "placeMap"] ELSE nav[i]
<1> DEFINE m == Len(nav) - 1
           page == [nav[m] EXCEPT !.kind = "placeMap"]
           chosen == [Below EXCEPT ![Len(Below)].kind = "placeMap"]
<1>1. /\ m \in Nat \ {0} /\ Below \in Seq(PageSet) /\ Len(Below) = m
      /\ \A i \in 1..m : Below[i] = nav[i]
  BY BelowIs
<1> HIDE DEF m
<1>2. nav[m] \in PageSet
  BY <1>1
<1>3. page \in PageSet
  BY <1>2 DEF PageSet, Kinds
<1>4. chosen = [Below EXCEPT ![m] = page]
  <2>1. chosen = [Below EXCEPT ![m].kind = "placeMap"]
    BY <1>1
  <2>2. Below[m] = nav[m]
    BY <1>1
  <2> HIDE DEF chosen
  <2>3. [Below EXCEPT ![m].kind = "placeMap"]
          = [Below EXCEPT ![m] = [Below[m] EXCEPT !.kind = "placeMap"]]
    BY Zenon
  <2> QED
    BY <2>1, <2>2, <2>3
<1> HIDE DEF page
<1>5. /\ [Below EXCEPT ![m] = page] \in Seq(PageSet)
      /\ Len([Below EXCEPT ![m] = page]) = m
      /\ \A i \in 1..m : [Below EXCEPT ![m] = page][i] = IF i = m THEN page ELSE nav[i]
  BY <1>1, <1>3
<1> QED
  BY <1>4, <1>5 DEF m, page

(* The pages after a notification: a map, and plans for each coordinator. *)
LEMMA Notified ==
    ASSUME TypeOK, nav' = Append(nav, Page("map")) \o [i \in 1..(maps + 1) |-> Page("plans")]
    PROVE  /\ nav' \in Seq(PageSet)
           /\ Len(nav) \in Nat
           /\ Len(nav') = Len(nav) + 2 + maps
           /\ \A i \in 1..Len(nav') :
                nav'[i] = IF i <= Len(nav) THEN nav[i]
                          ELSE IF i = Len(nav) + 1 THEN Page("map") ELSE Page("plans")
<1> DEFINE plans == [i \in 1..(maps + 1) |-> Page("plans")]
<1>1. Page("map") \in PageSet /\ Page("plans") \in PageSet
  BY PageTyped DEF Kinds
<1>2. /\ Append(nav, Page("map")) \in Seq(PageSet) /\ Len(nav) \in Nat
      /\ Len(Append(nav, Page("map"))) = Len(nav) + 1
      /\ \A i \in 1..(Len(nav) + 1) :
           Append(nav, Page("map"))[i] = IF i <= Len(nav) THEN nav[i] ELSE Page("map")
  BY <1>1, Appended
<1>3. /\ plans \in Seq(PageSet) /\ Len(plans) = maps + 1 /\ maps \in Nat
      /\ \A i \in 1..(maps + 1) : plans[i] = Page("plans")
  BY <1>1 DEF TypeOK
<1> HIDE DEF plans
<1>4. nav' = Append(nav, Page("map")) \o plans
  BY DEF plans
<1>5. nav' \in Seq(PageSet) /\ Len(nav') = Len(nav) + 1 + (maps + 1)
  BY <1>2, <1>3, <1>4
<1>6. ASSUME NEW i \in 1..Len(nav')
      PROVE  nav'[i] = IF i <= Len(nav) + 1 THEN Append(nav, Page("map"))[i]
                       ELSE plans[i - (Len(nav) + 1)]
  BY <1>2, <1>3, <1>4, <1>5
<1>7. ASSUME NEW i \in 1..Len(nav')
      PROVE  nav'[i] = IF i <= Len(nav) THEN nav[i]
                       ELSE IF i = Len(nav) + 1 THEN Page("map") ELSE Page("plans")
  <2>1. CASE i <= Len(nav) + 1
    BY <2>1, <1>2, <1>6
  <2>2. CASE ~(i <= Len(nav) + 1)
    <3>1. i - (Len(nav) + 1) \in 1..(maps + 1)
      BY <2>2, <1>2, <1>3, <1>5
    <3> QED
      BY <2>2, <3>1, <1>2, <1>3, <1>6
  <2> QED
    BY <2>1, <2>2
<1> QED
  BY <1>2, <1>3, <1>5, <1>7

-----------------------------------------------------------------------------
(* Types                                                                   *)

LEMMA TypeInit == Init => TypeOK
<1> SUFFICES ASSUME Init PROVE TypeOK
  OBVIOUS
<1>1. nav \in Seq(PageSet)
  BY DEF Init
<1>2. items \in [Items -> Values] /\ items["placeName"] \in Names
  BY DEF Init, Items, Values, Names
<1>3. net \in [Slots -> Requests \cup {Idle}] /\ saved \in [Visits -> Nat]
  BY DEF Init
<1> QED
  BY <1>1, <1>2, <1>3, HomeConstants DEF Init, TypeOK, GroupIds

LEMMA ItemsTyped ==
    ASSUME TypeOK, items' \in [Items -> Values],
           items'["placeName"] \in Places \cup {items["placeName"]}
    PROVE  items' \in [Items -> Values] /\ items'["placeName"] \in Names
  BY DEF TypeOK, Names

(* The plans saved for a visit when the process ends. *)
LEMMA Counted ==
    ASSUME NEW S \in SUBSET Slots
    PROVE  IsFiniteSet(S) /\ Cardinality(S) \in Nat
  BY HomeConstants, FS_Subset, FS_CardinalityType

LEMMA KillTyped == ASSUME TypeOK, Kill PROVE saved' \in [Visits -> Nat]
<1>1. PICK served \in SUBSET Slots :
        saved' = [v \in Visits |->
                    saved[v] + Cardinality({s \in served : net[s].page.visit = v})]
  BY DEF Kill
<1>2. ASSUME NEW v \in Visits
      PROVE  saved[v] + Cardinality({s \in served : net[s].page.visit = v}) \in Nat
  <2> DEFINE S == {s \in served : net[s].page.visit = v}
  <2>1. S \in SUBSET Slots
    OBVIOUS
  <2> HIDE DEF S
  <2>2. Cardinality(S) \in Nat /\ saved[v] \in Nat
    BY <2>1, Counted DEF TypeOK
  <2> QED
    BY <2>2 DEF S
<1> QED
  BY <1>1, <1>2

LEMMA TypeStep == TypeOK /\ [Next]_vars => TypeOK'
<1> SUFFICES ASSUME TypeOK, [Next]_vars PROVE TypeOK'
  OBVIOUS
<1> USE DEF Kinds
<1>1. ASSUME NEW g \in Groups, SelectGroup(g) PROVE TypeOK'
  <2>1. [Page("map") EXCEPT !.group = g] \in PageSet
    BY PageTyped DEF PageSet, GroupIds
  <2>2. nav' \in Seq(PageSet)
    BY <1>1, <2>1, Appended DEF SelectGroup
  <2> QED
    BY <1>1, <2>2 DEF SelectGroup, TypeOK, GroupIds
<1>2. ASSUME NEW kind \in Kinds, nav # <<>> PROVE Push(kind) \in Seq(PageSet)
  <2>1. [Page(kind) EXCEPT !.group = Top.group] \in PageSet
    BY <1>2, PageTyped, TopIs DEF PageSet
  <2> QED
    BY <2>1, Appended DEF Push
<1>3. CASE moveSearch
  <2>1. nav' \in Seq(PageSet)
    BY <1>2, <1>3 DEF moveSearch, Showing
  <2>2. items' \in [Items -> Values] /\ items'["placeName"] \in Names
    BY <1>3 DEF moveSearch, TypeOK, Items, Values
  <2> QED
    BY <1>3, <2>1, <2>2 DEF moveSearch, TypeOK
<1>4. ASSUME NEW p \in Places, SelectPlace(p) PROVE TypeOK'
  <2>1. nav' \in Seq(PageSet)
    <3>1. CASE Len(nav) > 1
      BY <3>1, <1>4, Chosen DEF SelectPlace
    <3>2. CASE ~(Len(nav) > 1)
      <4>1. Len(nav) \in Nat
        BY DEF TypeOK
      <4>2. Below = <<>>
        BY <3>2, <4>1, SubSeqEmpty DEF Below
      <4>3. nav' = <<>>
        BY <1>4, <4>2 DEF SelectPlace
      <4> QED
        BY <4>3
    <3> QED
      BY <3>1, <3>2
  <2>2. items' \in [Items -> Values] /\ items'["placeName"] \in Names
    BY <1>4 DEF SelectPlace, TypeOK, Items, Values, Names
  <2> QED
    BY <1>4, <2>1, <2>2 DEF SelectPlace, TypeOK
<1>5. CASE moveToPlans
  <2>1. CASE dialog \in 1..Len(nav) /\ nav' = Append(nav, [Page("placePlans") EXCEPT !.group = nav[dialog].group])
    <3>1. nav[dialog] \in PageSet
      BY <2>1 DEF TypeOK
    <3>2. [Page("placePlans") EXCEPT !.group = nav[dialog].group] \in PageSet
      BY <3>1, PageTyped DEF PageSet
    <3>3. nav' \in Seq(PageSet)
      BY <2>1, <3>2, Appended
    <3> QED
      BY <1>5, <3>3 DEF moveToPlans, TypeOK
  <2>2. CASE Showing("map") /\ nav' = Push("plans")
    <3>1. nav' \in Seq(PageSet)
      BY <1>2, <2>2 DEF Showing
    <3> QED
      BY <1>5, <3>1 DEF moveToPlans, TypeOK
  <2> QED
    BY <1>5, <2>1, <2>2 DEF moveToPlans
<1>6. CASE OpenPlan
  <2>1. CASE visits < regime.visits /\ visits' = visits + 1 /\ nav' = Append(nav, PlanPage) /\ nav # <<>>
    <3>1. visits + 1 \in 0..MaxVisits
      BY <2>1, HomeConstants DEF TypeOK, AllRegimes
    <3>2. PlanPage \in PageSet
      BY <2>1, <3>1, TopIs DEF PlanPage, PageSet, TypeOK
    <3>3. nav' \in Seq(PageSet)
      BY <2>1, <3>2, Appended
    <3> QED
      BY <1>6, <2>1, <3>1, <3>3 DEF OpenPlan, TypeOK
  <2>2. CASE nav' = Push("findRoad") /\ nav # <<>> /\ UNCHANGED visits
    <3>1. nav' \in Seq(PageSet)
      BY <1>2, <2>2
    <3> QED
      BY <1>6, <2>2, <3>1 DEF OpenPlan, TypeOK
  <2> QED
    BY <1>6, <2>1, <2>2 DEF OpenPlan, Showing
<1>7. CASE Back
  <2>1. nav' \in Seq(PageSet)
    BY <1>7, BelowIs DEF Back
  <2> QED
    BY <1>7, <2>1 DEF Back, TypeOK
<1>8. CASE OpenDialog
  BY <1>8 DEF OpenDialog, TypeOK
<1>9. CASE CloseDialog
  BY <1>9 DEF CloseDialog, TypeOK
<1>10. ASSUME NEW s \in Slots, Confirm(s) PROVE TypeOK'
  <2>1. [status |-> "sent", place |-> items, group |-> groupId, page |-> Top] \in Requests
    BY <1>10, TopIs DEF Confirm, Showing, Requests, TypeOK
  <2>2. net' \in [Slots -> Requests \cup {Idle}]
    BY <1>10, <2>1 DEF Confirm, TypeOK
  <2> QED
    BY <1>10, <2>2 DEF Confirm, TypeOK
<1>11. ASSUME NEW s \in Slots, Serve(s) PROVE TypeOK'
  <2>1. net[s] \in Requests
    BY <1>11 DEF Serve, TypeOK
  <2>2. net' \in [Slots -> Requests \cup {Idle}]
    BY <1>11, <2>1 DEF Serve, TypeOK, Requests
  <2>3. saved' \in [Visits -> Nat]
    <3> DEFINE v == net[s].page.visit
    <3>1. saved' = [saved EXCEPT ![v] = saved[v] + 1] /\ saved \in [Visits -> Nat]
      BY <1>11 DEF Serve, TypeOK
    <3> HIDE DEF v
    <3>2. saved' = [w \in Visits |-> IF w = v THEN saved[w] + 1 ELSE saved[w]]
      BY <3>1
    <3>3. \A w \in Visits : saved[w] + 1 \in Nat
      BY <3>1
    <3> QED
      BY <3>1, <3>2, <3>3
  <2> QED
    BY <1>11, <2>2, <2>3 DEF Serve, TypeOK
<1>12. ASSUME NEW s \in Slots, PlanSaved(s) PROVE TypeOK'
  <2>1. nav' \in Seq(PageSet)
    BY <1>12, PageTyped DEF PlanSaved
  <2> QED
    BY <1>12, <2>1 DEF PlanSaved, TypeOK
<1>13. ASSUME NEW s \in Slots, PlanFailed(s) PROVE TypeOK'
  BY <1>13 DEF PlanFailed, TypeOK
<1>14. CASE PlaceChanged
  <2>1. nav' \in Seq(PageSet)
    BY <1>14, Notified DEF PlaceChanged, TypeOK
  <2> QED
    BY <1>14, <2>1 DEF PlaceChanged, TypeOK
<1>15. CASE Start
  <2>1. nav' \in Seq(PageSet)
    BY <1>15, PageTyped DEF Start
  <2>2. items' \in [Items -> Values] /\ items'["placeName"] \in Names
    BY <1>15 DEF Start, TypeOK, Items, Values
  <2> QED
    BY <1>15, <2>1, <2>2 DEF Start, TypeOK
<1>16. CASE Kill
  <2>1. nav' \in Seq(PageSet) /\ net' \in [Slots -> Requests \cup {Idle}]
    BY <1>16 DEF Kill
  <2>2. UNCHANGED <<items, groupId, visits, pushes, starts, regime>>
        /\ dialog' = 0 /\ maps' = 0
    BY <1>16 DEF Kill
  <2>3. saved' \in [Visits -> Nat]
    BY <1>16, KillTyped
  <2> QED
    BY <2>1, <2>2, <2>3 DEF TypeOK
<1>17. CASE UNCHANGED vars
  BY <1>17 DEF vars, TypeOK
<1> QED
  BY <1>1, <1>3, <1>4, <1>5, <1>6, <1>7, <1>8, <1>9, <1>10, <1>11, <1>12, <1>13,
     <1>14, <1>15, <1>16, <1>17 DEF Next, Answers

(* For any places, groups, bounds and regimes the variables of the home tab *)
(* keep their types, through notifications, answers and ends of the process. *)
THEOREM TypeCorrect == Spec => []TypeOK
  BY TypeInit, TypeStep, PTL DEF Spec

-----------------------------------------------------------------------------
(* The stack of pages                                                      *)

(* The list of groups is at the bottom, a search is above a map, and a plan *)
(* page, like a request that it has made, has the number of its opening.    *)
StackOrder ==
    \A i \in 1..Len(nav) :
        /\ nav[i].kind = "groups" => i = 1
        /\ nav[i].kind = "search" => i > 1 /\ nav[i - 1].kind \in {"map", "placeMap"}
        /\ nav[i].kind = "plan" => nav[i].visit \in Visits
        /\ nav[i].visit <= visits

RequestOrder ==
    \A s \in Slots :
        net[s] # Idle =>
            /\ net[s].page.visit \in Visits /\ net[s].page.visit <= visits
            /\ net[s].status = "saved" => saved[net[s].page.visit] > 0

HomeInv == TypeOK /\ StackOrder /\ RequestOrder

(* The four ways to open a page on top of the others. *)
Pushed(page) ==
    /\ Len(nav) \in Nat \ {0}
    /\ Len(nav') = Len(nav) + 1
    /\ nav'[Len(nav) + 1] = page
    /\ \A i \in 1..Len(nav) : nav'[i] = nav[i]

LEMMA GroupPushed ==
    ASSUME TypeOK, NEW g \in Groups, SelectGroup(g)
    PROVE  \E page \in PageSet :
              /\ Pushed(page)
              /\ page.kind = "map" /\ page.group = g /\ page.visit = 0
<1>1. Page("map") \in PageSet /\ Page("map").kind = "map" /\ Page("map").visit = 0
  BY PageTyped DEF Kinds
<1>2. [Page("map") EXCEPT !.group = g] \in PageSet
  BY <1>1 DEF PageSet, GroupIds
<1>3. /\ [Page("map") EXCEPT !.group = g].kind = "map"
      /\ [Page("map") EXCEPT !.group = g].group = g
      /\ [Page("map") EXCEPT !.group = g].visit = 0
  BY <1>1 DEF PageSet
<1>4. Pushed([Page("map") EXCEPT !.group = g])
  BY <1>2, Appended, TopIs DEF SelectGroup, Showing, Pushed
<1> QED
  BY <1>2, <1>3, <1>4

LEMMA PushPushed ==
    ASSUME TypeOK, NEW kind \in Kinds, NEW i \in 1..Len(nav),
           nav' = Append(nav, [Page(kind) EXCEPT !.group = nav[i].group])
    PROVE  \E page \in PageSet :
              /\ Pushed(page)
              /\ page.kind = kind /\ page.group = nav[i].group /\ page.visit = 0
<1> DEFINE page == [Page(kind) EXCEPT !.group = nav[i].group]
<1>1. Page(kind) \in PageSet /\ Page(kind).kind = kind /\ Page(kind).visit = 0
  BY PageTyped
<1>2. nav[i] \in PageSet /\ Len(nav) \in Nat \ {0}
  BY DEF TypeOK
<1>3. page \in PageSet /\ page.kind = kind /\ page.group = nav[i].group /\ page.visit = 0
  BY <1>1, <1>2 DEF PageSet
<1> HIDE DEF page
<1>4. nav' = Append(nav, page)
  BY DEF page
<1>5. Pushed(page)
  BY <1>2, <1>3, <1>4, Appended DEF Pushed
<1> QED
  BY <1>3, <1>5

LEMMA SearchPushed ==
    ASSUME TypeOK, moveSearch
    PROVE  \E page \in PageSet :
              /\ Pushed(page)
              /\ page.kind = "search" /\ page.group = Top.group /\ page.visit = 0
<1>1. Len(nav) \in 1..Len(nav) /\ Top = nav[Len(nav)] /\ nav' = Push("search")
  BY TopIs DEF moveSearch, Showing
<1>2. nav' = Append(nav, [Page("search") EXCEPT !.group = nav[Len(nav)].group])
  BY <1>1 DEF Push
<1> QED
  BY <1>1, <1>2, PushPushed DEF Kinds

LEMMA PlansPushed ==
    ASSUME TypeOK, moveToPlans
    PROVE  \E page \in PageSet, i \in 1..Len(nav) :
              /\ Pushed(page)
              /\ page.group = nav[i].group /\ page.visit = 0
              /\ \/ /\ page.kind = "placePlans"
                    /\ i = dialog /\ nav[i].kind = "placeMap"
                 \/ /\ page.kind = "plans" /\ dialog = 0
                    /\ i = Len(nav) /\ nav[i].kind = "map"
<1>1. CASE /\ dialog \in 1..Len(nav) /\ nav[dialog].kind = "placeMap"
           /\ nav' = Append(nav, [Page("placePlans") EXCEPT !.group = nav[dialog].group])
  BY <1>1, PushPushed DEF Kinds
<1>2. CASE Showing("map") /\ nav' = Push("plans")
  <2>1. Len(nav) \in 1..Len(nav) /\ Top = nav[Len(nav)] /\ Top.kind = "map" /\ dialog = 0
    BY <1>2, TopIs DEF Showing
  <2>2. nav' = Append(nav, [Page("plans") EXCEPT !.group = nav[Len(nav)].group])
    BY <1>2, <2>1 DEF Push
  <2> QED
    BY <2>1, <2>2, PushPushed DEF Kinds
<1> QED
  BY <1>1, <1>2 DEF moveToPlans

LEMMA PlanPushed ==
    ASSUME TypeOK, OpenPlan
    PROVE  \E page \in PageSet :
              /\ Pushed(page)
              /\ page.group = Top.group
              /\ \/ /\ page.kind = "plan" /\ page.label = items["placeName"]
                    /\ page.visit = visits + 1 /\ visits' = visits + 1
                    /\ visits + 1 \in Visits /\ Top.kind = "placePlans"
                 \/ /\ page.kind = "findRoad" /\ page.visit = 0 /\ visits' = visits
                    /\ Top.kind = "plans"
<1>1. Len(nav) \in 1..Len(nav) /\ Top = nav[Len(nav)] /\ Top \in PageSet
  BY TopIs DEF OpenPlan, Showing
<1>2. CASE /\ Showing("placePlans") /\ visits < regime.visits
           /\ visits' = visits + 1 /\ nav' = Append(nav, PlanPage)
  <2>1. visits + 1 \in Visits /\ visits + 1 \in 0..MaxVisits
    BY <1>2, HomeConstants DEF TypeOK, AllRegimes, Visits
  <2>2. /\ PlanPage \in PageSet /\ PlanPage.kind = "plan"
        /\ PlanPage.group = Top.group /\ PlanPage.label = items["placeName"]
        /\ PlanPage.visit = visits + 1
    BY <1>1, <2>1 DEF PlanPage, PageSet, TypeOK, Kinds
  <2>3. Pushed(PlanPage)
    BY <1>1, <1>2, <2>2, Appended DEF Pushed
  <2> QED
    BY <1>2, <2>1, <2>2, <2>3 DEF Showing
<1>3. CASE Showing("plans") /\ nav' = Push("findRoad") /\ visits' = visits
  <2>1. nav' = Append(nav, [Page("findRoad") EXCEPT !.group = nav[Len(nav)].group])
    BY <1>1, <1>3 DEF Push
  <2> QED
    BY <1>1, <1>3, <2>1, PushPushed DEF Showing, Kinds
<1> QED
  BY <1>2, <1>3 DEF OpenPlan

(* The ways pages go: the choice of a place replaces the two on top, the     *)
(* back button takes one away, an answer or a login leaves one page only.    *)
LEMMA PlaceChosen ==
    ASSUME TypeOK, StackOrder, NEW p \in Places, SelectPlace(p)
    PROVE  /\ Len(nav) \in Nat /\ Len(nav) > 1
           /\ nav[Len(nav)].kind = "search"
           /\ nav[Len(nav) - 1].kind \in {"map", "placeMap"}
           /\ Len(nav') = Len(nav) - 1
           /\ \A i \in 1..(Len(nav) - 1) :
                /\ nav'[i].group = nav[i].group
                /\ nav'[i].visit = nav[i].visit
                /\ nav'[i].label = nav[i].label
                /\ nav'[i].kind = IF i = Len(nav) - 1 THEN "placeMap" ELSE nav[i].kind
<1>1. /\ Len(nav) \in Nat \ {0} /\ nav[Len(nav)].kind = "search"
  BY TopIs DEF SelectPlace, Showing
<1>2. Len(nav) > 1 /\ nav[Len(nav) - 1].kind \in {"map", "placeMap"}
  BY <1>1 DEF StackOrder
<1>3. /\ Len(nav') = Len(nav) - 1
      /\ \A i \in 1..(Len(nav) - 1) :
           nav'[i] = IF i = Len(nav) - 1
                     THEN [nav[i] EXCEPT !.kind = "placeMap"] ELSE nav[i]
  BY <1>2, Chosen DEF SelectPlace
<1>4. \A i \in 1..(Len(nav) - 1) : nav[i] \in PageSet
  BY <1>1 DEF TypeOK
<1> QED
  BY <1>1, <1>2, <1>3, <1>4 DEF PageSet

LEMMA WentBack ==
    ASSUME TypeOK, Back
    PROVE  /\ Len(nav) \in Nat /\ Len(nav) > 1 /\ dialog = 0
           /\ Len(nav') = Len(nav) - 1
           /\ \A i \in 1..(Len(nav) - 1) : nav'[i] = nav[i]
  BY BelowIs DEF Back

LEMMA Notification ==
    ASSUME TypeOK, PlaceChanged
    PROVE  \/ nav' = nav
           \/ /\ Len(nav) \in Nat /\ Len(nav') \in Nat /\ Len(nav') > Len(nav)
              /\ \A i \in 1..Len(nav') :
                   IF i <= Len(nav) THEN nav'[i] = nav[i]
                   ELSE nav'[i].kind \in {"map", "plans"} /\ nav'[i].visit = 0
<1>1. CASE nav' = Append(nav, Page("map")) \o [i \in 1..(maps + 1) |-> Page("plans")]
  <2>1. /\ Page("map").kind = "map" /\ Page("map").visit = 0
        /\ Page("plans").kind = "plans" /\ Page("plans").visit = 0
    BY PageTyped DEF Kinds
  <2> QED
    BY <1>1, <2>1, Notified DEF TypeOK
<1> QED
  BY <1>1 DEF PlaceChanged

LEMMA MapInPlace ==
    ASSUME TypeOK, NEW s \in Slots, PlanSaved(s)
    PROVE  /\ Len(nav') = 1
           /\ nav'[1].kind = "map" /\ nav'[1].visit = 0 /\ nav'[1].group = groupId
  BY PageTyped, Single DEF PlanSaved, Kinds

LEMMA ListOpened ==
    ASSUME TypeOK, Start
    PROVE  Len(nav') = 1 /\ nav'[1].kind = "groups" /\ nav'[1].visit = 0
  BY PageTyped, Single DEF Start, Kinds

-----------------------------------------------------------------------------
LEMMA StackStep == HomeInv /\ [Next]_vars => StackOrder'
<1> SUFFICES ASSUME HomeInv, [Next]_vars PROVE StackOrder'
  OBVIOUS
<1> USE DEF HomeInv
<1>0. visits \in Nat /\ Len(nav) \in Nat /\ \A i \in 1..Len(nav) : nav[i] \in PageSet
  BY DEF TypeOK
<1>1. ASSUME NEW page \in PageSet, Pushed(page), page.kind # "groups",
             page.kind = "search" => nav[Len(nav)].kind \in {"map", "placeMap"},
             page.kind = "plan" => page.visit \in Visits,
             visits' \in Nat, visits' >= visits, page.visit <= visits'
      PROVE  StackOrder'
  <2> SUFFICES ASSUME NEW i \in 1..Len(nav')
               PROVE  /\ nav'[i].kind = "groups" => i = 1
                      /\ nav'[i].kind = "search" =>
                            i > 1 /\ nav'[i - 1].kind \in {"map", "placeMap"}
                      /\ nav'[i].kind = "plan" => nav'[i].visit \in Visits
                      /\ nav'[i].visit <= visits'
    BY DEF StackOrder
  <2>1. CASE i <= Len(nav)
    <3>1. nav'[i] = nav[i] /\ (i > 1 => nav'[i - 1] = nav[i - 1])
      BY <1>1, <2>1 DEF Pushed
    <3>2. nav[i].visit \in Nat
      BY <1>0, <2>1 DEF PageSet
    <3> QED
      BY <1>0, <1>1, <2>1, <3>1, <3>2 DEF StackOrder
  <2>2. CASE i = Len(nav) + 1
    BY <1>1, <2>2 DEF Pushed
  <2> QED
    BY <1>0, <1>1, <2>1, <2>2 DEF Pushed
<1>2. ASSUME NEW g \in Groups, SelectGroup(g) PROVE StackOrder'
  <2>1. visits' = visits
    BY <1>2 DEF SelectGroup
  <2> QED
    BY <1>0, <1>1, <1>2, <2>1, GroupPushed
<1>3. CASE moveSearch
  <2>1. visits' = visits /\ nav[Len(nav)].kind \in {"map", "placeMap"}
    BY <1>3 DEF moveSearch, Showing, Top
  <2> QED
    BY <1>0, <1>1, <1>3, <2>1, SearchPushed
<1>4. CASE moveToPlans
  <2>1. visits' = visits
    BY <1>4 DEF moveToPlans
  <2> QED
    BY <1>0, <1>1, <1>4, <2>1, PlansPushed
<1>5. CASE OpenPlan
  BY <1>0, <1>1, <1>5, PlanPushed
<1>6. ASSUME NEW p \in Places, SelectPlace(p) PROVE StackOrder'
  <2>1. visits' = visits
    BY <1>6 DEF SelectPlace
  <2> QED
    <3> SUFFICES ASSUME NEW i \in 1..Len(nav')
                 PROVE  /\ nav'[i].kind = "groups" => i = 1
                        /\ nav'[i].kind = "search" =>
                              i > 1 /\ nav'[i - 1].kind \in {"map", "placeMap"}
                        /\ nav'[i].kind = "plan" => nav'[i].visit \in Visits
                        /\ nav'[i].visit <= visits
      BY <2>1 DEF StackOrder
    <3>1. i \in 1..(Len(nav) - 1) /\ i \in 1..Len(nav)
      BY <1>0, <1>6, PlaceChosen
    <3>2. /\ nav'[i].visit = nav[i].visit
          /\ nav'[i].kind = nav[i].kind \/ nav'[i].kind = "placeMap"
      BY <1>6, <3>1, PlaceChosen
    <3>3. i > 1 => \/ nav'[i - 1].kind = nav[i - 1].kind
                   \/ nav'[i - 1].kind = "placeMap"
      BY <1>0, <1>6, <3>1, PlaceChosen
    <3> QED
      BY <3>1, <3>2, <3>3 DEF StackOrder
<1>7. CASE Back
  <2>1. visits' = visits
    BY <1>7 DEF Back
  <2> QED
    BY <1>0, <1>7, <2>1, WentBack DEF StackOrder
<1>8. CASE PlaceChanged
  <2>1. visits' = visits
    BY <1>8 DEF PlaceChanged
  <2>2. CASE nav' = nav
    BY <2>1, <2>2 DEF StackOrder
  <2>3. CASE nav' # nav
    BY <1>0, <1>8, <2>1, <2>3, Notification DEF StackOrder
  <2> QED
    BY <2>2, <2>3
<1>9. ASSUME NEW s \in Slots, PlanSaved(s) PROVE StackOrder'
  <2>1. visits' = visits
    BY <1>9 DEF PlanSaved
  <2> QED
    <3>1. /\ Len(nav') = 1 /\ nav'[1].kind = "map"
          /\ nav'[1].visit = 0
      BY <1>9, MapInPlace
    <3>2. \A i \in 1..Len(nav') : i = 1
      BY <3>1
    <3> QED
      BY <1>0, <2>1, <3>1, <3>2 DEF StackOrder
<1>10. CASE Start
  <2>1. visits' = visits
    BY <1>10 DEF Start
  <2> QED
    <3>1. Len(nav') = 1 /\ nav'[1].kind = "groups" /\ nav'[1].visit = 0
      BY <1>10, ListOpened
    <3>2. \A i \in 1..Len(nav') : i = 1
      BY <3>1
    <3> QED
      BY <1>0, <2>1, <3>1, <3>2 DEF StackOrder
<1>11. CASE Kill
  BY <1>11 DEF Kill, StackOrder
<1>12. CASE UNCHANGED <<nav, visits>>
  BY <1>12 DEF StackOrder
<1> QED
  BY <1>2, <1>3, <1>4, <1>5, <1>6, <1>7, <1>8, <1>9, <1>10, <1>11, <1>12
     DEF Next, Answers, OpenDialog, CloseDialog, Confirm, Serve, PlanFailed, vars

-----------------------------------------------------------------------------
(* Requests                                                                *)

LEMMA Confirmed ==
    ASSUME HomeInv, NEW s \in Slots, Confirm(s)
    PROVE  /\ net[s] = Idle /\ net'[s].status = "sent" /\ net'[s] # Idle
           /\ net'[s].place = items /\ net'[s].group = groupId
           /\ net'[s].page = nav[Len(nav)]
           /\ \A t \in Slots : t # s => net'[t] = net[t]
           /\ nav[Len(nav)].kind = "plan" /\ Len(nav) \in 1..Len(nav)
           /\ net'[s].page.visit \in Visits /\ net'[s].page.visit <= visits
           /\ UNCHANGED <<nav, dialog, items, groupId, saved, visits, pushes, regime>>
<1>1. /\ Len(nav) \in Nat \ {0} /\ Top = nav[Len(nav)] /\ Top.kind = "plan"
      /\ Len(nav) \in 1..Len(nav)
  BY TopIs DEF Confirm, Showing, HomeInv
<1>2. Top.visit \in Visits /\ Top.visit <= visits
  BY <1>1 DEF HomeInv, StackOrder
<1>3. net' = [net EXCEPT ![s] = [status |-> "sent", place |-> items,
                                 group |-> groupId, page |-> Top]]
  BY DEF Confirm
<1>4. net'[s] = [status |-> "sent", place |-> items, group |-> groupId, page |-> Top]
  BY <1>3 DEF HomeInv, TypeOK
<1>5. net'[s].status = "sent" /\ net'[s] # Idle
  BY <1>4 DEF Idle
<1> QED
  BY <1>1, <1>2, <1>3, <1>4, <1>5 DEF Confirm, HomeInv, TypeOK

LEMMA Served ==
    ASSUME HomeInv, NEW s \in Slots, Serve(s)
    PROVE  /\ net[s] # Idle /\ net[s].status = "sent"
           /\ net'[s] # Idle /\ net'[s].status = "saved"
           /\ net'[s].page = net[s].page /\ net'[s].place = net[s].place
           /\ net'[s].group = net[s].group
           /\ net[s].page.visit \in Visits /\ net[s].page.visit <= visits
           /\ \A t \in Slots : t # s => net'[t] = net[t]
           /\ \A v \in Visits : saved'[v] = IF v = net[s].page.visit
                                            THEN saved[v] + 1 ELSE saved[v]
<1>1. net[s] \in Requests /\ net[s].page.visit \in Visits /\ net[s].page.visit <= visits
  BY DEF Serve, HomeInv, TypeOK, RequestOrder
<1>2. net[s] # Idle /\ net[s].status = "sent" /\ net[s].page.visit \in Visits
  BY <1>1 DEF Serve
<1>3. net' = [net EXCEPT ![s] = [net[s] EXCEPT !.status = "saved"]]
  BY Zenon DEF Serve
<1>4. /\ net'[s] = [net[s] EXCEPT !.status = "saved"]
      /\ \A t \in Slots : t # s => net'[t] = net[t]
  BY <1>3 DEF HomeInv, TypeOK
<1>5. /\ net'[s].status = "saved" /\ net'[s].page = net[s].page
      /\ net'[s].place = net[s].place /\ net'[s].group = net[s].group
  BY <1>1, <1>4 DEF Requests
<1>6. net'[s] # Idle
  BY <1>5 DEF Idle
<1>7. \A v \in Visits : saved'[v] = IF v = net[s].page.visit
                                   THEN saved[v] + 1 ELSE saved[v]
  <2> DEFINE w == net[s].page.visit
  <2>1. saved' = [saved EXCEPT ![w] = saved[w] + 1] /\ saved \in [Visits -> Nat]
    BY DEF Serve, HomeInv, TypeOK
  <2> HIDE DEF w
  <2>2. \A v \in Visits : saved'[v] = IF v = w THEN saved[v] + 1 ELSE saved[v]
    BY <2>1
  <2> QED
    BY <2>2 DEF w
<1> QED
  BY <1>1, <1>2, <1>4, <1>5, <1>6, <1>7

(* An answer, lost or not, frees its slot. *)
LEMMA Freed ==
    ASSUME HomeInv, NEW s \in Slots, PlanSaved(s) \/ PlanFailed(s)
    PROVE  /\ net'[s] = Idle /\ \A t \in Slots : t # s => net'[t] = net[t]
           /\ UNCHANGED <<items, groupId, dialog, saved, visits, pushes, regime>>
  BY DEF PlanSaved, PlanFailed, HomeInv, TypeOK

(* Nothing takes a saved plan back. *)
LEMMA SavedGrows ==
    ASSUME HomeInv, [Next]_vars
    PROVE  \A v \in Visits : saved[v] \in Nat /\ saved'[v] >= saved[v]
<1>1. \A v \in Visits : saved[v] \in Nat
  BY DEF HomeInv, TypeOK
<1>2. CASE Kill
  <2>1. PICK served \in SUBSET Slots :
          saved' = [v \in Visits |->
                      saved[v] + Cardinality({s \in served : net[s].page.visit = v})]
    BY <1>2 DEF Kill
  <2>2. ASSUME NEW v \in Visits PROVE saved'[v] >= saved[v]
    <3> DEFINE S == {s \in served : net[s].page.visit = v}
    <3>1. S \in SUBSET Slots
      OBVIOUS
    <3>2. saved'[v] = saved[v] + Cardinality(S)
      BY <2>1
    <3> HIDE DEF S
    <3> QED
      BY <1>1, <3>1, <3>2, Counted
  <2> QED
    BY <1>1, <2>2
<1>3. ASSUME NEW s \in Slots, Serve(s) PROVE \A v \in Visits : saved'[v] >= saved[v]
  BY <1>1, <1>3, Served
<1>4. CASE UNCHANGED saved
  BY <1>1, <1>4
<1> QED
  BY <1>1, <1>2, <1>3, <1>4
     DEF Next, SelectGroup, moveSearch, SelectPlace, moveToPlans, OpenPlan, Back,
         OpenDialog, CloseDialog, Confirm, Answers, PlanSaved, PlanFailed,
         PlaceChanged, Start, vars

LEMMA VisitsGrow == ASSUME HomeInv, [Next]_vars PROVE visits \in Nat /\ visits' \in Nat /\ visits' >= visits
<1>1. CASE OpenPlan
  BY <1>1 DEF OpenPlan, HomeInv, TypeOK
<1>2. CASE UNCHANGED visits
  BY <1>2 DEF HomeInv, TypeOK
<1> QED
  BY <1>1, <1>2
     DEF Next, SelectGroup, moveSearch, SelectPlace, moveToPlans, Back,
         OpenDialog, CloseDialog, Confirm, Answers, Serve, PlanSaved, PlanFailed,
         PlaceChanged, Start, Kill, vars

LEMMA RequestStep == HomeInv /\ [Next]_vars => RequestOrder'
<1> SUFFICES ASSUME HomeInv, [Next]_vars PROVE RequestOrder'
  OBVIOUS
<1>0. /\ \A v \in Visits : saved[v] \in Nat /\ saved'[v] \in Nat /\ saved'[v] >= saved[v]
      /\ visits \in Nat /\ visits' \in Nat /\ visits' >= visits
      /\ \A v \in Visits : v \in Nat
  <2>1. \A v \in Visits : saved[v] \in Nat /\ saved'[v] >= saved[v]
    BY SavedGrows
  <2>2. TypeOK'
    BY TypeStep DEF HomeInv
  <2>3. \A v \in Visits : saved'[v] \in Nat
    BY <2>2 DEF TypeOK
  <2>4. \A v \in Visits : v \in Nat
    BY DEF Visits
  <2> QED
    BY <2>1, <2>3, <2>4, VisitsGrow
<1>1. ASSUME NEW s \in Slots, net'[s] = net[s], net'[s] # Idle
      PROVE  /\ net'[s].page.visit \in Visits /\ net'[s].page.visit <= visits'
             /\ net'[s].status = "saved" => saved'[net'[s].page.visit] > 0
  BY <1>0, <1>1 DEF HomeInv, RequestOrder
<1>2. ASSUME NEW s \in Slots, Confirm(s) PROVE RequestOrder'
  BY <1>1, <1>2, Confirmed DEF RequestOrder
<1>3. ASSUME NEW s \in Slots, Serve(s) PROVE RequestOrder'
  <2>1. saved'[net[s].page.visit] > 0
    BY <1>0, <1>3, Served
  <2>2. visits' = visits
    BY <1>3 DEF Serve
  <2> QED
    BY <1>1, <1>3, <2>1, <2>2, Served DEF RequestOrder
<1>4. ASSUME NEW s \in Slots, PlanSaved(s) \/ PlanFailed(s) PROVE RequestOrder'
  BY <1>1, <1>4, Freed DEF RequestOrder
<1>5. CASE Kill
  BY <1>5 DEF Kill, RequestOrder
<1>6. CASE UNCHANGED net
  BY <1>1, <1>6 DEF RequestOrder
<1> QED
  BY <1>2, <1>3, <1>4, <1>5, <1>6
     DEF Next, SelectGroup, moveSearch, SelectPlace, moveToPlans, OpenPlan, Back,
         OpenDialog, CloseDialog, Answers, PlaceChanged, Start, vars

LEMMA HomeInit == Init => HomeInv
<1>1. Init => StackOrder
  BY DEF Init, StackOrder
<1>2. Init => RequestOrder
  BY DEF Init, RequestOrder
<1> QED
  BY <1>1, <1>2, TypeInit DEF HomeInv

LEMMA HomeInvStep == HomeInv /\ [Next]_vars => HomeInv'
  BY TypeStep, StackStep, RequestStep DEF HomeInv

-----------------------------------------------------------------------------
(* The way back to the list                                                *)

-----------------------------------------------------------------------------
(* The way back to the list                                                *)

(* The list is the first page until a plan is saved. *)
ListBelow == nav # <<>> => nav[1].kind = "groups" \/ \E v \in Visits : saved[v] > 0

LEMMA ListStep == HomeInv /\ ListBelow /\ [Next]_vars => ListBelow'
<1> SUFFICES ASSUME HomeInv, ListBelow, [Next]_vars PROVE ListBelow'
  OBVIOUS
<1>0. /\ \A v \in Visits : saved[v] \in Nat /\ saved'[v] \in Nat /\ saved'[v] >= saved[v]
      /\ Len(nav) \in Nat /\ TypeOK /\ StackOrder
      /\ nav # <<>> <=> Len(nav) > 0
  <2>1. TypeOK' /\ TypeOK
    BY TypeStep DEF HomeInv
  <2> QED
    BY <2>1, SavedGrows DEF HomeInv, TypeOK
<1>1. ASSUME nav # <<>>, nav'[1].kind = nav[1].kind PROVE ListBelow'
  <2>1. CASE nav[1].kind = "groups"
    BY <1>1, <2>1 DEF ListBelow
  <2>2. CASE \E v \in Visits : saved[v] > 0
    BY <1>0, <2>2 DEF ListBelow
  <2> QED
    BY <1>1, <2>1, <2>2 DEF ListBelow
<1>2. ASSUME NEW page, Pushed(page) PROVE ListBelow'
  BY <1>0, <1>1, <1>2 DEF Pushed
<1>3. ASSUME NEW g \in Groups, SelectGroup(g) PROVE ListBelow'
  BY <1>0, <1>2, <1>3, GroupPushed
<1>4. CASE moveSearch
  BY <1>0, <1>2, <1>4, SearchPushed
<1>5. CASE moveToPlans
  BY <1>0, <1>2, <1>5, PlansPushed
<1>6. CASE OpenPlan
  BY <1>0, <1>2, <1>6, PlanPushed
<1>7. ASSUME NEW p \in Places, SelectPlace(p) PROVE ListBelow'
  <2>1. /\ Len(nav) > 1
        /\ nav[Len(nav) - 1].kind \in {"map", "placeMap"}
        /\ \A i \in 1..(Len(nav) - 1) :
             nav'[i].kind = IF i = Len(nav) - 1 THEN "placeMap" ELSE nav[i].kind
        /\ 1 \in 1..(Len(nav) - 1)
    BY <1>0, <1>7, PlaceChosen
  <2>2. CASE Len(nav) = 2
    <3>1. Len(nav) - 1 = 1 /\ nav # <<>>
      BY <1>0, <2>2
    <3>2. nav[1].kind # "groups"
      BY <2>1, <3>1
    <3>3. PICK v \in Visits : saved[v] > 0
      BY <3>1, <3>2 DEF ListBelow
    <3> QED
      BY <1>0, <3>3 DEF ListBelow
  <2>3. CASE Len(nav) # 2
    <3>1. 1 # Len(nav) - 1 /\ nav # <<>>
      BY <1>0, <2>1, <2>3
    <3> QED
      BY <1>1, <2>1, <3>1
  <2> QED
    BY <2>2, <2>3
<1>8. CASE Back
  BY <1>0, <1>1, <1>8, WentBack
<1>9. CASE PlaceChanged
  <2>1. nav'[1] = nav[1] /\ nav # <<>>
    BY <1>0, <1>9, Notification DEF PlaceChanged
  <2> QED
    BY <1>1, <2>1
<1>10. ASSUME NEW s \in Slots, PlanSaved(s) PROVE ListBelow'
  <2>1. saved[net[s].page.visit] > 0 /\ net[s].page.visit \in Visits
    BY <1>10 DEF PlanSaved, HomeInv, RequestOrder
  <2> QED
    BY <1>0, <2>1 DEF ListBelow
<1>11. CASE Start
  BY <1>0, <1>11, ListOpened DEF ListBelow
<1>12. CASE Kill
  BY <1>12 DEF Kill, ListBelow
<1>13. CASE UNCHANGED nav
  BY <1>0, <1>13 DEF ListBelow
<1> QED
  BY <1>3, <1>4, <1>5, <1>6, <1>7, <1>8, <1>9, <1>10, <1>11, <1>12, <1>13
     DEF Next, Answers, OpenDialog, CloseDialog, Confirm, Serve, PlanFailed, vars

LEMMA HomeInductive == Spec => []HomeInv
  BY HomeInit, HomeInvStep, PTL DEF Spec

(* Through any number of notifications, back steps, chosen places, answers   *)
(* and restarts, only a saved plan takes the list of groups, and the listener *)
(* with it, off the stack.                                                   *)
THEOREM ListLost == Spec => []ListLostBySaving
<1>1. Init => ListBelow
  BY DEF Init, ListBelow
<1>2. HomeInv /\ ListBelow => ListLostBySaving
  <2> SUFFICES ASSUME HomeInv, ListBelow, nav # <<>>
               PROVE  Hears \/ \E v \in Visits : saved[v] > 0
    BY DEF ListLostBySaving
  <2>1. 1 \in 1..Len(nav)
    BY DEF HomeInv, TypeOK
  <2> QED
    BY <2>1 DEF ListBelow, Hears
<1> QED
  BY <1>1, <1>2, ListStep, HomeInductive, PTL DEF Spec

-----------------------------------------------------------------------------
(* Page and keychain                                                       *)

(* Without notifications the pages but the list are of the group in the      *)
(* keychain, and a plan page is on top and of the place there.               *)
PagesAreCurrent ==
    pushes = 0 =>
        /\ \A i \in 1..Len(nav) :
            /\ nav[i].kind # "groups" => nav[i].group = groupId
            /\ nav[i].kind = "plan" =>
                    i = Len(nav) /\ nav[i].label = items["placeName"]
        /\ dialog # 0 => dialog >= Len(nav)

ShownInv == PagesAreCurrent /\ SendsWhatPageShows

LEMMA ShownStep == HomeInv /\ ShownInv /\ [Next]_vars => ShownInv'
<1> SUFFICES ASSUME HomeInv, ShownInv, [Next]_vars PROVE ShownInv'
  OBVIOUS
<1>0. /\ TypeOK /\ StackOrder /\ Len(nav) \in Nat /\ dialog \in Nat
      /\ pushes \in Nat
  BY DEF HomeInv, TypeOK
<1>1. CASE PlaceChanged \/ pushes # 0
  <2>1. pushes' = IF PlaceChanged THEN pushes + 1 ELSE pushes
    <3>1. CASE PlaceChanged
      BY <3>1 DEF PlaceChanged
    <3>2. CASE ~PlaceChanged
      BY <3>2
         DEF Next, SelectGroup, moveSearch, SelectPlace, moveToPlans, OpenPlan, Back,
             OpenDialog, CloseDialog, Confirm, Answers, Serve, PlanSaved, PlanFailed,
             Start, Kill, vars
    <3> QED
      BY <3>1, <3>2
  <2> QED
    BY <1>0, <1>1, <2>1 DEF ShownInv, PagesAreCurrent, SendsWhatPageShows
<1> SUFFICES ASSUME pushes = 0, ~PlaceChanged PROVE ShownInv'
  BY <1>1
<1>2. /\ \A i \in 1..Len(nav) :
            /\ nav[i].kind # "groups" => nav[i].group = groupId
            /\ nav[i].kind = "plan" =>
                    i = Len(nav) /\ nav[i].label = items["placeName"]
      /\ dialog # 0 => dialog >= Len(nav)
  BY DEF ShownInv, PagesAreCurrent
<1>3. UNCHANGED net => SendsWhatPageShows'
  BY DEF ShownInv, SendsWhatPageShows
<1>4. ASSUME NEW page, Pushed(page), dialog' = 0, net' = net, items' = items,
             nav[Len(nav)].kind # "plan",
             page.group = groupId', page.kind # "groups",
             page.kind = "plan" => page.label = items["placeName"],
             \A i \in 1..Len(nav) : nav[i].kind # "groups" => nav[i].group = groupId'
      PROVE  ShownInv'
  <2>1. ASSUME NEW i \in 1..Len(nav')
        PROVE  /\ nav'[i].kind # "groups" => nav'[i].group = groupId'
               /\ nav'[i].kind = "plan" =>
                       i = Len(nav') /\ nav'[i].label = items'["placeName"]
    <3>1. CASE i \in 1..Len(nav)
      BY <1>0, <1>2, <1>4, <3>1 DEF Pushed
    <3>2. CASE i = Len(nav) + 1
      BY <1>0, <1>4, <3>2 DEF Pushed
    <3> QED
      BY <1>0, <1>4, <3>1, <3>2 DEF Pushed
  <2> QED
    BY <1>3, <1>4, <2>1 DEF ShownInv, PagesAreCurrent
<1>5. ASSUME NEW g \in Groups, SelectGroup(g) PROVE ShownInv'
  <2>1. Len(nav) = 1 /\ nav[1].kind = "groups" /\ dialog = 0
    <3>1. nav # <<>> /\ Top.kind = "groups" /\ dialog = 0
      BY <1>5 DEF SelectGroup, Showing
    <3>2. Len(nav) \in 1..Len(nav) /\ Top = nav[Len(nav)]
      BY <1>0, <3>1, TopIs
    <3> QED
      BY <1>0, <3>1, <3>2 DEF StackOrder
  <2>2. groupId' = g /\ dialog' = 0 /\ net' = net /\ items' = items
    BY <1>5, <2>1 DEF SelectGroup
  <2> QED
    BY <1>0, <1>4, <1>5, <2>1, <2>2, GroupPushed
<1>6. CASE OpenPlan
  <2>1. /\ nav # <<>> /\ Top.kind \in {"plans", "placePlans"} /\ dialog' = 0
        /\ groupId' = groupId /\ net' = net /\ items' = items
    BY <1>6 DEF OpenPlan, Showing
  <2>2. Top = nav[Len(nav)] /\ Len(nav) \in 1..Len(nav)
    BY <1>0, <2>1, TopIs
  <2>3. Top.group = groupId
    BY <1>2, <2>1, <2>2
  <2> QED
    BY <1>0, <1>2, <1>4, <1>6, <2>1, <2>2, <2>3, PlanPushed
<1>7. CASE moveToPlans
  <2>1. groupId' = groupId /\ net' = net /\ items' = items /\ dialog' = 0
    BY <1>7 DEF moveToPlans
  <2>2. PICK page \in PageSet, i \in 1..Len(nav) :
          /\ Pushed(page)
          /\ page.group = nav[i].group
          /\ \/ /\ page.kind = "placePlans" /\ i = dialog /\ nav[i].kind = "placeMap"
             \/ /\ page.kind = "plans" /\ dialog = 0
                /\ i = Len(nav) /\ nav[i].kind = "map"
    BY <1>0, <1>7, PlansPushed
  <2>3. i = Len(nav) /\ nav[i].kind \in {"map", "placeMap"}
    BY <1>0, <1>2, <2>2
  <2>4. page.group = groupId'
    BY <1>2, <2>1, <2>2, <2>3
  <2> QED
    BY <1>2, <1>4, <2>1, <2>2, <2>3, <2>4
<1>8. CASE moveSearch
  <2>1. /\ groupId' = groupId /\ net' = net /\ dialog' = 0
        /\ nav # <<>> /\ Top.kind \in {"map", "placeMap"}
        /\ items'["placeName"] = items["placeName"]
    BY <1>0, <1>8 DEF moveSearch, Showing, TypeOK, Items
  <2>2. Top = nav[Len(nav)] /\ Len(nav) \in 1..Len(nav) /\ Top.group = groupId
    BY <1>0, <1>2, <2>1, TopIs
  <2>3. PICK page \in PageSet :
          Pushed(page) /\ page.kind = "search" /\ page.group = groupId
    BY <1>0, <1>8, <2>2, SearchPushed
  <2>4. ASSUME NEW i \in 1..Len(nav')
        PROVE  /\ nav'[i].kind # "groups" => nav'[i].group = groupId'
               /\ nav'[i].kind # "plan"
    <3>1. CASE i \in 1..Len(nav)
      BY <1>0, <1>2, <2>1, <2>2, <2>3, <3>1 DEF Pushed
    <3>2. CASE i = Len(nav) + 1
      BY <1>0, <2>1, <2>3, <3>2 DEF Pushed
    <3> QED
      BY <1>0, <2>3, <3>1, <3>2 DEF Pushed
  <2> QED
    BY <1>3, <2>1, <2>4 DEF ShownInv, PagesAreCurrent
<1>9. ASSUME NEW p \in Places, SelectPlace(p) PROVE ShownInv'
  <2>1. /\ groupId' = groupId /\ net' = net /\ dialog' = 0
    BY <1>9 DEF SelectPlace, Showing
  <2>2. /\ Len(nav') = Len(nav) - 1 /\ Len(nav) > 1
        /\ nav[Len(nav) - 1].kind # "groups"
        /\ \A i \in 1..(Len(nav) - 1) :
             /\ nav'[i].group = nav[i].group
             /\ nav'[i].kind = IF i = Len(nav) - 1 THEN "placeMap" ELSE nav[i].kind
    BY <1>0, <1>9, PlaceChosen
  <2>3. ASSUME NEW i \in 1..Len(nav')
        PROVE  /\ nav'[i].kind # "groups" => nav'[i].group = groupId'
               /\ nav'[i].kind # "plan"
    <3>1. i \in 1..(Len(nav) - 1) /\ i \in 1..Len(nav) /\ i # Len(nav)
      BY <1>0, <2>2
    <3> QED
      BY <1>2, <2>1, <2>2, <3>1
  <2> QED
    BY <1>3, <2>1, <2>3 DEF ShownInv, PagesAreCurrent
<1>10. CASE Back
  <2>1. /\ groupId' = groupId /\ net' = net /\ dialog' = 0
    BY <1>10 DEF Back
  <2>2. ASSUME NEW i \in 1..Len(nav')
        PROVE  /\ nav'[i].kind # "groups" => nav'[i].group = groupId'
               /\ nav'[i].kind # "plan"
    <3>1. i \in 1..Len(nav) /\ i # Len(nav) /\ nav'[i] = nav[i]
      BY <1>0, <1>10, WentBack
    <3> QED
      BY <1>2, <2>1, <3>1
  <2> QED
    BY <1>3, <2>1, <2>2 DEF ShownInv, PagesAreCurrent
<1>11. ASSUME NEW s \in Slots, PlanSaved(s) PROVE ShownInv'
  <2>1. Len(nav') = 1 /\ nav'[1].kind = "map" /\ nav'[1].group = groupId
    BY <1>0, <1>11, MapInPlace
  <2>2. /\ groupId' = groupId /\ dialog' = dialog /\ pushes' = pushes
        /\ net'[s] = Idle /\ \A t \in Slots : t # s => net'[t] = net[t]
    BY <1>11, Freed
  <2>3. PagesAreCurrent'
    <3>1. \A i \in 1..Len(nav') : i = 1
      BY <2>1
    <3> QED
      BY <1>0, <2>1, <2>2, <3>1 DEF PagesAreCurrent
  <2> QED
    BY <2>2, <2>3 DEF ShownInv, SendsWhatPageShows
<1>12. CASE Start
  <2>1. Len(nav') = 1 /\ nav'[1].kind = "groups" /\ dialog' = dialog /\ net' = net
    BY <1>0, <1>12, ListOpened DEF Start
  <2>2. \A i \in 1..Len(nav') : i = 1
    BY <2>1
  <2> QED
    BY <1>0, <1>3, <2>1, <2>2 DEF ShownInv, PagesAreCurrent
<1>13. CASE Kill
  <2>1. nav' = <<>> /\ dialog' = 0 /\ \A s \in Slots : net'[s] = Idle
    BY <1>13 DEF Kill
  <2> QED
    BY <2>1 DEF ShownInv, PagesAreCurrent, SendsWhatPageShows
<1>14. ASSUME NEW s \in Slots, Confirm(s) PROVE ShownInv'
  <2>1. PagesAreCurrent'
    BY <1>2, <1>14, Confirmed DEF PagesAreCurrent
  <2>2. /\ net'[s].place["placeName"] = net'[s].page.label
        /\ net'[s].group = net'[s].page.group
    BY <1>2, <1>14, Confirmed
  <2> QED
    BY <1>14, <2>1, <2>2, Confirmed DEF ShownInv, SendsWhatPageShows
<1>15. ASSUME NEW s \in Slots, Serve(s) PROVE ShownInv'
  <2>1. PagesAreCurrent'
    BY <1>15 DEF Serve, ShownInv, PagesAreCurrent
  <2> QED
    BY <1>15, <2>1, Served DEF ShownInv, SendsWhatPageShows
<1>16. ASSUME NEW s \in Slots, PlanFailed(s) PROVE ShownInv'
  <2>1. PagesAreCurrent'
    BY <1>16 DEF PlanFailed, ShownInv, PagesAreCurrent
  <2> QED
    BY <1>16, <2>1, Freed DEF ShownInv, SendsWhatPageShows
<1>17. CASE OpenDialog
  <2>1. UNCHANGED <<nav, items, groupId, net, pushes>> /\ dialog' = Len(nav)
    BY <1>17 DEF OpenDialog
  <2> QED
    BY <1>0, <1>2, <1>3, <2>1 DEF ShownInv, PagesAreCurrent
<1>18. CASE CloseDialog
  <2>1. UNCHANGED <<nav, items, groupId, net, pushes>> /\ dialog' = 0
    BY <1>18 DEF CloseDialog
  <2> QED
    BY <1>2, <1>3, <2>1 DEF ShownInv, PagesAreCurrent
<1>19. CASE UNCHANGED vars
  BY <1>19 DEF vars, ShownInv, PagesAreCurrent, SendsWhatPageShows
<1> QED
  BY <1>5, <1>6, <1>7, <1>8, <1>9, <1>10, <1>11, <1>12, <1>13, <1>14, <1>15,
     <1>16, <1>17, <1>18, <1>19 DEF Next, Answers

(* As long as no notification comes between page and keychain, a plan asked  *)
(* for is the one its page shows, whatever the user does and however answers  *)
(* and restarts interleave with it.                                          *)
THEOREM PageIsSent == Spec => []SendsWhatPageShows
<1>1. Init => ShownInv
  BY DEF Init, ShownInv, PagesAreCurrent, SendsWhatPageShows
<1>2. ShownInv => SendsWhatPageShows
  BY DEF ShownInv
<1> QED
  BY <1>1, <1>2, ShownStep, HomeInductive, PTL DEF Spec

-----------------------------------------------------------------------------
(* One destination                                                         *)

Whole == \A i, j \in Items : items[i] = items[j]

(* While the items are of more than one place, a search is open above every  *)
(* page that leads to a plan, and no alert of a sheet waits for its answer.  *)
SearchAbove ==
    ~Whole =>
        /\ \A i \in 1..Len(nav) :
            nav[i].kind \in {"placeMap", "placePlans", "plan"} =>
                \E j \in 1..Len(nav) : j > i /\ nav[j].kind = "search"
        /\ dialog \in 1..Len(nav) => nav[dialog].kind # "placeMap"

Stays == ~regime.abandons /\ \A p \in Places : regime.provides[p] = Items

WholeInv == Stays => SearchAbove /\ PlanHasOnePlace

LEMMA WholeStep == HomeInv /\ WholeInv /\ [Next]_vars => WholeInv'
<1> SUFFICES ASSUME HomeInv, WholeInv, [Next]_vars PROVE WholeInv'
  OBVIOUS
<1>0. /\ TypeOK /\ StackOrder /\ Len(nav) \in Nat /\ dialog \in Nat
  BY DEF HomeInv, TypeOK
<1>1. regime' = regime
  BY DEF Next, SelectGroup, moveSearch, SelectPlace, moveToPlans, OpenPlan, Back,
     OpenDialog, CloseDialog, Confirm, Answers, Serve, PlanSaved, PlanFailed,
     PlaceChanged, Start, Kill, vars
<1> SUFFICES ASSUME Stays PROVE SearchAbove' /\ PlanHasOnePlace'
  BY <1>1 DEF WholeInv, Stays
<1>2. SearchAbove /\ PlanHasOnePlace
  BY DEF WholeInv
<1>3. UNCHANGED net => PlanHasOnePlace'
  BY <1>2 DEF PlanHasOnePlace
<1>4. UNCHANGED items => Whole' = Whole
  BY DEF Whole
<1>5. ASSUME NEW page, Pushed(page), dialog' = 0, items' = items, net' = net,
             page.kind \in {"placeMap", "placePlans", "plan"} => Whole
      PROVE  SearchAbove' /\ PlanHasOnePlace'
  <2>1. ASSUME ~Whole, NEW i \in 1..Len(nav'),
               nav'[i].kind \in {"placeMap", "placePlans", "plan"}
        PROVE  \E j \in 1..Len(nav') : j > i /\ nav'[j].kind = "search"
    <3>1. i \in 1..Len(nav) /\ nav'[i] = nav[i]
      BY <1>0, <1>5, <2>1 DEF Pushed
    <3>2. PICK j \in 1..Len(nav) : j > i /\ nav[j].kind = "search"
      BY <1>2, <2>1, <3>1 DEF SearchAbove
    <3> QED
      BY <1>0, <1>5, <3>2 DEF Pushed
  <2> QED
    BY <1>3, <1>4, <1>5, <2>1 DEF SearchAbove
<1>6. ASSUME NEW g \in Groups, SelectGroup(g) PROVE SearchAbove' /\ PlanHasOnePlace'
  <2>1. UNCHANGED <<items, net>> /\ dialog' = 0
    BY <1>6 DEF SelectGroup, Showing
  <2> QED
    BY <1>0, <1>5, <1>6, <2>1, GroupPushed
<1>7. CASE moveSearch
  <2>1. net' = net /\ dialog' = 0
    BY <1>7 DEF moveSearch, Showing
  <2>2. PICK page \in PageSet : Pushed(page) /\ page.kind = "search"
    BY <1>0, <1>7, SearchPushed
  <2>3. ASSUME NEW i \in 1..Len(nav'),
               nav'[i].kind \in {"placeMap", "placePlans", "plan"}
        PROVE  \E j \in 1..Len(nav') : j > i /\ nav'[j].kind = "search"
    <3>1. Len(nav') \in 1..Len(nav') /\ nav'[Len(nav')].kind = "search"
      BY <1>0, <2>2 DEF Pushed
    <3>2. i < Len(nav')
      BY <2>3, <3>1
    <3> QED
      BY <3>1, <3>2
  <2> QED
    BY <1>3, <2>1, <2>3 DEF SearchAbove
<1>8. ASSUME NEW p \in Places, SelectPlace(p) PROVE SearchAbove' /\ PlanHasOnePlace'
  <2>1. net' = net /\ items' = [i \in Items |-> p]
    BY <1>8 DEF SelectPlace, Stays
  <2>2. Whole'
    BY <2>1 DEF Whole
  <2> QED
    BY <1>3, <2>1, <2>2 DEF SearchAbove
<1>9. CASE moveToPlans
  <2>1. UNCHANGED <<items, net>> /\ dialog' = 0
    BY <1>9 DEF moveToPlans
  <2>2. PICK page \in PageSet, i \in 1..Len(nav) :
          /\ Pushed(page)
          /\ \/ page.kind = "placePlans" /\ i = dialog /\ nav[i].kind = "placeMap"
             \/ page.kind = "plans"
    BY <1>0, <1>9, PlansPushed
  <2>3. page.kind = "placePlans" => Whole
    BY <1>2, <2>2 DEF SearchAbove
  <2> QED
    BY <1>5, <2>1, <2>2, <2>3
<1>10. CASE OpenPlan
  <2>1. UNCHANGED <<items, net>> /\ dialog' = 0 /\ nav # <<>>
    BY <1>10 DEF OpenPlan, Showing
  <2>2. PICK page \in PageSet :
          /\ Pushed(page)
          /\ \/ page.kind = "plan" /\ Top.kind = "placePlans"
             \/ page.kind = "findRoad"
    BY <1>0, <1>10, PlanPushed
  <2>3. page.kind = "plan" => Whole
    BY <1>0, <1>2, <2>1, <2>2, TopIs DEF SearchAbove
  <2> QED
    BY <1>5, <2>1, <2>2, <2>3
<1>11. CASE Back
  <2>1. UNCHANGED <<items, net>> /\ dialog' = 0 /\ nav # <<>> /\ Top.kind # "search"
    BY <1>0, <1>11 DEF Back, Showing, Stays
  <2>2. Top = nav[Len(nav)]
    BY <1>0, <2>1, TopIs
  <2>3. ASSUME ~Whole, NEW i \in 1..Len(nav'),
               nav'[i].kind \in {"placeMap", "placePlans", "plan"}
        PROVE  \E j \in 1..Len(nav') : j > i /\ nav'[j].kind = "search"
    <3>1. i \in 1..Len(nav) /\ nav'[i] = nav[i]
      BY <1>0, <1>11, WentBack
    <3>2. PICK j \in 1..Len(nav) : j > i /\ nav[j].kind = "search"
      BY <1>2, <2>3, <3>1 DEF SearchAbove
    <3>3. j # Len(nav)
      BY <2>1, <2>2, <3>2
    <3>4. j \in 1..Len(nav') /\ nav'[j] = nav[j]
      BY <1>0, <1>11, <3>3, WentBack
    <3> QED
      BY <3>2, <3>4
  <2> QED
    BY <1>3, <1>4, <2>1, <2>3 DEF SearchAbove
<1>12. CASE PlaceChanged
  <2>1. UNCHANGED <<items, net>> /\ dialog' = dialog
    BY <1>12 DEF PlaceChanged
  <2>2. CASE nav' = nav
    BY <1>2, <1>3, <1>4, <2>1, <2>2 DEF SearchAbove
  <2>3. CASE nav' # nav
    <3>1. /\ Len(nav') \in Nat /\ Len(nav') > Len(nav)
          /\ \A i \in 1..Len(nav') :
               \/ i \in 1..Len(nav) /\ nav'[i] = nav[i]
               \/ nav'[i].kind \in {"map", "plans"}
      BY <1>0, <1>12, <2>3, Notification
    <3>2. \A i \in 1..Len(nav) : nav'[i] = nav[i] /\ i \in 1..Len(nav')
      BY <1>0, <1>12, <2>3, Notification
    <3>3. ASSUME ~Whole, NEW i \in 1..Len(nav'),
                 nav'[i].kind \in {"placeMap", "placePlans", "plan"}
          PROVE  \E j \in 1..Len(nav') : j > i /\ nav'[j].kind = "search"
      <4>1. i \in 1..Len(nav) /\ nav'[i] = nav[i]
        BY <3>1, <3>3
      <4>2. PICK j \in 1..Len(nav) : j > i /\ nav[j].kind = "search"
        BY <1>2, <3>3, <4>1 DEF SearchAbove
      <4> QED
        BY <3>2, <4>2
    <3>4. (~Whole /\ dialog \in 1..Len(nav')) => nav'[dialog].kind # "placeMap"
      BY <1>2, <3>1 DEF SearchAbove
    <3> QED
      BY <1>3, <1>4, <2>1, <3>3, <3>4 DEF SearchAbove
  <2> QED
    BY <2>2, <2>3
<1>13. ASSUME NEW s \in Slots, PlanSaved(s) PROVE SearchAbove' /\ PlanHasOnePlace'
  <2>1. \A i \in 1..Len(nav') : nav'[i].kind = "map"
    BY <1>0, <1>13, MapInPlace
  <2>2. net'[s] = Idle /\ \A t \in Slots : t # s => net'[t] = net[t]
    BY <1>13, Freed
  <2> QED
    BY <1>2, <2>1, <2>2 DEF SearchAbove, PlanHasOnePlace
<1>14. CASE Start
  <2>1. \A i \in 1..Len(nav') : nav'[i].kind = "groups"
    <3>1. Len(nav') = 1 /\ nav'[1].kind = "groups"
      BY <1>0, <1>14, ListOpened
    <3>2. \A i \in 1..Len(nav') : i = 1
      BY <3>1
    <3> QED
      BY <3>1, <3>2
  <2>2. net' = net
    BY <1>14 DEF Start
  <2> QED
    BY <1>3, <2>1, <2>2 DEF SearchAbove
<1>15. CASE Kill
  <2>1. nav' = <<>> /\ \A s \in Slots : net'[s] = Idle
    BY <1>15 DEF Kill
  <2> QED
    BY <2>1 DEF SearchAbove, PlanHasOnePlace
<1>16. ASSUME NEW s \in Slots, Confirm(s) PROVE SearchAbove' /\ PlanHasOnePlace'
  <2>1. Whole
    BY <1>0, <1>2, <1>16, Confirmed DEF SearchAbove
  <2>2. UNCHANGED <<nav, dialog, items>> /\ net'[s].place = items
    BY <1>16, Confirmed
  <2>3. \A t \in Slots : t # s => net'[t] = net[t]
    BY <1>16, Confirmed
  <2>4. SearchAbove'
    BY <1>2, <1>4, <2>2 DEF SearchAbove
  <2>5. PlanHasOnePlace'
    BY <1>2, <2>1, <2>2, <2>3 DEF PlanHasOnePlace, Whole
  <2> QED
    BY <2>4, <2>5
<1>17. ASSUME NEW s \in Slots, Serve(s) PROVE SearchAbove' /\ PlanHasOnePlace'
  <2>1. UNCHANGED <<nav, dialog, items>>
    BY <1>17 DEF Serve
  <2>2. SearchAbove'
    BY <1>2, <1>4, <2>1 DEF SearchAbove
  <2> QED
    BY <1>2, <1>17, <2>2, Served DEF PlanHasOnePlace
<1>18. ASSUME NEW s \in Slots, PlanFailed(s) PROVE SearchAbove' /\ PlanHasOnePlace'
  <2>1. UNCHANGED <<nav, dialog, items>>
    BY <1>18 DEF PlanFailed
  <2>2. SearchAbove'
    BY <1>2, <1>4, <2>1 DEF SearchAbove
  <2> QED
    BY <1>2, <1>18, <2>2, Freed DEF PlanHasOnePlace
<1>19. CASE OpenDialog
  <2>1. UNCHANGED <<nav, items, net>> /\ dialog' = Len(nav)
    BY <1>19 DEF OpenDialog
  <2>2. ASSUME ~Whole, Len(nav) \in 1..Len(nav) PROVE nav[Len(nav)].kind # "placeMap"
    BY <1>0, <1>2, <2>2 DEF SearchAbove
  <2> QED
    BY <1>2, <1>3, <1>4, <2>1, <2>2 DEF SearchAbove
<1>20. CASE CloseDialog
  <2>1. UNCHANGED <<nav, items, net>> /\ dialog' = 0
    BY <1>20 DEF CloseDialog
  <2> QED
    BY <1>2, <1>3, <1>4, <2>1 DEF SearchAbove
<1>21. CASE UNCHANGED vars
  BY <1>2, <1>3, <1>4, <1>21 DEF vars, SearchAbove
<1> QED
  BY <1>6, <1>7, <1>8, <1>9, <1>10, <1>11, <1>12, <1>13, <1>14, <1>15, <1>16,
     <1>17, <1>18, <1>19, <1>20, <1>21 DEF Next, Answers

(* For any places, groups and bounds: if a search always ends in a choice    *)
(* and the service gives every field of a place, the items written and read  *)
(* pages apart are those of one place, whatever is tapped, lost, notified or *)
(* restarted in between.                                                     *)
THEOREM OneDestination == Spec => []WholePlace
<1>1. Init => WholeInv
  BY DEF Init, WholeInv, SearchAbove, PlanHasOnePlace, Whole
<1>2. WholeInv => WholePlace
  BY DEF WholeInv, WholePlace, Stays
<1> QED
  BY <1>1, <1>2, WholeStep, HomeInductive, PTL DEF Spec

-----------------------------------------------------------------------------
(* One plan a visit                                                        *)

(* A visit has one request at most, and after the plan is saved either that  *)
(* request still waits for its answer or the page of the visit is gone.      *)
Once ==
    /\ \A v \in Visits :
        /\ saved[v] <= 1
        /\ v > visits => saved[v] = 0
        /\ saved[v] = 1 =>
             \/ \E s \in Slots : net[s] # Idle /\ net[s].page.visit = v
             \/ \A i \in 1..Len(nav) : nav[i].visit # v
    /\ \A s \in Slots : net[s] # Idle =>
        /\ net[s].status = "sent" => saved[net[s].page.visit] = 0
        /\ \A t \in Slots : net[t] # Idle /\ net[t].page.visit = net[s].page.visit => s = t

OnceInv == regime.patient /\ regime.lossless => Once

LEMMA KilledOnce ==
    ASSUME HomeInv, Once, Kill, NEW v \in Visits
    PROVE  saved'[v] <= 1 /\ (v > visits => saved'[v] = 0)
<1>1. PICK served \in SUBSET {s \in Slots : net[s] # Idle /\ net[s].status = "sent"} :
        saved' = [w \in Visits |->
                    saved[w] + Cardinality({s \in served : net[s].page.visit = w})]
  BY DEF Kill
<1> DEFINE S == {s \in served : net[s].page.visit = v}
<1>2. S \subseteq Slots
  OBVIOUS
<1>3. saved'[v] = saved[v] + Cardinality(S) /\ saved[v] \in Nat /\ saved[v] <= 1
  BY <1>1 DEF HomeInv, TypeOK, Once
<1>4. \A s \in S : /\ saved[v] = 0
                   /\ \A t \in S : s = t
                   /\ v <= visits
  BY DEF Once, HomeInv, RequestOrder
<1> HIDE DEF S
<1>5. v \in Nat /\ visits \in Nat
  BY DEF Visits, HomeInv, TypeOK
<1>6. CASE S = {}
  BY <1>3, <1>6, FS_EmptySet DEF Once
<1>7. CASE S # {}
  <2>1. PICK s \in S : S = {s}
    BY <1>4, <1>7
  <2>2. Cardinality(S) = 1
    BY <2>1, FS_Singleton
  <2> QED
    BY <1>3, <1>4, <1>5, <2>1, <2>2
<1> QED
  BY <1>6, <1>7

LEMMA OnceStep == HomeInv /\ OnceInv /\ [Next]_vars => OnceInv'
<1> SUFFICES ASSUME HomeInv, OnceInv, [Next]_vars PROVE OnceInv'
  OBVIOUS
<1>0. /\ TypeOK /\ StackOrder /\ Len(nav) \in Nat /\ visits \in Nat
      /\ \A v \in Visits : v \in Nat /\ v # 0 /\ saved[v] \in Nat
  BY DEF HomeInv, TypeOK, Visits
<1>1. regime' = regime
  BY DEF Next, SelectGroup, moveSearch, SelectPlace, moveToPlans, OpenPlan, Back,
     OpenDialog, CloseDialog, Confirm, Answers, Serve, PlanSaved, PlanFailed,
     PlaceChanged, Start, Kill, vars
<1> SUFFICES ASSUME regime.patient, regime.lossless PROVE Once'
  BY <1>1 DEF OnceInv
<1>2. Once
  BY DEF OnceInv
<1>3. ASSUME UNCHANGED <<net, saved, visits>>,
             \A i \in 1..Len(nav') :
                nav'[i].visit = 0 \/ \E j \in 1..Len(nav) : nav'[i].visit = nav[j].visit
      PROVE  Once'
  <2>1. ASSUME NEW v \in Visits, \A i \in 1..Len(nav) : nav[i].visit # v
        PROVE  \A i \in 1..Len(nav') : nav'[i].visit # v
    BY <1>0, <1>3, <2>1
  <2> QED
    BY <1>2, <1>3, <2>1 DEF Once
<1>4. ASSUME NEW page, Pushed(page), page.visit = 0, UNCHANGED <<net, saved, visits>>
      PROVE  Once'
  <2>1. ASSUME NEW i \in 1..Len(nav')
        PROVE  nav'[i].visit = 0 \/ \E j \in 1..Len(nav) : nav'[i].visit = nav[j].visit
    BY <1>0, <1>4 DEF Pushed
  <2> QED
    BY <1>3, <1>4, <2>1
<1>5. ASSUME NEW g \in Groups, SelectGroup(g) PROVE Once'
  <2>1. UNCHANGED <<net, saved, visits>>
    BY <1>5 DEF SelectGroup
  <2> QED
    BY <1>0, <1>4, <1>5, <2>1, GroupPushed
<1>6. CASE moveSearch
  <2>1. UNCHANGED <<net, saved, visits>>
    BY <1>6 DEF moveSearch
  <2> QED
    BY <1>0, <1>4, <1>6, <2>1, SearchPushed
<1>7. CASE moveToPlans
  <2>1. UNCHANGED <<net, saved, visits>>
    BY <1>7 DEF moveToPlans
  <2> QED
    BY <1>0, <1>4, <1>7, <2>1, PlansPushed
<1>8. CASE OpenPlan
  <2>1. UNCHANGED <<net, saved>>
    BY <1>8 DEF OpenPlan
  <2>2. PICK page \in PageSet :
          /\ Pushed(page)
          /\ \/ page.visit = visits + 1 /\ visits' = visits + 1
             \/ page.visit = 0 /\ visits' = visits
    BY <1>0, <1>8, PlanPushed
  <2>3. CASE page.visit = visits + 1 /\ visits' = visits + 1
    <3>1. ASSUME NEW v \in Visits, saved[v] = 1,
                 \A i \in 1..Len(nav) : nav[i].visit # v
          PROVE  \A i \in 1..Len(nav') : nav'[i].visit # v
      <4>1. v # visits + 1
        BY <1>0, <1>2, <3>1 DEF Once
      <4> QED
        BY <1>0, <2>2, <2>3, <3>1, <4>1 DEF Pushed
    <3> QED
      BY <1>0, <1>2, <2>1, <2>3, <3>1 DEF Once
  <2> QED
    BY <1>4, <2>1, <2>2, <2>3
<1>9. ASSUME NEW p \in Places, SelectPlace(p) PROVE Once'
  <2>1. UNCHANGED <<net, saved, visits>>
    BY <1>9 DEF SelectPlace
  <2>2. \A i \in 1..Len(nav') : i \in 1..Len(nav) /\ nav'[i].visit = nav[i].visit
    BY <1>0, <1>9, PlaceChosen
  <2> QED
    BY <1>3, <2>1, <2>2
<1>10. CASE Back
  <2>1. UNCHANGED <<net, saved, visits>>
    BY <1>10 DEF Back
  <2>2. \A i \in 1..Len(nav') : i \in 1..Len(nav) /\ nav'[i] = nav[i]
    BY <1>0, <1>10, WentBack
  <2> QED
    BY <1>3, <2>1, <2>2
<1>11. CASE PlaceChanged
  <2>1. UNCHANGED <<net, saved, visits>>
    BY <1>11 DEF PlaceChanged
  <2>2. \A i \in 1..Len(nav') :
          nav'[i].visit = 0 \/ (i \in 1..Len(nav) /\ nav'[i] = nav[i])
    BY <1>0, <1>11, Notification
  <2> QED
    BY <1>3, <2>1, <2>2
<1>12. ASSUME NEW s \in Slots, PlanSaved(s) PROVE Once'
  <2>1. /\ UNCHANGED <<saved, visits>>
        /\ net'[s] = Idle /\ \A t \in Slots : t # s => net'[t] = net[t]
    BY <1>12, Freed DEF PlanSaved
  <2>2. \A i \in 1..Len(nav') : nav'[i].visit = 0
    BY <1>0, <1>12, MapInPlace
  <2>3. \A v \in Visits, i \in 1..Len(nav') : nav'[i].visit # v
    BY <1>0, <2>2
  <2> QED
    BY <1>2, <2>1, <2>3 DEF Once
<1>13. CASE Start
  <2>1. UNCHANGED <<net, saved, visits>>
    BY <1>13 DEF Start
  <2>2. \A i \in 1..Len(nav') : nav'[i].visit = 0
    <3>1. Len(nav') = 1 /\ nav'[1].visit = 0
      BY <1>0, <1>13, ListOpened
    <3>2. \A i \in 1..Len(nav') : i = 1
      BY <3>1
    <3> QED
      BY <3>1, <3>2
  <2> QED
    BY <1>3, <2>1, <2>2
<1>14. CASE Kill
  <2>1. nav' = <<>> /\ visits' = visits /\ \A s \in Slots : net'[s] = Idle
    BY <1>14 DEF Kill
  <2>2. \A v \in Visits : saved'[v] <= 1 /\ (v > visits => saved'[v] = 0)
    BY <1>2, <1>14, KilledOnce
  <2> QED
    BY <2>1, <2>2 DEF Once
<1>15. ASSUME NEW s \in Slots, Confirm(s) PROVE Once'
  <2> DEFINE page == nav[Len(nav)]
  <2>1. /\ net[s] = Idle /\ net'[s] # Idle /\ net'[s].page = page
        /\ \A t \in Slots : t # s => net'[t] = net[t]
        /\ UNCHANGED <<nav, saved, visits>>
        /\ page.visit \in Visits /\ Len(nav) \in 1..Len(nav)
    BY <1>15, Confirmed
  <2>2. Top = page
    BY DEF Top
  <2> HIDE DEF page
  <2>3. \A t \in Slots : net[t] # Idle => net[t].page.visit # page.visit
    BY <1>15, <2>2 DEF Confirm, InFlight
  <2>4. saved[page.visit] = 0
    <3>1. ~ \A i \in 1..Len(nav) : nav[i].visit # page.visit
      BY <2>1 DEF page
    <3>2. saved[page.visit] # 1 /\ saved[page.visit] <= 1
      BY <1>2, <2>1, <2>3, <3>1 DEF Once
    <3> QED
      BY <1>0, <2>1, <3>2
  <2>5. \A v \in Visits :
          (\E t \in Slots : net[t] # Idle /\ net[t].page.visit = v)
              => \E t \in Slots : net'[t] # Idle /\ net'[t].page.visit = v
    BY <2>1
  <2> QED
    BY <1>2, <2>1, <2>3, <2>4, <2>5 DEF Once
<1>16. ASSUME NEW s \in Slots, Serve(s) PROVE Once'
  <2> DEFINE w == net[s].page.visit
  <2>1. /\ net[s] # Idle /\ net[s].status = "sent" /\ w \in Visits /\ w <= visits
        /\ net'[s] # Idle /\ net'[s].status = "saved" /\ net'[s].page.visit = w
        /\ \A t \in Slots : t # s => net'[t] = net[t]
        /\ \A v \in Visits : saved'[v] = IF v = w THEN saved[v] + 1 ELSE saved[v]
    BY <1>16, Served
  <2>2. UNCHANGED <<nav, visits>>
    BY <1>16 DEF Serve
  <2>3. saved[w] = 0 /\ \A t \in Slots : net[t] # Idle /\ net[t].page.visit = w => s = t
    BY <1>2, <2>1 DEF Once
  <2> HIDE DEF w
  <2>4. ASSUME NEW t \in Slots, net'[t] # Idle
        PROVE  /\ net'[t].status = "sent" => saved'[net'[t].page.visit] = 0
               /\ \A r \in Slots :
                    net'[r] # Idle /\ net'[r].page.visit = net'[t].page.visit => t = r
    <3>1. CASE t = s
      BY <2>1, <2>3, <3>1
    <3>2. CASE t # s
      <4>1. /\ net'[t] = net[t] /\ net[t].page.visit # w /\ net[t].page.visit \in Visits
        BY <2>1, <2>3, <2>4, <3>2 DEF HomeInv, RequestOrder
      <4> QED
        BY <1>2, <2>1, <2>4, <3>2, <4>1 DEF Once
    <3> QED
      BY <3>1, <3>2
  <2>5. ASSUME NEW v \in Visits
        PROVE  /\ saved'[v] <= 1 /\ (v > visits => saved'[v] = 0)
               /\ saved'[v] = 1 =>
                    \/ \E t \in Slots : net'[t] # Idle /\ net'[t].page.visit = v
                    \/ \A i \in 1..Len(nav) : nav[i].visit # v
    <3>1. CASE v = w
      BY <1>0, <2>1, <2>3, <3>1
    <3>2. CASE v # w
      <4>1. saved'[v] = saved[v]
        BY <2>1, <3>2
      <4>2. (\E t \in Slots : net[t] # Idle /\ net[t].page.visit = v)
                => \E t \in Slots : net'[t] # Idle /\ net'[t].page.visit = v
        BY <2>1, <3>2 DEF w
      <4> QED
        BY <1>2, <4>1, <4>2 DEF Once
    <3> QED
      BY <3>1, <3>2
  <2> QED
    BY <2>2, <2>4, <2>5 DEF Once
<1>17. ASSUME NEW s \in Slots, PlanFailed(s) PROVE Once'
  BY <1>17 DEF PlanFailed
<1>18. CASE UNCHANGED <<nav, net, saved, visits>>
  BY <1>2, <1>18 DEF Once
<1> QED
  BY <1>5, <1>6, <1>7, <1>8, <1>9, <1>10, <1>11, <1>12, <1>13, <1>14, <1>15,
     <1>16, <1>17, <1>18 DEF Next, Answers, OpenDialog, CloseDialog, vars

(* However often the button of a plan page is tapped and whenever the app is *)
(* killed, a visit saves one plan at most if the user awaits the answer of a *)
(* service that gives one.                                                   *)
THEOREM OnePlan == Spec => []OnePlanPerVisit
<1>1. Init => OnceInv
  BY DEF Init, OnceInv, Once
<1>2. OnceInv => OnePlanPerVisit
  BY DEF OnceInv, Once, OnePlanPerVisit
<1> QED
  BY <1>1, <1>2, OnceStep, HomeInductive, PTL DEF Spec

-----------------------------------------------------------------------------
(* The home tab inside the app                                             *)

(* A step of the app is a step of the home tab or leaves it as it is. *)
LEMMA StepOfHome == [TabBarNext]_allVars => [Next]_vars
<1> SUFFICES ASSUME [TabBarNext]_allVars PROVE [Next]_vars
  OBVIOUS
<1>1. CASE Login \/ KillApp
  BY <1>1 DEF Login, KillApp, Next
<1>2. CASE HomeStep
  BY <1>2 DEF HomeStep, Taps, Next
<1>3. CASE UNCHANGED vars
  BY <1>3
<1> QED
  BY <1>1, <1>2, <1>3
     DEF TabBarNext, LaunchApp, TapInvitation, Accept, Decline, JoinAnswered,
         JoinServed, JoinFailed, allVars

(* The app around the home tab implements the home tab alone: sessions and   *)
(* invitations only add steps that it does not see.                          *)
THEOREM HomeTabImplemented == TabBarSpec => Spec
<1>1. TabBarInit => Init
  BY DEF TabBarInit
<1> QED
  BY <1>1, StepOfHome, PTL DEF TabBarSpec, Spec

(* So the safety of the home tab, proved for it alone, holds with logins,    *)
(* ends of the process and invitations at any moment.                        *)
THEOREM HomeTabSafe ==
    TabBarSpec => [](SendsWhatPageShows /\ WholePlace /\ OnePlanPerVisit /\ ListLostBySaving)
  BY HomeTabImplemented, PageIsSent, OneDestination, OnePlan, ListLost, PTL

-----------------------------------------------------------------------------
(* Types and invitations                                                   *)

(* An invitation is in the tray, asked about or agreed to, and in one place  *)
(* only; what is in flight has not been carried out.                         *)
InvitesApart ==
    /\ alert \notin tray
    /\ agreed \cap (tray \cup {alert}) = {}
    /\ joins \cap joined = {}

InviteInv == TabBarTypeOK /\ InvitesApart /\ JoinsAgreed

LEMMA InviteInit == TabBarInit => InviteInv
<1> SUFFICES ASSUME TabBarInit PROVE InviteInv
  OBVIOUS
<1>1. TypeOK
  BY TypeInit DEF TabBarInit
<1> QED
  BY <1>1, TabBarConstants DEF TabBarInit, InviteInv, TabBarTypeOK, InvitesApart, JoinsAgreed

LEMMA InviteStep == InviteInv /\ [TabBarNext]_allVars => InviteInv'
<1> SUFFICES ASSUME InviteInv, [TabBarNext]_allVars PROVE InviteInv'
  OBVIOUS
<1>0. TypeOK'
  BY StepOfHome, TypeStep DEF InviteInv, TabBarTypeOK
<1> USE <1>0 DEF InviteInv, TabBarTypeOK, InvitesApart, JoinsAgreed, inviteVars
<1>1. CASE UNCHANGED inviteVars /\ running' \in BOOLEAN
  BY <1>1
<1>2. CASE LaunchApp \/ Login \/ HomeStep
  BY <1>1, <1>2 DEF LaunchApp, Login, HomeStep, App!Launch, App!Enter
<1>3. CASE KillApp
  <2>1. PICK served \in SUBSET joins :
          /\ joined' = joined \cup served
          /\ agreed' = agreed \ {r.id : r \in joins \ served}
    BY <1>3 DEF KillApp
  <2>2. running' = FALSE /\ alert' = Unset /\ joins' = {} /\ tray' = tray
    BY <1>3 DEF KillApp, App!Kill
  <2>3. \A q, r \in joins \cup joined : q.id = r.id => q = r
    BY DEF Joins
  <2>4. ASSUME NEW r \in joined' PROVE r.id \in agreed' /\ r.to = Subject[r.id]
    <3>1. r \in joins \cup joined /\ r \notin joins \ served
      BY <2>1
    <3>2. \A q \in joins \ served : q.id # r.id
      BY <2>3, <3>1
    <3> QED
      BY <2>1, <3>1, <3>2
  <2>5. Unset \notin tray /\ Unset \notin agreed
    BY TabBarConstants
  <2> QED
    BY <2>1, <2>2, <2>4, <2>5
<1>4. ASSUME NEW n \in Invites, TapInvitation(n) PROVE InviteInv'
  <2>1. Unset \notin tray /\ Unset \notin agreed
    BY TabBarConstants
  <2> QED
    BY <1>4, <2>1 DEF TapInvitation
<1>5. CASE Accept
  <2>1. alert \in Invites /\ Subject[alert] \in Subjects
    BY <1>5, TabBarConstants DEF Accept
  <2>2. [to |-> Subject[alert], id |-> alert] \in Joins
    BY <2>1 DEF Joins
  <2>3. Unset \notin tray /\ Unset \notin agreed' /\ alert \notin tray
    BY <1>5, <2>1, TabBarConstants DEF Accept
  <2>4. \A r \in joined : r.id # alert
    OBVIOUS
  <2> QED
    BY <1>5, <2>1, <2>2, <2>3, <2>4 DEF Accept
<1>6. CASE Decline
  BY <1>6, TabBarConstants DEF Decline
<1>7. ASSUME NEW r \in Joins, JoinAnswered(r) PROVE InviteInv'
  BY <1>7 DEF JoinAnswered, JoinServed, JoinFailed
<1>8. CASE UNCHANGED allVars
  BY <1>1, <1>8 DEF allVars
<1> QED
  BY <1>2, <1>3, <1>4, <1>5, <1>6, <1>7, <1>8 DEF TabBarNext

LEMMA InviteInductive == TabBarSpec => []InviteInv
  BY InviteInit, InviteStep, PTL DEF TabBarSpec

(* The types of the home tab and of the invitations around it. *)
THEOREM TabBarTyped == TabBarSpec => []TabBarTypeOK
<1>1. InviteInv => TabBarTypeOK
  BY DEF InviteInv
<1> QED
  BY <1>1, InviteInductive, PTL

(* For any invitations the user is joined to what he agreed to, as what he   *)
(* was invited to, and to nothing else, also when the app is killed with     *)
(* requests in flight.                                                       *)
THEOREM AgreedOnly == TabBarSpec => []JoinsAgreed
<1>1. InviteInv => JoinsAgreed
  BY DEF InviteInv
<1> QED
  BY <1>1, InviteInductive, PTL

(* No notification, answer or page takes a question away. *)
THEOREM QuestionsStand == TabBarSpec => QuestionStands
<1>1. [TabBarNext]_allVars =>
        [alert # Unset /\ alert' # alert =>
            alert' = Unset /\ (UNCHANGED nav \/ ~running')]_allVars
  BY DEF TabBarNext, LaunchApp, Login, KillApp, App!Kill, HomeStep, inviteVars,
     TapInvitation, Accept, Decline, JoinAnswered, JoinServed, JoinFailed, vars
<1> QED
  BY <1>1, PTL DEF TabBarSpec, QuestionStands

-----------------------------------------------------------------------------
(* The session                                                             *)

(* There are pages and requests in a running process only. *)
PagesRun ==
    /\ nav # <<>> => running
    /\ nav = <<>> => \A s \in Slots : net[s] = Idle

(* Taps, answers and notifications neither open nor close the tab bar. *)
LEMMA HomeStepKeepsPages ==
    ASSUME HomeInv, PagesRun, HomeStep
    PROVE  (nav' = <<>> <=> nav = <<>>) /\ (nav = <<>> => net' = net)
<1>0. TypeOK /\ StackOrder /\ Len(nav) \in Nat /\ (nav = <<>> <=> Len(nav) = 0)
  BY DEF HomeInv, TypeOK
<1>1. TypeOK'
  BY StepOfHome, TypeStep DEF TabBarNext, HomeInv
<1>2. Len(nav') \in Nat /\ (nav' = <<>> <=> Len(nav') = 0)
  BY <1>1 DEF TypeOK
<1>3. ASSUME NEW page, Pushed(page) PROVE nav # <<>> /\ nav' # <<>>
  BY <1>0, <1>2, <1>3 DEF Pushed
<1>4. ASSUME NEW g \in Groups, SelectGroup(g) PROVE nav # <<>> /\ nav' # <<>>
  BY <1>0, <1>3, <1>4, GroupPushed
<1>5. CASE moveSearch
  BY <1>0, <1>3, <1>5, SearchPushed
<1>6. CASE moveToPlans
  BY <1>0, <1>3, <1>6, PlansPushed
<1>7. CASE OpenPlan
  BY <1>0, <1>3, <1>7, PlanPushed
<1>8. ASSUME NEW p \in Places, SelectPlace(p) PROVE nav # <<>> /\ nav' # <<>>
  BY <1>0, <1>2, <1>8, PlaceChosen
<1>9. CASE Back
  BY <1>0, <1>2, <1>9, WentBack
<1>10. CASE OpenDialog
  BY <1>10 DEF OpenDialog, Showing
<1>11. CASE CloseDialog
  BY <1>11 DEF CloseDialog
<1>12. ASSUME NEW s \in Slots, Confirm(s) PROVE nav # <<>> /\ nav' # <<>>
  BY <1>12 DEF Confirm, Showing
<1>13. ASSUME NEW s \in Slots, Answers(s) PROVE nav # <<>> /\ nav' # <<>>
  <2>1. net[s] # Idle
    BY <1>13 DEF Answers, Serve, PlanSaved, PlanFailed
  <2>2. nav # <<>>
    BY <2>1 DEF PagesRun
  <2>3. CASE PlanSaved(s)
    BY <1>0, <1>2, <2>2, <2>3, MapInPlace
  <2>4. CASE Serve(s) \/ PlanFailed(s)
    BY <2>2, <2>4 DEF Serve, PlanFailed
  <2> QED
    BY <1>13, <2>3, <2>4 DEF Answers
<1>14. CASE PlaceChanged
  <2>1. nav # <<>>
    BY <1>14 DEF PlaceChanged
  <2> QED
    BY <1>0, <1>2, <1>14, <2>1, Notification
<1> QED
  BY <1>4, <1>5, <1>6, <1>7, <1>8, <1>9, <1>10, <1>11, <1>12, <1>13, <1>14
     DEF HomeStep, Taps

LEMMA PagesRunStep == HomeInv /\ PagesRun /\ [TabBarNext]_allVars => PagesRun'
<1> SUFFICES ASSUME HomeInv, PagesRun, [TabBarNext]_allVars PROVE PagesRun'
  OBVIOUS
<1> USE DEF PagesRun
<1>1. CASE HomeStep
  BY <1>1, HomeStepKeepsPages DEF HomeStep
<1>2. CASE Login
  <2>1. nav' # <<>> /\ net' = net /\ running' = TRUE
    BY <1>2 DEF Login, Start, App!Enter
  <2> QED
    BY <2>1
<1>3. CASE KillApp
  BY <1>3 DEF KillApp, Kill
<1>4. CASE UNCHANGED <<nav, net>> /\ (running => running')
  BY <1>4
<1> QED
  BY <1>1, <1>2, <1>3, <1>4
     DEF TabBarNext, LaunchApp, App!Launch, TapInvitation, Accept, Decline, JoinAnswered,
         JoinServed, JoinFailed, allVars, vars

(* The app uses the tab bar as the login flow promises: one is opened in a   *)
(* running process, once, and goes with the process; a tapped invitation may *)
(* launch it too.                                                            *)
THEOREM SessionKept == TabBarSpec => App!Spec
<1>1. TabBarInit => HomeInv /\ PagesRun
  BY HomeInit DEF TabBarInit, Init, PagesRun
<1>2. HomeInv /\ [TabBarNext]_allVars => HomeInv'
  BY StepOfHome, HomeInvStep
<1>3. TabBarInit => App!Init
  BY DEF TabBarInit, Init, App!Init
<1>4. HomeInv /\ PagesRun /\ InviteInv /\ [TabBarNext]_allVars
        => [App!Next]_(App!vars)
  <2> SUFFICES ASSUME HomeInv, PagesRun, InviteInv, [TabBarNext]_allVars
               PROVE  [App!Next]_(App!vars)
    OBVIOUS
  <2>1. CASE LaunchApp
    BY <2>1 DEF LaunchApp, App!Next
  <2>2. CASE Login
    BY <2>2 DEF Login, App!Next
  <2>3. CASE KillApp
    BY <2>3 DEF KillApp, App!Next
  <2>4. CASE HomeStep
    BY <2>4, HomeStepKeepsPages DEF HomeStep, App!vars
  <2>5. ASSUME NEW n \in Invites, TapInvitation(n) PROVE [App!Next]_(App!vars)
    <3>1. nav' = nav /\ running' = TRUE /\ running \in BOOLEAN
      BY <2>5 DEF TapInvitation, vars, InviteInv, TabBarTypeOK
    <3> QED
      BY <3>1 DEF App!Next, App!Launch, App!vars
  <2>6. CASE UNCHANGED <<nav, running>>
    BY <2>6 DEF App!vars
  <2> QED
    BY <2>1, <2>2, <2>3, <2>4, <2>5, <2>6
       DEF TabBarNext, Accept, Decline, JoinAnswered, JoinServed, JoinFailed, allVars, vars
<1> QED
  BY <1>1, <1>2, <1>3, <1>4, PagesRunStep, InviteInductive, PTL
     DEF TabBarSpec, App!Spec
=============================================================================
