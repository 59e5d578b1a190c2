-------------------------- MODULE SignUpFormProofs --------------------------
(***************************************************************************)
(* Proofs about SignUpForm for every value of its constants: any alphabet, *)
(* any lengths of a nickname and any number of requests in flight.         *)
(***************************************************************************)
EXTENDS SignUpForm, SequenceTheorems, WellFoundedInduction, TLAPS

(* A set of naturals that is not empty has a least element. *)
LEMMA MinOfNaturals ==
    ASSUME NEW I \in SUBSET Nat, I # {}
    PROVE  Min(I) \in I
<1> DEFINE Less == {ss \in Nat \X Nat : ss[1] < ss[2]}
<1>1. IsWellFoundedOn(Less, Nat)
  BY NatLessThanWellFounded, Zenon DEF OpToRel
<1>2. \A x, y \in Nat : <<y, x>> \notin Less => x <= y
  OBVIOUS
<1> HIDE DEF Less
<1>3. \E x \in I : \A y \in I : ~(<<y, x>> \in Less)
  BY <1>1, WFMin
<1>4. \E x \in I : \A y \in I : x <= y
  BY <1>2, <1>3
<1> QED
  BY <1>4, Zenon DEF Min

(* The nicknames and texts are the sequences of bounded length. *)
LEMMA Bounded ==
    ASSUME NEW n \in Nat
    PROVE  BoundedSeq(Chars, n) = {text \in Seq(Chars) : Len(text) <= n}
<1>1. ASSUME NEW text \in BoundedSeq(Chars, n)
      PROVE  text \in Seq(Chars) /\ Len(text) <= n
  BY <1>1 DEF BoundedSeq, SeqOf
<1>2. ASSUME NEW text \in Seq(Chars), Len(text) <= n
      PROVE  text \in BoundedSeq(Chars, n)
  <2>1. text \in [1..Len(text) -> Chars] /\ Len(text) \in 0..n
    BY <1>2
  <2> QED
    BY <2>1 DEF BoundedSeq, SeqOf
<1> QED
  BY <1>1, <1>2

LEMMA NamesAre == /\ Names = {text \in Seq(Chars) : Len(text) <= MaxLength}
                  /\ Texts = {text \in Seq(Chars) : Len(text) <= MaxLength + 1}
<1>1. MaxLength \in Nat /\ MaxLength + 1 \in Nat
  BY FormConstants
<1> QED
  BY <1>1, Bounded DEF Names, Texts

(* A cut text is a nickname the label allows, and the beginning of the text. *)
LEMMA CutIsName ==
    ASSUME NEW text \in Seq(Chars)
    PROVE  Cut(text) \in Names /\ (text \in Names => Cut(text) = text)
<1>1. CASE Len(text) <= MaxLength
  BY <1>1, NamesAre DEF Cut
<1>2. CASE ~(Len(text) <= MaxLength)
  <2>1. MaxLength \in Nat /\ Len(text) \in Nat
    BY FormConstants
  <2>2. SubSeq(text, 1, MaxLength) \in Seq(Chars) /\ Len(SubSeq(text, 1, MaxLength)) <= MaxLength
    BY <1>2, <2>1, SubSeqProperties
  <2> QED
    BY <1>2, <2>2, NamesAre DEF Cut
<1> QED
  BY <1>1, <1>2

(* The name the service is asked about is a nickname too, and the one sent *)
(* if that has no mark.                                                    *)
LEMMA AskedIsName ==
    ASSUME NEW name \in Names
    PROVE  Asked(name) \in Names /\ (~Has(name, Mark) => Asked(name) = name)
<1>1. CASE ~Has(name, Mark)
  BY <1>1 DEF Asked
<1>2. CASE Has(name, Mark)
  <2> DEFINE I == {i \in 1..Len(name) : name[i] = Mark}
             end == SelectInSeq(name, LAMBDA c : c = Mark)
  <2>1. name \in Seq(Chars) /\ Len(name) \in Nat /\ Len(name) <= MaxLength
    BY NamesAre
  <2>2. I # {} /\ I \in SUBSET Nat
    BY <1>2, <2>1 DEF Has
  <2>3. end = Min(I)
    BY <2>2 DEF SelectInSeq
  <2>4. end \in 1..Len(name)
    BY <2>2, <2>3, MinOfNaturals
  <2> HIDE DEF end
  <2>5. end - 1 \in Int /\ \A i \in 1..(end - 1) : name[i] \in Chars
    BY <2>1, <2>4
  <2>6. /\ SubSeq(name, 1, end - 1) \in Seq(Chars)
        /\ Len(SubSeq(name, 1, end - 1)) <= MaxLength
    BY <2>1, <2>4, <2>5, FormConstants, SubSeqProperties
  <2>7. Asked(name) = SubSeq(name, 1, end - 1)
    BY <1>2 DEF Asked, end
  <2> QED
    BY <1>2, <2>6, <2>7, NamesAre
<1> QED
  BY <1>1, <1>2

-----------------------------------------------------------------------------
LEMMA EditTyped ==
    ASSUME TypeOK, NEW text \in Seq(Chars), Edit(text)
    PROVE  field' \in Names /\ relay' \in Names
  BY CutIsName DEF Edit, TypeOK

LEMMA TypeInit == Init => TypeOK
<1>1. <<>> \in Seq(Chars) /\ Len(<<>>) = 0
  OBVIOUS
<1>2. <<>> \in Names
  BY <1>1, NamesAre, FormConstants
<1> QED
  BY <1>2 DEF Init, TypeOK

LEMMA TypeStep == TypeOK /\ [Next]_vars => TypeOK'
<1> SUFFICES ASSUME TypeOK, [Next]_vars PROVE TypeOK'
  OBVIOUS
<1>1. CASE Type
  BY <1>1, EditTyped, NamesAre DEF Type, TypeOK
<1>2. CASE EndEditing
  <2>1. field \in Seq(Chars)
    BY NamesAre DEF TypeOK
  <2> QED
    BY <1>2, <2>1, EditTyped DEF EndEditing, TypeOK
<1>3. CASE TapDone
  <2>1. ASSUME AskOverlap PROVE net' \in [Slots -> Requests \cup {Idle}]
    <3>1. <<>> \in Names /\ relay \in Names /\ (relay = field) \in BOOLEAN
      BY NamesAre, FormConstants DEF TypeOK
    <3> QED
      BY <2>1, <3>1 DEF AskOverlap, TypeOK, Requests
  <2> QED
    BY <1>3, <2>1 DEF TapDone, TypeOK, Presented
<1>4. CASE CloseAlert
  BY <1>4 DEF CloseAlert, TypeOK
<1>5. CASE Back
  BY <1>5 DEF Back, TypeOK
<1>6. ASSUME NEW s \in Slots, Answers(s) PROVE TypeOK'
  <2>1. net[s] \in Requests \/ net[s] = Idle
    BY DEF TypeOK
  <2>2. CASE Serve(s)
    <3>1. net[s] \in Requests
      BY <2>1, <2>2 DEF Serve
    <3>2. Asked(net[s].name) \in Names
      BY <3>1, AskedIsName DEF Requests
    <3>3. net' \in [Slots -> Requests \cup {Idle}]
      BY <2>2, <3>1, <3>2 DEF Serve, TypeOK, Requests
    <3> QED
      BY <2>2, <3>3 DEF Serve, TypeOK
  <2>3. CASE NameFree(s)
    <3>1. net[s] \in Requests
      BY <2>1, <2>3 DEF NameFree
    <3>2. net' \in [Slots -> Requests \cup {Idle}]
      BY <2>3, <3>1 DEF NameFree, TypeOK, Requests
    <3> QED
      BY <2>3, <3>2 DEF NameFree, TypeOK
  <2>4. CASE NameTaken(s) \/ Failed(s)
    BY <2>4 DEF NameTaken, Failed, TypeOK, Presented
  <2>5. CASE SignedUp(s)
    BY <2>5 DEF SignedUp, TypeOK
  <2> QED
    BY <1>6, <2>2, <2>3, <2>4, <2>5 DEF Answers
<1>7. CASE UNCHANGED vars
  BY <1>7 DEF vars, TypeOK
<1> QED
  BY <1>1, <1>2, <1>3, <1>4, <1>5, <1>6, <1>7 DEF Next

(* Every variable of the sign-up page keeps its type: whatever is typed, the *)
(* relay holds at most MaxLength characters, and so does every request.      *)
THEOREM TypeCorrect == Spec => []TypeOK
  BY TypeInit, TypeStep, PTL DEF Spec

-----------------------------------------------------------------------------
(* Field and relay differ only by a space that has just been refused. *)
FieldIsRelay == relay = field \/ Has(relay, Space)

(* A name found free is the one that was asked about. *)
FreeIsAsked ==
    \A s \in Slots :
        (net[s] # Idle /\ net[s].status = "free") =>
            net[s].name = net[s].free \/ Has(net[s].name, Mark)

TextInv == TypeOK /\ FieldObeysLabel /\ FieldIsRelay
RequestInv == SendsTextShown /\ SignsUpFreeName /\ FreeIsAsked

LEMMA TextStep == TextInv /\ [Next]_vars => TextInv'
<1> SUFFICES ASSUME TextInv, [Next]_vars PROVE FieldObeysLabel' /\ FieldIsRelay'
  BY TypeStep DEF TextInv
<1>1. ASSUME NEW text \in Seq(Chars), Edit(text)
      PROVE  FieldObeysLabel' /\ FieldIsRelay'
  <2>1. relay' \in Seq(Chars) /\ Len(relay') <= MaxLength
    BY <1>1, CutIsName, NamesAre DEF Edit
  <2> QED
    BY <1>1, <2>1 DEF Edit, TextInv, FieldObeysLabel, FieldIsRelay
<1>2. CASE Type
  BY <1>1, <1>2, NamesAre DEF Type
<1>3. CASE EndEditing
  BY <1>1, <1>3, NamesAre DEF EndEditing, TextInv, TypeOK
<1>4. CASE UNCHANGED <<field, relay>>
  BY <1>4 DEF TextInv, FieldObeysLabel, FieldIsRelay
<1> QED
  BY <1>2, <1>3, <1>4
     DEF Next, TapDone, CloseAlert, Back, Answers, Serve, NameFree, NameTaken,
         Failed, SignedUp, vars

LEMMA RequestStep == TextInv /\ RequestInv /\ [Next]_vars => RequestInv'
<1> SUFFICES ASSUME TextInv, RequestInv, [Next]_vars PROVE RequestInv'
  OBVIOUS
<1> USE DEF RequestInv, SendsTextShown, SignsUpFreeName, FreeIsAsked
<1>1. net \in [Slots -> Requests \cup {Idle}]
  BY DEF TextInv, TypeOK
<1>2. CASE TapDone /\ net' # net
  <2>1. Len(relay) >= MinLength /\ AskOverlap
    BY <1>2 DEF TapDone
  <2>2. PICK s \in Slots :
            net' = [net EXCEPT ![s] =
                      [kind |-> "overlap", status |-> "sent", name |-> relay,
                       shown |-> relay = field, free |-> <<>>]]
    BY <2>1 DEF AskOverlap
  <2>3. /\ net'[s].kind = "overlap" /\ net'[s].status = "sent"
        /\ net'[s].name = relay /\ net'[s].shown = (relay = field)
    BY <2>2, <1>1
  <2>4. \A r \in Slots : r # s => net'[r] = net[r]
    BY <2>2, <1>1
  <2>5. relay = field \/ Has(relay, Space)
    BY DEF TextInv, FieldIsRelay
  <2> QED
    BY <2>1, <2>3, <2>4, <2>5
<1>3. ASSUME NEW s \in Slots, Answers(s) PROVE RequestInv'
  <2>1. /\ net[s] # Idle
        /\ net[s] \in Requests
    BY <1>1, <1>3 DEF Answers, Serve, NameFree, NameTaken, Failed, SignedUp
  <2>2. CASE Serve(s) /\ net[s].kind = "overlap" /\ net'[s].status = "free"
    BY <2>1, <2>2, <1>1, AskedIsName DEF Serve, Requests
  <2>3. CASE Serve(s) /\ net'[s].status # "free"
    BY <2>1, <2>3, <1>1 DEF Serve, Requests
  <2>4. CASE NameFree(s)
    BY <2>1, <2>4, <1>1 DEF NameFree, Requests
  <2>5. CASE NameTaken(s) \/ Failed(s) \/ SignedUp(s)
    BY <2>5, <1>1 DEF NameTaken, Failed, SignedUp
  <2>6. ASSUME Serve(s), net'[s].status = "free" PROVE net[s].kind = "overlap"
    BY <2>6, <2>1, <1>1 DEF Serve, Requests
  <2> QED
    BY <1>3, <2>2, <2>3, <2>4, <2>5, <2>6 DEF Answers
<1>4. CASE UNCHANGED net
  BY <1>4
<1> QED
  BY <1>2, <1>3, <1>4 DEF Next, Type, EndEditing, CloseAlert, Back, vars

LEMMA FormInductive == Spec => [](TextInv /\ RequestInv)
<1>1. Init => TextInv /\ RequestInv
  <2>1. Init => FieldObeysLabel
    BY FormConstants DEF Init, FieldObeysLabel, Has
  <2> QED
    BY <2>1, TypeInit DEF Init, TextInv, RequestInv, FieldIsRelay, SendsTextShown,
       SignsUpFreeName, FreeIsAsked
<1> QED
  BY <1>1, TextStep, RequestStep, PTL DEF Spec

(* For any alphabet and any maximum length: whatever is typed or pasted, the *)
(* field shows what the label under it demands.                              *)
THEOREM LabelObeyed == Spec => []FieldObeysLabel
<1>1. TextInv => FieldObeysLabel
  BY DEF TextInv
<1> QED
  BY <1>1, FormInductive, PTL

(* However taps, edits and answers interleave, what is sent is what the page *)
(* showed at the tap, but for a space that had just been refused.            *)
THEOREM ShownIsSent == Spec => []SendsTextShown
<1>1. RequestInv => SendsTextShown
  BY DEF RequestInv
<1> QED
  BY <1>1, FormInductive, PTL

(* Nobody is signed up under a nickname without a mark that the service has  *)
(* not answered to be free.                                                  *)
THEOREM FreeNameSignedUp == Spec => []SignsUpFreeName
<1>1. RequestInv => SignsUpFreeName
  BY DEF RequestInv
<1> QED
  BY <1>1, FormInductive, PTL
=============================================================================
