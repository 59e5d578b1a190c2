----------------------------- MODULE LoginProofs -----------------------------
(***************************************************************************)
(* Proofs about Login for every value of its constants: any accounts, any  *)
(* number of requests in flight, an impatient user, a failing keychain.    *)
(***************************************************************************)
EXTENDS Login, SequenceTheorems, TLAPS

LEMMA RequestType ==
    ASSUME NEW k \in Kinds, NEW cred \in Creds, NEW page \in Creds,
           NEW token \in Tokens
    PROVE  Request(k, cred, page, token) \in Requests
BY DEF Request, Requests, Statuses

LEMMA NoCredType == NoCred \in Creds
BY DEF NoCred, Creds

LEMMA IdleType == Idle \in Requests
<1>1. "idle" \in Kinds /\ NoItem \in Tokens
  BY DEF Kinds, Tokens
<1> QED
  BY <1>1, NoCredType, RequestType DEF Idle

LEMMA CredOfType == \A a \in Accounts : CredOf(a) \in Creds
BY LoginConstants DEF CredOf, Creds

(* A save leaves the new value, no item or the old value under its key, and *)
(* the other items as they were.                                           *)
LEMMA SaveItemType ==
    ASSUME NEW K, NEW V, NEW chain \in [K -> V], NEW key \in K, NEW value \in V,
           NoItem \in V, NEW saved \in SaveItem(chain, key, value)
    PROVE  /\ saved[1] \in [K -> V] /\ saved[2] \in BOOLEAN
           /\ saved[1][key] \in {value, NoItem, chain[key]}
           /\ \A other \in K \ {key} : saved[1][other] = chain[other]
<1>1. \/ saved = <<[chain EXCEPT ![key] = value], TRUE>>
      \/ saved = <<[chain EXCEPT ![key] = NoItem], FALSE>>
      \/ saved = <<chain, FALSE>>
  BY DEF SaveItem
<1>2. CASE saved = <<[chain EXCEPT ![key] = value], TRUE>>
  BY <1>2
<1>3. CASE saved = <<[chain EXCEPT ![key] = NoItem], FALSE>>
  BY <1>3
<1>4. CASE saved = <<chain, FALSE>>
  BY <1>4
<1> QED
  BY <1>1, <1>2, <1>3, <1>4

LEMMA SaveTokensType ==
    ASSUME NEW chain \in [TokenKeys -> Tokens], NEW token \in Tokens,
           NEW saved \in SaveTokens(chain, token)
    PROVE  saved[1] \in [TokenKeys -> Tokens] /\ saved[2] \in BOOLEAN
<1>1. NoItem \in Tokens /\ "AccessToken" \in TokenKeys /\ "RefreshToken" \in TokenKeys
  BY DEF Tokens, TokenKeys
<1>2. PICK first \in SaveItem(chain, "AccessToken", token) :
        saved \in IF first[2] THEN SaveItem(first[1], "RefreshToken", token)
                              ELSE {first}
  BY DEF SaveTokens
<1>3. first[1] \in [TokenKeys -> Tokens] /\ first[2] \in BOOLEAN
  BY <1>1, SaveItemType
<1>4. CASE first[2]
  BY <1>1, <1>2, <1>3, <1>4, SaveItemType
<1>5. CASE ~first[2]
  BY <1>2, <1>3, <1>5
<1> QED
  BY <1>3, <1>4, <1>5

Items == AuthTypes \union Accounts \union {NoItem}

LEMMA SaveAccountType ==
    ASSUME NEW chain \in AccountItems, NEW a \in Accounts,
           NEW saved \in SaveAccount(chain, CredOf(a))
    PROVE  saved[1] \in AccountItems
<1>1. /\ NoItem \in Items /\ CredOf(a).auth \in Items /\ CredOf(a).id \in Items
      /\ CredOf(a).auth \in AuthTypes /\ CredOf(a).id \in Accounts
      /\ "authType" \in AccountKeys /\ "identifier" \in AccountKeys
      /\ chain \in [AccountKeys -> Items]
  BY LoginConstants DEF Items, CredOf, AccountKeys, AccountItems
<1>2. PICK first \in SaveItem(chain, "authType", CredOf(a).auth) :
        saved \in SaveItem(first[1], "identifier", CredOf(a).id)
  BY DEF SaveAccount
<1>3. /\ first[1] \in [AccountKeys -> Items]
      /\ first[1]["authType"] \in {CredOf(a).auth, NoItem, chain["authType"]}
      /\ first[1]["identifier"] = chain["identifier"]
  BY <1>1, SaveItemType DEF AccountKeys
<1>4. /\ saved[1] \in [AccountKeys -> Items]
      /\ saved[1]["authType"] = first[1]["authType"]
      /\ saved[1]["identifier"] \in {CredOf(a).id, NoItem, first[1]["identifier"]}
  BY <1>1, <1>2, <1>3, SaveItemType DEF AccountKeys
<1> QED
  BY <1>1, <1>3, <1>4 DEF AccountItems, Items

LEMMA DeleteType ==
    ASSUME NEW chain \in [TokenKeys -> Tokens], NEW key \in TokenKeys,
           NEW left \in Delete(chain, key)
    PROVE  left \in [TokenKeys -> Tokens]
BY DEF Delete, Tokens

-----------------------------------------------------------------------------
(* Type correctness.                                                       *)

(* The page moves change only the page variables, within their types. *)
LEMMA PageMoves ==
    ASSUME TypeOK, NEW cred \in Creds,
           \/ FinishLogin(cred) \/ SamePages \/ MoveSignIn \/ MoveSignUp(cred)
    PROVE  /\ root' \in {"blank", "signIn", "tabBar"}
           /\ signUpPages' \in Seq(Creds)
           /\ entered' \in SUBSET Creds
           /\ tabBars' \in Nat
<1>1. CASE FinishLogin(cred)
  BY <1>1 DEF TypeOK, FinishLogin
<1>2. CASE SamePages
  BY <1>2 DEF TypeOK, SamePages
<1>3. CASE MoveSignIn
  BY <1>3 DEF TypeOK, MoveSignIn
<1>4. CASE MoveSignUp(cred)
  BY <1>4 DEF TypeOK, MoveSignUp
<1> QED
  BY <1>1, <1>2, <1>3, <1>4

(* Filling a slot with a request keeps the type of net. *)
LEMMA NetType ==
    ASSUME TypeOK, NEW s \in Slots, NEW r \in Requests
    PROVE  [net EXCEPT ![s] = r] \in [Slots -> Requests]
BY DEF TypeOK

THEOREM TypeCorrect == Spec => []TypeOK
<1> USE LoginConstants
<1>1. Init => TypeOK
  <2> SUFFICES ASSUME Init PROVE TypeOK
    OBVIOUS
  <2>1. account \in AccountItems
    BY DEF Init, AccountItems, AccountKeys
  <2>2. tokens \in [TokenKeys -> Tokens]
    BY DEF Init, Tokens
  <2>3. net \in [Slots -> Requests]
    BY IdleType DEF Init
  <2>4. registered \in SUBSET Creds
    BY CredOfType DEF Init
  <2>5. signUpPages \in Seq(Creds)
    BY DEF Init
  <2>6. running \in BOOLEAN /\ root \in {"blank", "signIn", "tabBar"}
    BY DEF Init
  <2>7. entered \in SUBSET Creds
    BY DEF Init
  <2>8. taps \in Nat /\ launches \in Nat /\ tabBars \in Nat /\ regime \in Regimes
    BY DEF Init
  <2> QED
    BY <2>1, <2>2, <2>3, <2>4, <2>5, <2>6, <2>7, <2>8 DEF TypeOK
<1>2. TypeOK /\ [Next]_vars => TypeOK'
  <2> SUFFICES ASSUME TypeOK, [Next]_vars PROVE TypeOK'
    OBVIOUS
  <2>1. CASE Launch
    <3>1. tokens' \in [TokenKeys -> Tokens]
      BY <2>1, DeleteType DEF Launch, TypeOK, TokenKeys
    <3>2. /\ net' \in [Slots -> Requests]
          /\ SamePages \/ MoveSignIn
      <4>1. CASE SamePages /\ \E s \in Slots :
                   Send(s, Request("validate", NoCred, NoCred, tokens'["AccessToken"]))
        <5>1. tokens'["AccessToken"] \in Tokens /\ "validate" \in Kinds
          BY <3>1 DEF TokenKeys, Kinds
        <5> QED
          BY <4>1, <5>1, RequestType, NoCredType, NetType DEF Send
      <4>2. CASE MoveSignIn /\ UNCHANGED net
        BY <4>2 DEF TypeOK
      <4> QED
        BY <2>1, <4>1, <4>2 DEF Launch
    <3>3. /\ root' \in {"blank", "signIn", "tabBar"} /\ signUpPages' \in Seq(Creds)
          /\ entered' \in SUBSET Creds /\ tabBars' \in Nat
      BY <3>2, NoCredType, PageMoves
    <3> QED
      BY <2>1, <3>1, <3>2, <3>3 DEF Launch, TypeOK
  <2>2. CASE Terminate
    <3>1. net' \in [Slots -> Requests] /\ signUpPages' \in Seq(Creds)
      BY <2>2, IdleType DEF Terminate
    <3> QED
      BY <2>2, <3>1 DEF Terminate, TypeOK
  <2>3. ASSUME NEW auth \in AuthTypes, TapLogin(auth) PROVE TypeOK'
    <3>1. /\ [auth |-> auth, id |-> EmptyString] \in Creds
          /\ "sdk" \in Kinds /\ NoItem \in Tokens
      BY DEF Creds, Kinds, Tokens
    <3>2. net' \in [Slots -> Requests]
      BY <2>3, <3>1, RequestType, NoCredType, NetType DEF TapLogin, Send
    <3> QED
      BY <2>3, <3>2 DEF TapLogin, SamePages, TypeOK
  <2>4. CASE TapDone
    <3>1. /\ signUpPages[Len(signUpPages)] \in Creds
          /\ "overlap" \in Kinds /\ NoItem \in Tokens
      BY <2>4 DEF TapDone, TypeOK, Kinds, Tokens
    <3>2. net' \in [Slots -> Requests]
      BY <2>4, <3>1, RequestType, NoCredType, NetType DEF TapDone, Send
    <3> QED
      BY <2>4, <3>2 DEF TapDone, SamePages, TypeOK
  <2>5. CASE TapBack
    <3>1. SubSeq(signUpPages, 1, Len(signUpPages) - 1) \in Seq(Creds)
      BY <2>5 DEF TapBack, TypeOK
    <3> QED
      BY <2>5, <3>1 DEF TapBack, TypeOK
  <2>6. ASSUME NEW s \in Slots, Serve(s) PROVE TypeOK'
    <3>1. PICK status \in Statuses, cred \in registered \union {net[s].cred} :
            /\ net' = [net EXCEPT ![s].status = status, ![s].cred = cred]
            /\ registered' \subseteq registered \union {net[s].cred}
      BY <2>6 DEF Serve
    <3>2. net[s] \in Requests /\ net[s].cred \in Creds /\ cred \in Creds
      BY DEF TypeOK, Requests
    <3>3. [net[s] EXCEPT !.status = status, !.cred = cred] \in Requests
      BY <3>2 DEF Requests
    <3>4. net' \in [Slots -> Requests]
      BY <3>1, <3>3 DEF TypeOK
    <3> QED
      BY <2>6, <3>1, <3>2, <3>4 DEF Serve, TypeOK
  <2>7. ASSUME NEW s \in Slots, Deliver(s) PROVE TypeOK'
    <3>1. /\ net[s].cred \in Creds /\ net[s].page \in Creds
          /\ Done(s) => net' \in [Slots -> Requests]
      BY IdleType, NetType DEF Done, TypeOK, Requests
    <3>2. CASE Authorized(s)
      <4>1. PICK a \in Accounts :
              /\ \E saved \in SaveAccount(account, CredOf(a)) : account' = saved[1]
              /\ net' = [net EXCEPT ![s] = Request("login", CredOf(a), NoCred, NoItem)]
        BY <3>2 DEF Authorized
      <4>2. account' \in AccountItems
        BY <4>1, SaveAccountType DEF TypeOK
      <4>3. "login" \in Kinds /\ NoItem \in Tokens
        BY DEF Kinds, Tokens
      <4>4. net' \in [Slots -> Requests]
        BY <4>1, <4>3, RequestType, CredOfType, NoCredType, NetType
      <4> QED
        BY <3>2, <4>2, <4>4 DEF Authorized, SamePages, TypeOK
    <3>3. CASE NotAuthorized(s)
      BY <3>1, <3>3 DEF NotAuthorized, SamePages, TypeOK
    <3>4. CASE LoginAnswered(s)
      <4>1. /\ \E token \in Tokens : \E saved \in SaveTokens(tokens, token) :
                  tokens' = saved[1]
            /\ FinishLogin(net[s].cred) \/ MoveSignUp(net[s].cred) \/ SamePages
        BY <3>1, <3>4 DEF LoginAnswered, Tokens
      <4>2. tokens' \in [TokenKeys -> Tokens]
        BY <4>1, SaveTokensType DEF TypeOK
      <4>3. /\ root' \in {"blank", "signIn", "tabBar"} /\ signUpPages' \in Seq(Creds)
            /\ entered' \in SUBSET Creds /\ tabBars' \in Nat
        BY <3>1, <4>1, PageMoves
      <4> QED
        BY <3>1, <3>4, <4>2, <4>3 DEF LoginAnswered, TypeOK
    <3>5. CASE Refused(s)
      BY <3>1, <3>5 DEF Refused, SamePages, TypeOK
    <3>6. CASE OverlapAnswered(s)
      <4> DEFINE cred == [auth |-> OrEmpty(account["authType"]),
                          id   |-> OrEmpty(account["identifier"])]
      <4>1. cred \in Creds /\ "signUp" \in Kinds /\ NoItem \in Tokens
        BY DEF TypeOK, AccountItems, OrEmpty, Creds, Kinds, Tokens
      <4>2. net' \in [Slots -> Requests]
        BY <3>1, <3>6, <4>1, RequestType, NetType DEF OverlapAnswered
      <4> QED
        BY <3>6, <4>2 DEF OverlapAnswered, SamePages, TypeOK
    <3>7. CASE SignUpAnswered(s)
      BY <3>1, <3>7 DEF SignUpAnswered, FinishLogin, TypeOK
    <3>8. CASE Validated(s)
      <4>1. CASE FinishLogin(net[s].cred) /\ Done(s)
        BY <3>1, <3>8, <4>1 DEF Validated, FinishLogin, TypeOK
      <4>2. CASE /\ SamePages
                 /\ net' = [net EXCEPT ![s] =
                              Request("refresh", NoCred, NoCred,
                                      Describing(tokens["RefreshToken"]))]
        <5>1. Describing(tokens["RefreshToken"]) \in Tokens /\ "refresh" \in Kinds
          BY DEF Describing, Tokens, Kinds
        <5>2. net' \in [Slots -> Requests]
          BY <4>2, <5>1, RequestType, NoCredType, NetType
        <5> QED
          BY <3>8, <4>2, <5>2 DEF Validated, SamePages, TypeOK
      <4> QED
        BY <3>8, <4>1, <4>2 DEF Validated
    <3>9. CASE Refreshed(s)
      <4>1. tokens' \in [TokenKeys -> Tokens]
        <5>1. net[s].cred \in Tokens
          BY <3>1 DEF Tokens
        <5> QED
          BY <3>9, <5>1, SaveTokensType DEF Refreshed, TypeOK
      <4>2. FinishLogin(net[s].cred) \/ SamePages \/ MoveSignIn
        BY <3>9 DEF Refreshed
      <4>3. /\ root' \in {"blank", "signIn", "tabBar"} /\ signUpPages' \in Seq(Creds)
            /\ entered' \in SUBSET Creds /\ tabBars' \in Nat
        BY <3>1, <4>2, PageMoves
      <4> QED
        BY <3>1, <3>9, <4>1, <4>3 DEF Refreshed, TypeOK
    <3> QED
      BY <2>7, <3>2, <3>3, <3>4, <3>5, <3>6, <3>7, <3>8, <3>9 DEF Deliver
  <2>8. CASE UNCHANGED vars
    BY <2>8 DEF vars, TypeOK
  <2> QED
    BY <2>1, <2>2, <2>3, <2>4, <2>5, <2>6, <2>7, <2>8 DEF Next
<1> QED
  BY <1>1, <1>2, PTL DEF Spec

-----------------------------------------------------------------------------
(* Only members enter.                                                     *)

(* An answer that will open the tab bar is about a member: the service said *)
(* so when it answered, and members are never struck off.                  *)
Entitled ==
    \A s \in Slots :
        net[s].status \in {"SIGNIN", "OK"} => net[s].cred \in registered

MembersInv == TypeOK /\ EntersOnlyMembers /\ Entitled

(* Slot s holds a request that is not answered yet, the others are unchanged. *)
Fresh(s) ==
    /\ net'[s].status = "sent"
    /\ \A slot \in Slots \ {s} : net'[slot] = net[slot]

LEMMA RequestFresh ==
    ASSUME MembersInv, NEW s \in Slots, NEW k, NEW cred, NEW page, NEW token,
           net' = [net EXCEPT ![s] = Request(k, cred, page, token)]
    PROVE  Fresh(s)
BY DEF Fresh, Request, MembersInv, TypeOK

(* A fresh request needs no entitlement, and no slot loses its own while the *)
(* members stay members.                                                   *)
LEMMA FreshSlotEntitled ==
    ASSUME MembersInv, NEW s \in Slots, Fresh(s), registered \subseteq registered'
    PROVE  Entitled'
BY DEF Fresh, MembersInv, Entitled

(* The tab bar is opened only on behalf of a member: EntersOnlyMembers, for *)
(* any number of overlapping requests, launches and keychain failures.     *)
THEOREM MembersOnly == Spec => []EntersOnlyMembers
<1>1. Init => EntersOnlyMembers /\ Entitled
  BY DEF Init, EntersOnlyMembers, Entitled, Idle, Request
<1>2. MembersInv /\ TypeOK' /\ [Next]_vars => EntersOnlyMembers' /\ Entitled'
  <2> SUFFICES ASSUME MembersInv, [Next]_vars
               PROVE  EntersOnlyMembers' /\ Entitled'
    OBVIOUS
  <2> USE DEF EntersOnlyMembers
  <2>1. CASE Launch
    <3>1. EntersOnlyMembers'
      BY <2>1 DEF Launch, SamePages, MoveSignIn, MembersInv
    <3>2. registered \subseteq registered'
      BY <2>1 DEF Launch
    <3>3. CASE UNCHANGED net
      BY <3>1, <3>2, <3>3 DEF MembersInv, Entitled
    <3>4. CASE \E s \in Slots : Send(s, Request("validate", NoCred, NoCred,
                                                tokens'["AccessToken"]))
      BY <3>1, <3>2, <3>4, RequestFresh, FreshSlotEntitled DEF Send
    <3> QED
      BY <2>1, <3>1, <3>3, <3>4 DEF Launch
  <2>2. CASE Terminate
    BY <2>2 DEF Terminate, MembersInv, Entitled, Idle, Request
  <2>3. ASSUME NEW auth \in AuthTypes, TapLogin(auth)
        PROVE  EntersOnlyMembers' /\ Entitled'
    <3>1. EntersOnlyMembers' /\ registered \subseteq registered'
      BY <2>3 DEF TapLogin, SamePages, MembersInv
    <3>2. Entitled'
      BY <2>3, <3>1, RequestFresh, FreshSlotEntitled DEF TapLogin, Send
    <3> QED
      BY <3>1, <3>2
  <2>4. CASE TapDone
    <3>1. EntersOnlyMembers' /\ registered \subseteq registered'
      BY <2>4 DEF TapDone, SamePages, MembersInv
    <3>2. Entitled'
      BY <2>4, <3>1, RequestFresh, FreshSlotEntitled DEF TapDone, Send
    <3> QED
      BY <3>1, <3>2
  <2>5. CASE TapBack
    BY <2>5 DEF TapBack, MembersInv, Entitled
  <2>6. ASSUME NEW s \in Slots, Serve(s) PROVE EntersOnlyMembers' /\ Entitled'
    <3>1. PICK status \in Statuses, cred \in registered \union {net[s].cred} :
            /\ Answers(net[s], status, cred)
            /\ net' = [net EXCEPT ![s].status = status, ![s].cred = cred]
            /\ registered \subseteq registered'
            /\ \/ net[s].kind = "signUp" /\ registered' = registered \union {net[s].cred}
               \/ net[s].kind # "signUp" \/ status = "FAIL"
      BY <2>6 DEF Serve
    <3>2. status \in {"SIGNIN", "OK"} => cred \in registered'
      BY <3>1 DEF Answers
    <3>3. \A r \in Slots : net'[r] = IF r = s
                                    THEN [net[s] EXCEPT !.status = status, !.cred = cred]
                                    ELSE net[r]
      BY <3>1 DEF MembersInv, TypeOK
    <3>4. net[s] \in Requests
      BY DEF MembersInv, TypeOK
    <3>5. net'[s].status = status /\ net'[s].cred = cred
      BY <3>3, <3>4 DEF Requests
    <3>6. Entitled'
      BY <3>1, <3>2, <3>3, <3>5 DEF MembersInv, Entitled
    <3>7. EntersOnlyMembers'
      BY <2>6, <3>1 DEF Serve, MembersInv
    <3> QED
      BY <3>6, <3>7
  <2>7. ASSUME NEW s \in Slots, Deliver(s) PROVE EntersOnlyMembers' /\ Entitled'
    <3>1. registered' = registered
      BY <2>7 DEF Deliver, Authorized, NotAuthorized, LoginAnswered, Refused,
                  OverlapAnswered, SignUpAnswered, Validated, Refreshed
    <3>2. Done(s) => Entitled'
      BY <3>1, RequestFresh, FreshSlotEntitled DEF Done, Idle
    <3>3. SamePages \/ MoveSignIn \/ MoveSignUp(net[s].cred) => EntersOnlyMembers'
      BY <3>1 DEF SamePages, MoveSignIn, MoveSignUp, MembersInv
    <3>4. net[s].status \in {"SIGNIN", "OK"} /\ FinishLogin(net[s].cred)
             => EntersOnlyMembers'
      BY <3>1 DEF FinishLogin, MembersInv, Entitled
    <3>5. CASE Authorized(s)
      BY <3>1, <3>3, <3>5, RequestFresh, FreshSlotEntitled DEF Authorized
    <3>6. CASE NotAuthorized(s) \/ Refused(s)
      BY <3>2, <3>3, <3>6 DEF NotAuthorized, Refused
    <3>7. CASE LoginAnswered(s)
      BY <3>2, <3>3, <3>4, <3>7 DEF LoginAnswered
    <3>8. CASE OverlapAnswered(s)
      BY <3>1, <3>3, <3>8, RequestFresh, FreshSlotEntitled DEF OverlapAnswered
    <3>9. CASE SignUpAnswered(s)
      BY <3>2, <3>4, <3>9 DEF SignUpAnswered
    <3>10. CASE Validated(s)
      BY <3>1, <3>2, <3>3, <3>4, <3>10, RequestFresh, FreshSlotEntitled DEF Validated
    <3>11. CASE Refreshed(s)
      BY <3>2, <3>3, <3>4, <3>11 DEF Refreshed
    <3> QED
      BY <2>7, <3>5, <3>6, <3>7, <3>8, <3>9, <3>10, <3>11 DEF Deliver
  <2>8. CASE UNCHANGED vars
    BY <2>8 DEF vars, MembersInv, Entitled
  <2> QED
    BY <2>1, <2>2, <2>3, <2>4, <2>5, <2>6, <2>7, <2>8 DEF Next
<1>3. Spec => []TypeOK
  BY TypeCorrect
<1> QED
  BY <1>1, <1>2, <1>3, PTL DEF Spec, MembersInv

-----------------------------------------------------------------------------
(* The two tokens belong together.                                         *)

LEMMA SavedPaired ==
    ASSUME TypeOK, ~regime.keychainFails, NEW token \in Tokens,
           NEW saved \in SaveTokens(tokens, token), tokens' = saved[1]
    PROVE  tokens'["AccessToken"] = tokens'["RefreshToken"]
<1>1. \A chain, key, value :
        SaveItem(chain, key, value) = {<<[chain EXCEPT ![key] = value], TRUE>>}
  BY DEF SaveItem
<1> DEFINE first == [tokens EXCEPT !["AccessToken"] = token]
<1>2. SaveTokens(tokens, token)
        = UNION {IF f[2] THEN SaveItem(f[1], "RefreshToken", token) ELSE {f} :
                    f \in {<<first, TRUE>>}}
  BY <1>1 DEF SaveTokens
<1>3. saved = <<[first EXCEPT !["RefreshToken"] = token], TRUE>>
  <2>1. PICK f \in {<<first, TRUE>>} :
          saved \in IF f[2] THEN SaveItem(f[1], "RefreshToken", token) ELSE {f}
    BY <1>2, Zenon
  <2>2. f[1] = first /\ f[2]
    <3> HIDE DEF first
    <3>1. f = <<first, TRUE>>
      BY <2>1, Zenon
    <3> QED
      BY <3>1
  <2>3. saved \in SaveItem(first, "RefreshToken", token)
    BY <2>1, <2>2, Zenon
  <2> QED
    BY <1>1, <2>3, Zenon
<1> QED
  BY <1>3 DEF TypeOK, TokenKeys

(* TokensPaired for any number of overlapping logins, refreshes, launches and *)
(* kills: every handler that writes one token writes the other.               *)
THEOREM TokensTogether == Spec => []TokensPaired
<1>1. Init => TokensPaired
  BY DEF Init, TokensPaired, TokenKeys
<1>2. TypeOK /\ TokensPaired /\ [Next]_vars => TokensPaired'
  <2> SUFFICES ASSUME TypeOK, TokensPaired, [Next]_vars, ~regime'.keychainFails
               PROVE  tokens'["AccessToken"] = tokens'["RefreshToken"]
    BY DEF TokensPaired
  <2> USE LoginConstants
  <2>1. regime' = regime
    BY DEF Next, vars, Launch, Terminate, TapLogin, TapDone, TapBack, Serve, Deliver,
       Authorized, NotAuthorized, LoginAnswered, Refused, OverlapAnswered,
       SignUpAnswered, Validated, Refreshed
  <2>2. ASSUME tokens' = tokens PROVE tokens'["AccessToken"] = tokens'["RefreshToken"]
    BY <2>1, <2>2 DEF TokensPaired
  <2>3. CASE Launch
    <3>1. PICK first \in Delete(tokens, "AccessToken") :
            tokens' \in Delete(first, "RefreshToken")
      BY <2>3 DEF Launch
    <3>2. /\ first = [tokens EXCEPT !["AccessToken"] = NoItem]
          /\ tokens' = [first EXCEPT !["RefreshToken"] = NoItem]
      BY <2>1, <3>1 DEF Delete
    <3> QED
      BY <3>2 DEF TypeOK, TokenKeys
  <2>4. ASSUME NEW s \in Slots, LoginAnswered(s)
        PROVE  tokens'["AccessToken"] = tokens'["RefreshToken"]
    <3>1. net[s].cred \in Tokens /\ EmptyString \in Tokens
      BY DEF TypeOK, Requests, Tokens
    <3>2. PICK token \in Tokens : \E saved \in SaveTokens(tokens, token) :
              tokens' = saved[1]
      BY <2>4, <3>1 DEF LoginAnswered
    <3> QED
      BY <2>1, <3>2, SavedPaired
  <2>5. ASSUME NEW s \in Slots, Refreshed(s)
        PROVE  tokens'["AccessToken"] = tokens'["RefreshToken"]
    <3>1. net[s].cred \in Tokens
      BY DEF TypeOK, Requests, Tokens
    <3>2. \/ tokens' = tokens
          \/ \E saved \in SaveTokens(tokens, net[s].cred) : tokens' = saved[1]
      BY <2>5 DEF Refreshed
    <3> QED
      BY <2>1, <2>2, <3>1, <3>2, SavedPaired
  <2> QED
    BY <2>2, <2>3, <2>4, <2>5
       DEF Next, vars, Terminate, TapLogin, TapDone, TapBack, Serve, Deliver,
           Authorized, NotAuthorized, Refused, OverlapAnswered, SignUpAnswered, Validated
<1> QED
  BY <1>1, <1>2, TypeCorrect, PTL DEF Spec

-----------------------------------------------------------------------------
(* The user who waits: one request at a time, no token found at a launch,  *)
(* and an account that changes only while no sign-up page is open.         *)

AccountIs(cred) == account["authType"] = cred.auth /\ account["identifier"] = cred.id

OneAtATime ==
    \A s, t \in Slots : net[s].kind # "idle" /\ net[t].kind # "idle" => s = t

Stopped == ~running => root = "blank" /\ signUpPages = <<>> /\ Quiet

BarsCounted == root # "tabBar" => tabBars = 0

\* Sign-up pages are of the account in the keychain, over the sign-in page, and
\* there is no session yet.
PagesOfAccount ==
    /\ signUpPages # <<>> => root = "signIn" /\ tokens["AccessToken"] = EmptyString
    /\ \A i \in 1..Len(signUpPages) : AccountIs(signUpPages[i])

RequestOfAccount(s) ==
    LET r == net[s] IN
    /\ r.kind \in {"idle", "sdk", "login", "overlap", "signUp"}
    /\ r.kind # "idle" => root = "signIn"
    /\ r.kind \in {"sdk", "login"} => signUpPages = <<>>
    /\ r.kind = "login" => AccountIs(r.cred)
    /\ r.kind \in {"overlap", "signUp"} => signUpPages # <<>> /\ AccountIs(r.page)
    /\ r.kind = "signUp" => r.cred = r.page

Patient ==
    /\ OneAtATime /\ Stopped /\ BarsCounted /\ PagesOfAccount
    /\ \A s \in Slots : RequestOfAccount(s)
    /\ root = "tabBar" /\ tokens["AccessToken"] \in Creds
          => tokens["AccessToken"].id = account["identifier"]

PatientInv == Orderly => Patient

LEMMA IdleKind == Idle.kind = "idle"
BY DEF Idle, Request

(* A request put into a slot while the others are idle. *)
LEMMA SlotFilled ==
    ASSUME TypeOK, NEW s \in Slots, NEW r,
           \A t \in Slots \ {s} : net[t].kind = "idle",
           net' = [net EXCEPT ![s] = r]
    PROVE  /\ OneAtATime'
           /\ net'[s] = r
           /\ \A t \in Slots \ {s} : net'[t].kind = "idle"
           /\ RequestOfAccount(s)' => \A t \in Slots : RequestOfAccount(t)'
<1>1. net'[s] = r /\ \A t \in Slots \ {s} : net'[t].kind = "idle"
  BY DEF TypeOK
<1>2. OneAtATime'
  BY <1>1 DEF OneAtATime
<1>3. ASSUME NEW t \in Slots \ {s} PROVE RequestOfAccount(t)'
  BY <1>1, <1>3 DEF RequestOfAccount
<1> QED
  BY <1>1, <1>2, <1>3

(* A request taken out: nothing is in flight. *)
LEMMA SlotEmptied ==
    ASSUME TypeOK, NEW s \in Slots,
           \A t \in Slots \ {s} : net[t].kind = "idle", Done(s)
    PROVE  OneAtATime' /\ \A t \in Slots : RequestOfAccount(t)'
<1>1. /\ OneAtATime' /\ net'[s] = Idle
      /\ RequestOfAccount(s)' => \A t \in Slots : RequestOfAccount(t)'
  BY SlotFilled DEF Done
<1>2. RequestOfAccount(s)'
  BY <1>1, IdleKind DEF RequestOfAccount
<1> QED
  BY <1>1, <1>2

(* The saves of a keychain that works. *)
LEMMA SavedItems ==
    ASSUME TypeOK, ~regime.keychainFails
    PROVE  /\ \A token \in Tokens : \A saved \in SaveTokens(tokens, token) :
                saved[2] /\ saved[1]["AccessToken"] = token
           /\ \A a \in Accounts : \A saved \in SaveAccount(account, CredOf(a)) :
                saved[1]["authType"] = AuthType[a] /\ saved[1]["identifier"] = a
<1>1. \A chain, key, value :
        SaveItem(chain, key, value) = {<<[chain EXCEPT ![key] = value], TRUE>>}
  BY DEF SaveItem
<1>2. ASSUME NEW token \in Tokens, NEW saved \in SaveTokens(tokens, token)
      PROVE  saved[2] /\ saved[1]["AccessToken"] = token
  <2> DEFINE first == [tokens EXCEPT !["AccessToken"] = token]
  <2>1. saved \in UNION {IF f[2] THEN SaveItem(f[1], "RefreshToken", token) ELSE {f} :
                            f \in {<<first, TRUE>>}}
    BY <1>1 DEF SaveTokens
  <2>2. PICK f \in {<<first, TRUE>>} :
          saved \in IF f[2] THEN SaveItem(f[1], "RefreshToken", token) ELSE {f}
    BY <2>1, Zenon
  <2>3. f[1] = first /\ f[2]
    <3> HIDE DEF first
    <3>1. f = <<first, TRUE>>
      BY <2>2, Zenon
    <3> QED
      BY <3>1
  <2>4. saved = <<[first EXCEPT !["RefreshToken"] = token], TRUE>>
    BY <1>1, <2>2, <2>3, Zenon
  <2> QED
    BY <2>4 DEF TypeOK, TokenKeys
<1>3. ASSUME NEW a \in Accounts, NEW saved \in SaveAccount(account, CredOf(a))
      PROVE  saved[1]["authType"] = AuthType[a] /\ saved[1]["identifier"] = a
  <2> DEFINE first == [account EXCEPT !["authType"] = CredOf(a).auth]
  <2>1. saved \in UNION {SaveItem(f[1], "identifier", CredOf(a).id) :
                            f \in {<<first, TRUE>>}}
    BY <1>1 DEF SaveAccount
  <2>2. PICK f \in {<<first, TRUE>>} : saved \in SaveItem(f[1], "identifier", CredOf(a).id)
    BY <2>1, Zenon
  <2>3. f[1] = first
    <3> HIDE DEF first
    <3>1. f = <<first, TRUE>>
      BY <2>2, Zenon
    <3> QED
      BY <3>1
  <2>4. saved = <<[first EXCEPT !["identifier"] = CredOf(a).id], TRUE>>
    BY <1>1, <2>2, <2>3, Zenon
  <2> QED
    BY <2>4 DEF TypeOK, AccountItems, AccountKeys, CredOf
<1> QED
  BY <1>2, <1>3

(* Every answer reaches a user who has nothing else in flight. *)
LEMMA PatientDelivery ==
    ASSUME TypeOK, Orderly, Patient, NEW s \in Slots, Deliver(s)
    PROVE  Patient'
<1> USE DEF Patient
<1>1. /\ net[s].kind # "idle" /\ root = "signIn" /\ running /\ tabBars = 0
      /\ \A t \in Slots \ {s} : net[t].kind = "idle"
  <2>1. net[s].kind # "idle"
    BY DEF Deliver, Authorized, NotAuthorized, LoginAnswered, Refused, OverlapAnswered,
       SignUpAnswered, Validated, Refreshed
  <2>2. root = "signIn" /\ \A t \in Slots \ {s} : net[t].kind = "idle"
    BY <2>1 DEF RequestOfAccount, OneAtATime
  <2> QED
    BY <2>1, <2>2 DEF Stopped, BarsCounted, Quiet, Idle, Request
<1>2. running' = running
  BY DEF Deliver, Authorized, NotAuthorized, LoginAnswered, Refused, OverlapAnswered,
     SignUpAnswered, Validated, Refreshed
<1>3. Stopped'
  BY <1>1, <1>2 DEF Stopped
<1>4. Done(s) => OneAtATime' /\ \A t \in Slots : RequestOfAccount(t)'
  BY <1>1, SlotEmptied
<1>5. CASE Authorized(s)
  <2>1. PICK a \in Accounts :
          /\ \E saved \in SaveAccount(account, CredOf(a)) : account' = saved[1]
          /\ net' = [net EXCEPT ![s] = Request("login", CredOf(a), NoCred, NoItem)]
    BY <1>5 DEF Authorized
  <2>2. account'["authType"] = AuthType[a] /\ account'["identifier"] = a
    BY <2>1, SavedItems DEF Orderly
  <2>3. signUpPages = <<>> /\ SamePages
    BY <1>5 DEF Authorized, RequestOfAccount
  <2>4. PagesOfAccount' /\ BarsCounted'
    BY <1>1, <2>3 DEF PagesOfAccount, BarsCounted, SamePages
  <2>5. /\ OneAtATime' /\ net'[s] = Request("login", CredOf(a), NoCred, NoItem)
        /\ RequestOfAccount(s)' => \A t \in Slots : RequestOfAccount(t)'
    BY <1>1, <2>1, SlotFilled
  <2>6. RequestOfAccount(s)'
    BY <1>1, <2>2, <2>3, <2>5 DEF RequestOfAccount, AccountIs, CredOf, Request, SamePages
  <2> QED
    BY <1>1, <1>3, <2>3, <2>4, <2>5, <2>6 DEF SamePages
<1>6. CASE NotAuthorized(s) \/ Refused(s)
  <2>1. Done(s) /\ SamePages /\ UNCHANGED <<account, tokens>>
    BY <1>6 DEF NotAuthorized, Refused
  <2> QED
    BY <1>1, <1>3, <1>4, <2>1 DEF SamePages, PagesOfAccount, BarsCounted, AccountIs
<1>7. CASE LoginAnswered(s)
  <2> DEFINE token == IF net[s].status = "SIGNIN" THEN net[s].cred ELSE EmptyString
  <2>1. token \in Tokens /\ net[s].cred \in Creds
    BY DEF TypeOK, Requests, Tokens
  <2>2. /\ tokens'["AccessToken"] = token
        /\ \/ net[s].status = "SIGNIN" /\ FinishLogin(net[s].cred)
           \/ net[s].status = "SIGNUP" /\ MoveSignUp(net[s].cred)
           \/ net[s].status = "other" /\ SamePages
    BY <1>7, <2>1, SavedItems DEF LoginAnswered, Orderly
  <2>3. signUpPages = <<>> /\ AccountIs(net[s].cred) /\ account' = account /\ Done(s)
    BY <1>7 DEF LoginAnswered, RequestOfAccount
  <2>4. CASE net[s].status = "SIGNIN" /\ FinishLogin(net[s].cred)
    BY <1>3, <1>4, <2>2, <2>3, <2>4
       DEF FinishLogin, PagesOfAccount, BarsCounted, AccountIs
  <2>5. CASE net[s].status = "SIGNUP" /\ MoveSignUp(net[s].cred)
    <3>1. /\ Len(signUpPages') = 1 /\ signUpPages'[1] = net[s].cred
          /\ root' = root /\ tabBars' = tabBars
      BY <2>1, <2>3, <2>5 DEF MoveSignUp
    <3> QED
      BY <1>1, <1>3, <1>4, <2>2, <2>3, <2>5, <3>1 DEF PagesOfAccount, BarsCounted, AccountIs
  <2>6. CASE net[s].status = "other" /\ SamePages
    BY <1>1, <1>3, <1>4, <2>2, <2>3, <2>6 DEF SamePages, PagesOfAccount, BarsCounted
  <2> QED
    BY <2>2, <2>4, <2>5, <2>6
<1>8. CASE OverlapAnswered(s)
  <2> DEFINE cred == [auth |-> OrEmpty(account["authType"]),
                      id   |-> OrEmpty(account["identifier"])]
  <2>1. /\ net' = [net EXCEPT ![s] = Request("signUp", cred, net[s].page, NoItem)]
        /\ SamePages /\ UNCHANGED <<account, tokens>>
        /\ signUpPages # <<>> /\ AccountIs(net[s].page)
    BY <1>8 DEF OverlapAnswered, RequestOfAccount
  <2>2. cred = net[s].page
    <3>1. net[s].page \in Creds
      BY DEF TypeOK, Requests
    <3> QED
      BY <2>1, <3>1, LoginConstants DEF AccountIs, OrEmpty, Creds
  <2>3. /\ OneAtATime' /\ net'[s] = Request("signUp", cred, net[s].page, NoItem)
        /\ RequestOfAccount(s)' => \A t \in Slots : RequestOfAccount(t)'
    BY <1>1, <2>1, SlotFilled
  <2>4. RequestOfAccount(s)'
    BY <1>1, <2>1, <2>2, <2>3 DEF RequestOfAccount, AccountIs, Request, SamePages
  <2> QED
    BY <1>1, <1>3, <2>1, <2>3, <2>4 DEF SamePages, PagesOfAccount, BarsCounted, AccountIs
<1>9. CASE SignUpAnswered(s)
  <2>1. Done(s) /\ FinishLogin(net[s].cred) /\ UNCHANGED <<account, tokens>>
    BY <1>9 DEF SignUpAnswered
  <2>2. tokens["AccessToken"] = EmptyString
    BY <1>9 DEF SignUpAnswered, RequestOfAccount, PagesOfAccount
  <2> QED
    BY <1>3, <1>4, <2>1, <2>2, TokenConstants
       DEF FinishLogin, PagesOfAccount, BarsCounted
<1>10. ~Validated(s) /\ ~Refreshed(s)
  BY DEF Validated, Refreshed, RequestOfAccount
<1> QED
  BY <1>5, <1>6, <1>7, <1>8, <1>9, <1>10 DEF Deliver

LEMMA PatientInit == Init => PatientInv
<1> SUFFICES ASSUME Init PROVE Patient
  BY DEF PatientInv
<1>1. \A s \in Slots : net[s] = Idle /\ net[s].kind = "idle"
  BY IdleKind DEF Init
<1>2. OneAtATime /\ Stopped /\ BarsCounted /\ PagesOfAccount
  BY <1>1 DEF Init, OneAtATime, Stopped, BarsCounted, PagesOfAccount, Quiet
<1>3. \A s \in Slots : RequestOfAccount(s)
  BY <1>1 DEF RequestOfAccount
<1> QED
  BY <1>2, <1>3 DEF Patient, Init

\* Closing the last page keeps the pages below it as they are: what the
\* back button of the navigation bar does to the sign-up pages.
LEMMA PageClosed ==
  ASSUME NEW S, NEW s \in Seq(S), s # <<>>
  PROVE  /\ Len(s) \in Nat
         /\ Len(SubSeq(s, 1, Len(s) - 1)) = Len(s) - 1
         /\ \A i \in 1..(Len(s) - 1) : SubSeq(s, 1, Len(s) - 1)[i] = s[i]
<1>1. Len(s) \in Nat \ {0}
  OBVIOUS
<1>2. PICK k \in Nat : k = Len(s) - 1
  BY <1>1
<1>3. 1 \in Int /\ k \in Int /\ \A i \in 1..k : s[i] \in S
  BY <1>1, <1>2
<1>4. /\ SubSeq(s, 1, k) \in Seq(S)
      /\ Len(SubSeq(s, 1, k)) = IF 1 <= k THEN k - 1 + 1 ELSE 0
  BY <1>3, SubSeqProperties
<1>5. \A i \in 1..(k - 1 + 1) : SubSeq(s, 1, k)[i] = s[1 + i - 1]
  BY <1>3, SubSeqProperties
<1> QED
  BY <1>1, <1>2, <1>4, <1>5

LEMMA PatientStep == TypeOK /\ PatientInv /\ [Next]_vars => PatientInv'
<1>1. [Next]_vars => regime' = regime
  BY DEF Next, vars, Launch, Terminate, TapLogin, TapDone, TapBack, Serve, Deliver,
     Authorized, NotAuthorized, LoginAnswered, Refused, OverlapAnswered,
     SignUpAnswered, Validated, Refreshed
<1> SUFFICES ASSUME TypeOK, Orderly, Patient, [Next]_vars PROVE Patient'
  BY <1>1 DEF PatientInv, Orderly
<1> USE DEF Patient
<1>2. CASE Launch
  <2>1. /\ running' /\ UNCHANGED account
        /\ root = "blank" /\ signUpPages = <<>> /\ Quiet
    BY <1>2 DEF Launch, Stopped
  <2>2. PICK first \in Delete(tokens, "AccessToken") :
          tokens' \in Delete(first, "RefreshToken")
    BY <1>2 DEF Launch
  <2>3. tokens'["AccessToken"] = NoItem
    <3>1. /\ first = [tokens EXCEPT !["AccessToken"] = NoItem]
          /\ tokens' = [first EXCEPT !["RefreshToken"] = NoItem]
      BY <2>2 DEF Delete, Orderly
    <3> QED
      BY <3>1 DEF TypeOK, TokenKeys
  <2>4. MoveSignIn /\ UNCHANGED net
    BY <1>2, <2>3 DEF Launch
  <2>5. \A s \in Slots : net[s].kind = "idle" /\ net'[s].kind = "idle"
    BY <2>1, <2>4, IdleKind DEF Quiet
  <2> QED
    BY <2>1, <2>4, <2>5 DEF MoveSignIn, OneAtATime, Stopped, BarsCounted, PagesOfAccount,
       RequestOfAccount
<1>3. CASE Terminate
  <2>1. \A s \in Slots : net'[s] = Idle /\ net'[s].kind = "idle"
    BY <1>3, IdleKind DEF Terminate
  <2>2. root' = "blank" /\ signUpPages' = <<>> /\ tabBars' = 0
    BY <1>3 DEF Terminate
  <2> QED
    BY <2>1, <2>2 DEF OneAtATime, Stopped, BarsCounted, PagesOfAccount, RequestOfAccount, Quiet
<1>4. ASSUME Ready PROVE running /\ \A s \in Slots : net[s].kind = "idle"
  BY <1>4, IdleKind DEF Ready, Orderly, Quiet
<1>5. ASSUME NEW auth \in AuthTypes, TapLogin(auth) PROVE Patient'
  <2>1. PICK s \in Slots :
          net' = [net EXCEPT ![s] = Request("sdk", [auth |-> auth, id |-> EmptyString],
                                            NoCred, NoItem)]
    BY <1>5 DEF TapLogin, Send
  <2>2. /\ running /\ running' = running /\ UNCHANGED <<account, tokens>> /\ SamePages
        /\ root = "signIn" /\ signUpPages = <<>>
        /\ \A t \in Slots : net[t].kind = "idle"
    BY <1>4, <1>5 DEF TapLogin
  <2>3. /\ OneAtATime' /\ net'[s].kind = "sdk"
        /\ RequestOfAccount(s)' => \A t \in Slots : RequestOfAccount(t)'
    <3>1. /\ OneAtATime'
          /\ net'[s] = Request("sdk", [auth |-> auth, id |-> EmptyString], NoCred, NoItem)
          /\ RequestOfAccount(s)' => \A t \in Slots : RequestOfAccount(t)'
      BY <2>1, <2>2, SlotFilled
    <3> QED
      BY <3>1 DEF Request
  <2>4. RequestOfAccount(s)'
    BY <2>2, <2>3 DEF RequestOfAccount, SamePages
  <2> QED
    BY <2>2, <2>3, <2>4 DEF SamePages, Stopped, BarsCounted, PagesOfAccount
<1>6. CASE TapDone
  <2>1. PICK s \in Slots :
          net' = [net EXCEPT ![s] =
                    Request("overlap", NoCred, signUpPages[Len(signUpPages)], NoItem)]
    BY <1>6 DEF TapDone, Send
  <2>2. /\ running /\ running' = running /\ UNCHANGED <<account, tokens>> /\ SamePages
        /\ root = "signIn" /\ signUpPages # <<>>
        /\ \A t \in Slots : net[t].kind = "idle"
    BY <1>4, <1>6 DEF TapDone, PagesOfAccount
  <2>3. AccountIs(signUpPages[Len(signUpPages)])
    BY <2>2 DEF TypeOK, PagesOfAccount
  <2>4. /\ OneAtATime' /\ net'[s].kind = "overlap"
        /\ net'[s].page = signUpPages[Len(signUpPages)]
        /\ RequestOfAccount(s)' => \A t \in Slots : RequestOfAccount(t)'
    <3>1. /\ OneAtATime'
          /\ net'[s] = Request("overlap", NoCred, signUpPages[Len(signUpPages)], NoItem)
          /\ RequestOfAccount(s)' => \A t \in Slots : RequestOfAccount(t)'
      BY <2>1, <2>2, SlotFilled
    <3> QED
      BY <3>1 DEF Request
  <2>5. RequestOfAccount(s)'
    BY <2>2, <2>3, <2>4 DEF RequestOfAccount, AccountIs, SamePages
  <2> QED
    BY <2>2, <2>4, <2>5 DEF SamePages, Stopped, BarsCounted, PagesOfAccount, AccountIs
<1>7. CASE TapBack
  <2>1. /\ UNCHANGED <<running, account, tokens, root, net, tabBars>>
        /\ signUpPages # <<>> /\ signUpPages' = SubSeq(signUpPages, 1, Len(signUpPages) - 1)
        /\ running /\ \A t \in Slots : net[t].kind = "idle"
    BY <1>4, <1>7 DEF TapBack
  <2>2. /\ Len(signUpPages') = Len(signUpPages) - 1 /\ Len(signUpPages) \in Nat
        /\ \A i \in 1..Len(signUpPages') : signUpPages'[i] = signUpPages[i]
    <3>1. signUpPages \in Seq(Creds)
      BY DEF TypeOK
    <3> QED
      BY <2>1, <3>1, PageClosed
  <2>3. PagesOfAccount'
    BY <2>1, <2>2 DEF PagesOfAccount, AccountIs
  <2> QED
    BY <2>1, <2>3 DEF OneAtATime, Stopped, BarsCounted, RequestOfAccount
<1>8. ASSUME NEW s \in Slots, Serve(s) PROVE Patient'
  <2>1. PICK status \in Statuses, cred \in registered \union {net[s].cred} :
          /\ Answers(net[s], status, cred)
          /\ net' = [net EXCEPT ![s].status = status, ![s].cred = cred]
    BY <1>8 DEF Serve
  <2>2. cred = net[s].cred
    BY <2>1 DEF Answers, RequestOfAccount
  <2>3. \A t \in Slots : /\ net'[t].kind = net[t].kind /\ net'[t].cred = net[t].cred
                         /\ net'[t].page = net[t].page
    <3>1. \A t \in Slots : net'[t] = IF t = s
                                     THEN [net[s] EXCEPT !.status = status, !.cred = cred]
                                     ELSE net[t]
      BY <2>1 DEF TypeOK
    <3>2. net[s] \in Requests
      BY DEF TypeOK
    <3> QED
      BY <2>2, <3>1, <3>2 DEF Requests
  <2>4. UNCHANGED <<running, account, tokens, root, signUpPages, tabBars>>
    BY <1>8 DEF Serve
  <2>5. running
    BY <1>8, IdleKind DEF Serve, Stopped, Quiet
  <2> QED
    BY <2>3, <2>4, <2>5
       DEF OneAtATime, Stopped, BarsCounted, PagesOfAccount, RequestOfAccount, AccountIs
<1>9. ASSUME NEW s \in Slots, Deliver(s) PROVE Patient'
  BY <1>9, PatientDelivery
<1>10. CASE UNCHANGED vars
  BY <1>10 DEF vars, OneAtATime, Stopped, BarsCounted, PagesOfAccount, RequestOfAccount,
     AccountIs, Quiet
<1> QED
  BY <1>2, <1>3, <1>5, <1>6, <1>7, <1>8, <1>9, <1>10 DEF Next

LEMMA PatientInductive == Spec => [](TypeOK /\ PatientInv)
  BY PatientInit, PatientStep, TypeCorrect, PTL DEF Spec

(* SignsUpPageOwner for any accounts, launches and kills: the account is read *)
(* from the keychain an answer after its page was opened, and is still that   *)
(* of the page.                                                              *)
THEOREM PageOwnerSignedUp == Spec => []SignsUpPageOwner
<1>1. PatientInv => SignsUpPageOwner
  BY DEF PatientInv, Patient, RequestOfAccount, SignsUpPageOwner
<1> QED
  BY <1>1, PatientInductive, PTL

(* SessionMatchesAccount: the tokens of a session are those of the account in *)
(* the keychain, or none at all after a sign-up.                              *)
THEOREM SessionOfAccount == Spec => []SessionMatchesAccount
<1>1. PatientInv => SessionMatchesAccount
  BY DEF PatientInv, Patient, SessionMatchesAccount
<1> QED
  BY <1>1, PatientInductive, PTL

(* The login flow of a user who waits is a Session: no answer opens a second *)
(* tab bar in a process, and none opens one in a process that has ended.     *)
THEOREM SessionImplemented == Spec => ImplementsSession
<1>1. Init => Promised!Init
  BY DEF Init, Promised!Init
<1>2. TypeOK /\ PatientInv /\ [Next]_vars => [Promised!Next]_(Promised!vars)
  <2> SUFFICES ASSUME TypeOK, PatientInv, [Next]_vars
               PROVE  Promised!Next \/ UNCHANGED Promised!vars
    OBVIOUS
  <2>1. regime' = regime
    BY DEF Next, vars, Launch, Terminate, TapLogin, TapDone, TapBack, Serve, Deliver,
       Authorized, NotAuthorized, LoginAnswered, Refused, OverlapAnswered,
       SignUpAnswered, Validated, Refreshed
  <2>2. CASE ~Orderly
    BY <2>1, <2>2 DEF Promised!vars, Orderly
  <2>3. CASE Orderly
    <3> USE <2>3
    <3>1. Orderly' /\ Patient
      BY <2>1 DEF Orderly, PatientInv
    <3>2. ASSUME UNCHANGED <<running, tabBars>> PROVE UNCHANGED Promised!vars
      BY <3>1, <3>2 DEF Promised!vars
    <3>3. CASE Launch
      <4>1. ~running /\ running' /\ tabBars' = tabBars
        BY <3>3 DEF Launch, SamePages, MoveSignIn
      <4> QED
        BY <3>1, <4>1 DEF Promised!Next, Promised!Launch
    <3>4. CASE Terminate
      BY <3>1, <3>4 DEF Terminate, Promised!Next, Promised!Kill
    <3>5. ASSUME NEW s \in Slots, Deliver(s)
          PROVE  Promised!Next \/ UNCHANGED Promised!vars
      <4>1. running /\ tabBars = 0 /\ running' = running
        <5>1. net[s].kind # "idle" /\ running' = running
          BY <3>5 DEF Deliver, Authorized, NotAuthorized, LoginAnswered, Refused,
             OverlapAnswered, SignUpAnswered, Validated, Refreshed
        <5> QED
          BY <3>1, <5>1, IdleKind
             DEF Patient, RequestOfAccount, Stopped, BarsCounted, Quiet
      <4>2. tabBars' = tabBars \/ tabBars' = tabBars + 1
        BY <3>5 DEF Deliver, Authorized, NotAuthorized, LoginAnswered, Refused,
           OverlapAnswered, SignUpAnswered, Validated, Refreshed, SamePages, MoveSignIn,
           MoveSignUp, FinishLogin
      <4> QED
        BY <3>1, <3>2, <4>1, <4>2 DEF Promised!Next, Promised!Enter
    <3> QED
      BY <3>2, <3>3, <3>4, <3>5 DEF Next, vars, TapLogin, TapDone, TapBack, Serve, SamePages
  <2> QED
    BY <2>2, <2>3
<1> QED
  BY <1>1, <1>2, PatientInductive, PTL DEF Spec, ImplementsSession, Promised!Spec
=============================================================================
