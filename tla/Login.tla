------------------------------- MODULE Login -------------------------------
(***************************************************************************)
(* The login flow of the app: the sign-in page (Kakao and Apple), the      *)
(* sign-up pages pushed over it, the keychain the tokens live in, and the  *)
(* requests in flight.  Everything in the app runs on the main thread; what *)
(* interleaves is the user's taps, the service's answers (in any order, or  *)
(* a failure), and the app being killed and launched again.                *)
(*                                                                         *)
(* SignInViewModel and DefaultSignInCoordinator hold each other strongly,  *)
(* and the coordinator keeps every DefaultSignUpCoordinator it created, so  *)
(* an answer is acted on whatever page is shown when it arrives.           *)
(***************************************************************************)
EXTENDS Naturals, Sequences

CONSTANTS
    Accounts,      \* the users' identifiers
    AuthType,      \* [Accounts -> {"KAKAO", "APPLE"}]: who vouches for each
    Slots,         \* room for requests in flight (a bound)
    Regimes,       \* what the user and the keychain may do, see below
    NoItem,        \* the keychain has no such item (nil)
    EmptyString,   \* the string ""
    OptionalText   \* a string String(describing:) makes of an Optional

AuthTypes == {"KAKAO", "APPLE"}

\* A regime is one assumption about the world for a whole behaviour: whether
\* the user acts while a request is in flight, whether SecItemAdd and
\* SecItemDelete may fail; and two bounds, on the taps of a login button in one
\* launch and on the launches.
AllRegimes ==
    [impatient : BOOLEAN, keychainFails : BOOLEAN, taps : Nat, launches : Nat]

ASSUME LoginConstants ==
    /\ AuthType \in [Accounts -> AuthTypes]
    /\ Regimes \subseteq AllRegimes
    /\ NoItem \notin Accounts \union AuthTypes

VARIABLES
    running,     \* the process is alive
    account,     \* keychain: the account of the last login attempt
    tokens,      \* keychain: the tokens; both survive the process
    root,        \* bottom page of the window's navigation controller
    signUpPages, \* the sign-up pages above it, each named by the credential
                 \* whose SIGNUP answer opened it
    net,         \* requests in flight, one per slot
    registered,  \* credentials the service has a member for (external)
    \* bounds and history
    taps, launches,
    entered,     \* credentials on whose behalf the tab bar was opened
    tabBars,     \* tab bars created since the launch
    regime       \* the regime of this behaviour

vars == <<running, account, tokens, root, signUpPages, net, registered,
          taps, launches, entered, tabBars, regime>>

AccountKeys == {"authType", "identifier"}
TokenKeys == {"AccessToken", "RefreshToken"}

Creds == [auth : AuthTypes \union {EmptyString},
          id   : Accounts \union {EmptyString}]

\* The service issues no empty token.
ASSUME TokenConstants == EmptyString \notin Creds

CredOf(a) == [auth |-> AuthType[a], id |-> a]
NoCred == [auth |-> EmptyString, id |-> EmptyString]

\* A token is known by the credential it was issued to.
Tokens == Creds \union {EmptyString, NoItem, OptionalText}

Kinds == {"idle", "sdk", "login", "overlap", "signUp", "validate", "refresh"}
Statuses == {"sent", "FAIL", "SIGNIN", "SIGNUP", "other", "free", "taken",
             "OK", "partial"}

Requests == [kind : Kinds, status : Statuses, cred : Creds, page : Creds,
             token : Tokens]

Request(k, cred, page, token) ==
    [kind |-> k, status |-> "sent", cred |-> cred, page |-> page,
     token |-> token]

Idle == Request("idle", NoCred, NoCred, NoItem)

AccountItems ==
    {chain \in [AccountKeys -> AuthTypes \union Accounts \union {NoItem}] :
        /\ chain["authType"] \in AuthTypes \union {NoItem}
        /\ chain["identifier"] \in Accounts \union {NoItem}}

TypeOK ==
    /\ running \in BOOLEAN
    /\ account \in AccountItems
    /\ tokens \in [TokenKeys -> Tokens]
    /\ root \in {"blank", "signIn", "tabBar"}
    /\ signUpPages \in Seq(Creds)
    /\ net \in [Slots -> Requests]
    /\ registered \in SUBSET Creds
    /\ taps \in Nat
    /\ launches \in Nat
    /\ entered \in SUBSET Creds
    /\ tabBars \in Nat
    /\ regime \in Regimes

-----------------------------------------------------------------------------
(* The keychain: KeychainWrapper                                           *)

\* saveItem deletes the old item and adds the new one; when adding fails the
\* old value is gone, or still there when deleting failed as well.
SaveItem(chain, key, value) ==
    {<<[chain EXCEPT ![key] = value], TRUE>>}
    \union IF regime.keychainFails
           THEN {<<[chain EXCEPT ![key] = NoItem], FALSE>>, <<chain, FALSE>>}
           ELSE {}

\* Mutant: the refresh token is never saved.
SaveTokensAccessOnly(chain, token) == SaveItem(chain, "AccessToken", token)

\* Two saves joined by &&: the second is tried only after the first worked.
SaveTokens(chain, token) ==
    UNION {IF first[2] THEN SaveItem(first[1], "RefreshToken", token)
                       ELSE {first} :
           first \in SaveItem(chain, "AccessToken", token)}

\* Mutants: only the provider is saved; the account is kept once there is one.
SaveAccountProvider(chain, cred) == SaveItem(chain, "authType", cred.auth)

SaveAccountOnce(chain, cred) ==
    IF chain["identifier"] # NoItem
    THEN {<<chain, TRUE>>}
    ELSE UNION {SaveItem(first[1], "identifier", cred.id) :
                first \in SaveItem(chain, "authType", cred.auth)}

\* Two saves in a row whose results are dropped.
SaveAccount(chain, cred) ==
    UNION {SaveItem(first[1], "identifier", cred.id) :
           first \in SaveItem(chain, "authType", cred.auth)}

Delete(chain, key) ==
    {[chain EXCEPT ![key] = NoItem]}
    \union IF regime.keychainFails THEN {chain} ELSE {}

OrEmpty(value) == IF value = NoItem THEN EmptyString ELSE value

\* What "\(String(describing: token))" sends: "nil" or "Optional(...)".
Describing(token) == OptionalText

-----------------------------------------------------------------------------
(* Pages                                                                   *)

\* Mutants: the sign-up pages stay on top of the tab bar; the pages are emptied
\* after the tab bar was pushed.
FinishLoginUnder(cred) ==
    /\ root' = "tabBar"
    /\ tabBars' = tabBars + 1
    /\ entered' = entered \union {cred}
    /\ UNCHANGED signUpPages

FinishLoginEmptied(cred) ==
    /\ root' = "blank"
    /\ signUpPages' = <<>>
    /\ tabBars' = tabBars + 1
    /\ entered' = entered \union {cred}

\* finishLogin empties the window's navigation controller and moveMain pushes
\* a new tab bar.
FinishLogin(cred) ==
    /\ root' = "tabBar"
    /\ signUpPages' = <<>>
    /\ tabBars' = tabBars + 1
    /\ entered' = entered \union {cred}

SamePages == UNCHANGED <<root, signUpPages, tabBars, entered>>

MoveSignIn ==
    /\ root' = "signIn"
    /\ signUpPages' = <<>>
    /\ UNCHANGED <<tabBars, entered>>

MoveSignUp(cred) ==
    /\ signUpPages' = Append(signUpPages, cred)
    /\ UNCHANGED <<root, tabBars, entered>>

Quiet == \A s \in Slots : net[s] = Idle
Ready == running /\ (regime.impatient \/ Quiet)

Send(s, request) ==
    /\ net[s] = Idle
    /\ net' = [net EXCEPT ![s] = request]

-----------------------------------------------------------------------------
(* Launch and termination                                                  *)

\* checkSavingTokens: both tokens are deleted, the results dropped; only if
\* both can still be loaded is the access token validated.
Launch ==
    /\ ~running
    /\ launches < regime.launches
    /\ launches' = launches + 1
    /\ running' = TRUE
    /\ taps' = 0
    /\ \E first \in Delete(tokens, "AccessToken") :
         tokens' \in Delete(first, "RefreshToken")
    /\ IF tokens'["AccessToken"] # NoItem /\ tokens'["RefreshToken"] # NoItem
       THEN /\ \E s \in Slots :
                 Send(s, Request("validate", NoCred, NoCred,
                                 tokens'["AccessToken"]))
            /\ SamePages
       ELSE MoveSignIn /\ UNCHANGED net
    /\ UNCHANGED <<account, registered, regime>>

\* The process is killed: pages and the handlers of the requests are lost.
Terminate ==
    /\ running
    /\ running' = FALSE
    /\ root' = "blank"
    /\ signUpPages' = <<>>
    /\ tabBars' = 0
    /\ net' = [s \in Slots |-> Idle]
    /\ UNCHANGED <<account, tokens, registered, taps, launches, entered, regime>>

-----------------------------------------------------------------------------
(* The user                                                                *)

\* A tap on the Kakao or the Apple button opens that SDK's login.
TapLogin(auth) ==
    /\ Ready
    /\ root = "signIn" /\ signUpPages = <<>>
    /\ taps < regime.taps
    /\ taps' = taps + 1
    /\ \E s \in Slots :
         Send(s, Request("sdk", [auth |-> auth, id |-> EmptyString], NoCred, NoItem))
    /\ SamePages
    /\ UNCHANGED <<running, account, tokens, registered, launches, regime>>

\* Done (or return) with a nickname long enough asks whether it is taken.
TapDone ==
    /\ Ready
    /\ signUpPages # <<>>
    /\ \E s \in Slots :
         Send(s, Request("overlap", NoCred, signUpPages[Len(signUpPages)], NoItem))
    /\ SamePages
    /\ UNCHANGED <<running, account, tokens, registered, taps, launches, regime>>

\* The navigation bar is visible: the user may leave the sign-up page.
TapBack ==
    /\ Ready
    /\ signUpPages # <<>>
    /\ signUpPages' = SubSeq(signUpPages, 1, Len(signUpPages) - 1)
    /\ UNCHANGED <<running, account, tokens, root, net, registered, taps, launches,
                   entered, tabBars, regime>>

-----------------------------------------------------------------------------
(* The service and the SDKs (external)                                     *)

\* The answers the service can give, with the credential they are about.
Answers(request, status, cred) ==
    \/ status = "FAIL" /\ cred = request.cred
    \/ /\ request.kind = "login" /\ cred = request.cred
       /\ \/ status = "SIGNIN" /\ cred \in registered
          \/ status = "SIGNUP" /\ cred \notin registered
          \/ status = "other"
    \/ request.kind = "overlap" /\ status \in {"free", "taken"} /\ cred = request.cred
    \/ request.kind = "signUp" /\ status = "OK" /\ cred = request.cred
    \/ /\ request.kind = "validate" /\ status = "OK"
       /\ cred = request.token /\ cred \in registered
    \/ request.kind = "refresh" /\ status = "OK" /\ cred \in registered
    \/ request.kind = "refresh" /\ status = "partial" /\ cred = request.cred

\* The service handles a request.  Its answer, or a failure, is on its way; a
\* sign-up may be committed and its answer lost.
Serve(s) ==
    /\ net[s].status = "sent"
    /\ net[s].kind \notin {"idle", "sdk"}
    /\ \E status \in Statuses, cred \in registered \union {net[s].cred} :
         /\ Answers(net[s], status, cred)
         /\ net' = [net EXCEPT ![s].status = status, ![s].cred = cred]
         /\ \/ /\ net[s].kind = "signUp"
               /\ registered' = registered \union {net[s].cred}
            \/ /\ net[s].kind # "signUp" \/ status = "FAIL"
               /\ UNCHANGED registered
    /\ UNCHANGED <<running, account, tokens, root, signUpPages, taps, launches,
                   entered, tabBars, regime>>

-----------------------------------------------------------------------------
(* Answers reaching the app                                                *)

Done(s) == net' = [net EXCEPT ![s] = Idle]

\* kakaoLogin's onNext / didCompleteWithAuthorization: signInService stores
\* the account at once and sends the login request.
Authorized(s) ==
    /\ net[s].kind = "sdk"
    /\ \E a \in Accounts :
         /\ AuthType[a] = net[s].cred.auth
         /\ \E saved \in SaveAccount(account, CredOf(a)) : account' = saved[1]
         /\ net' = [net EXCEPT ![s] = Request("login", CredOf(a), NoCred, NoItem)]
    /\ SamePages
    /\ UNCHANGED <<running, tokens, registered, taps, launches, regime>>

\* The SDK fails or is cancelled: nothing happens.
NotAuthorized(s) ==
    /\ net[s].kind = "sdk"
    /\ Done(s)
    /\ SamePages
    /\ UNCHANGED <<running, account, tokens, registered, taps, launches, regime>>

\* The answer of a login request: its tokens are saved whatever the status
\* (a missing token as ""), then the status decides the page.
LoginAnswered(s) ==
    /\ net[s].kind = "login"
    /\ net[s].status \in {"SIGNIN", "SIGNUP", "other"}
    /\ LET cred  == net[s].cred
           token == IF net[s].status = "SIGNIN" THEN cred ELSE EmptyString
       IN  \E saved \in SaveTokens(tokens, token) :
             /\ tokens' = saved[1]
             /\ \/ saved[2] /\ net[s].status = "SIGNIN" /\ FinishLogin(cred)
                \/ saved[2] /\ net[s].status = "SIGNUP" /\ MoveSignUp(cred)
                \/ (~saved[2] \/ net[s].status = "other") /\ SamePages
    /\ Done(s)
    /\ UNCHANGED <<running, account, registered, taps, launches, regime>>

\* A failed login, a taken nickname, a failed check or sign-up: a message at
\* most.
Refused(s) ==
    /\ \/ net[s].kind \in {"login", "overlap", "signUp"} /\ net[s].status = "FAIL"
       \/ net[s].kind = "overlap" /\ net[s].status = "taken"
    /\ Done(s)
    /\ SamePages
    /\ UNCHANGED <<running, account, tokens, registered, taps, launches, regime>>

\* The nickname is free: signUp reads the account from the keychain now.
OverlapAnswered(s) ==
    /\ net[s].kind = "overlap" /\ net[s].status = "free"
    /\ LET cred == [auth |-> OrEmpty(account["authType"]),
                    id   |-> OrEmpty(account["identifier"])]
       IN  net' = [net EXCEPT ![s] = Request("signUp", cred, net[s].page, NoItem)]
    /\ SamePages
    /\ UNCHANGED <<running, account, tokens, registered, taps, launches, regime>>

\* Mutant: a failed sign-up moves to main as well.
SignUpAnsweredAnyhow(s) ==
    /\ net[s].kind = "signUp" /\ net[s].status \in {"OK", "FAIL"}
    /\ FinishLogin(net[s].cred)
    /\ Done(s)
    /\ UNCHANGED <<running, account, tokens, registered, taps, launches, regime>>

\* signUp's onNext drops the answer, tokens included, and moves to main.
SignUpAnswered(s) ==
    /\ net[s].kind = "signUp" /\ net[s].status = "OK"
    /\ FinishLogin(net[s].cred)
    /\ Done(s)
    /\ UNCHANGED <<running, account, tokens, registered, taps, launches, regime>>

\* The access token is valid, or a new one is asked for.
Validated(s) ==
    /\ net[s].kind = "validate"
    /\ \/ /\ net[s].status = "OK"
          /\ FinishLogin(net[s].cred)
          /\ Done(s)
       \/ /\ net[s].status = "FAIL"
          /\ net' = [net EXCEPT ![s] =
                       Request("refresh", NoCred, NoCred,
                               Describing(tokens["RefreshToken"]))]
          /\ SamePages
    /\ UNCHANGED <<running, account, tokens, registered, taps, launches, regime>>

\* New tokens are saved before main is opened; a token missing from the answer
\* or a save that fails leaves the page as it is; a failure shows sign-in.
Refreshed(s) ==
    /\ net[s].kind = "refresh"
    /\ \/ /\ net[s].status = "OK"
          /\ \E saved \in SaveTokens(tokens, net[s].cred) :
               /\ tokens' = saved[1]
               /\ IF saved[2] THEN FinishLogin(net[s].cred) ELSE SamePages
       \/ net[s].status = "partial" /\ SamePages /\ UNCHANGED tokens
       \/ net[s].status = "FAIL" /\ MoveSignIn /\ UNCHANGED tokens
    /\ Done(s)
    /\ UNCHANGED <<running, account, registered, taps, launches, regime>>

Deliver(s) ==
    \/ Authorized(s)      \/ NotAuthorized(s) \/ LoginAnswered(s)
    \/ Refused(s)         \/ OverlapAnswered(s)
    \/ SignUpAnswered(s)  \/ Validated(s)     \/ Refreshed(s)

-----------------------------------------------------------------------------
Init ==
    /\ running = FALSE
    /\ account = [k \in AccountKeys |-> NoItem]
    /\ tokens = [k \in TokenKeys |-> NoItem]
    /\ root = "blank"
    /\ signUpPages = <<>>
    /\ net = [s \in Slots |-> Idle]
    /\ registered \in SUBSET {CredOf(a) : a \in Accounts}
    /\ taps = 0
    /\ launches = 0
    /\ entered = {}
    /\ tabBars = 0
    /\ regime \in Regimes

Next ==
    \/ Launch
    \/ Terminate
    \/ \E auth \in AuthTypes : TapLogin(auth)
    \/ TapDone
    \/ TapBack
    \/ \E s \in Slots : Serve(s) \/ Deliver(s)

Spec == Init /\ [][Next]_vars

\* Alamofire answers or times out every request it was given; the user may
\* stay in the Kakao or Apple dialog for ever.
Replied(s) == net[s].kind # "sdk" /\ Deliver(s)

FairSpec == Spec /\ \A s \in Slots : WF_vars(Serve(s)) /\ WF_vars(Replied(s))

-----------------------------------------------------------------------------
(* Properties                                                              *)

\* The tab bar is opened only on behalf of a credential the service has a
\* member for, whatever the order of answers (signInService, signUp,
\* checkAccessTokenValidation, getNewAccessToken).
EntersOnlyMembers == entered \subseteq registered

\* While keychain writes succeed, the two stored tokens come from the same
\* answer, or are both absent, across overlapping logins and relaunches.
TokensPaired ==
    ~regime.keychainFails => tokens["AccessToken"] = tokens["RefreshToken"]

Orderly == ~regime.impatient /\ ~regime.keychainFails

\* A user who waits for each answer signs up the account whose SIGNUP answer
\* opened the page, although signUp reads it back from the keychain.
SignsUpPageOwner ==
    Orderly =>
        \A s \in Slots : net[s].kind = "signUp" => net[s].cred = net[s].page

\* A user who waits for each answer never works in the tab bar with the tokens
\* of an account other than the one the keychain names.
SessionMatchesAccount ==
    (Orderly /\ root = "tabBar" /\ tokens["AccessToken"] \in Creds) =>
        tokens["AccessToken"].id = account["identifier"]

\* For a user who waits for each answer the login flow is the session the rest
\* of the app builds on: one tab bar per launch, opened by a process that runs,
\* and no later answer that throws it away and builds another.
Promised == INSTANCE Session
    WITH running <- Orderly /\ running, tabBars <- IF Orderly THEN tabBars ELSE 0
ImplementsSession == Promised!Spec

\* A SIGNIN answer on its way ends in the tab bar, unless the app is killed or
\* the keychain takes no tokens.
SignInCompletes ==
    \A s \in Slots :
        ( /\ net[s].kind = "login" /\ net[s].status = "SIGNIN"
          /\ ~regime.keychainFails )
            ~> (root = "tabBar" \/ ~running)

\* The flow described at the end of SignInViewModel: with a valid access token
\* the launch logs in by itself instead of showing the sign-in page.
AutoLogin ==
    [][(Launch /\ tokens["AccessToken"] \in registered
               /\ tokens["RefreshToken"] \in registered) => root' # "signIn"]_vars
=============================================================================
