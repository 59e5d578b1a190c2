# A TLA+ verification project for TWTW

TWTW is an iOS app (Swift, RxSwift, `src/TWTW/TWTW`) in which friends form
groups, look for a place on a map and make plans to meet there. Its service is
a REST server outside this repository. This directory holds TLA+ models of the
app's logic, the TLC configurations that check them on small instances, and
theorems about them that the TLA+ proof system checks for every instance.

## 1. The system

### How it works

Each screen has a view controller, a view model and a coordinator. The view
controller turns taps and texts into Rx streams, the view model reacts to
them, and the coordinator pushes and pops pages on a `UINavigationController`.
Requests go through Alamofire, wrapped in cold observables whose `dispose` does
nothing: a request once sent is never cancelled, only its answer may find no
subscriber. All handlers run on the main thread. So there are no data races;
what interleaves is

* the user's taps and texts, on any page that is on screen,
* the answers of the service, in any order, each possibly a failure, and a
  failure either before or after the service did what it was asked,
* the timers of `throttle` and `debounce`,
* push notifications, whose tap may push pages over whatever is shown,
* the end of the process, and its next launch.

Pages share state through the keychain (`KeychainWrapper`): the tokens, the
account of the last login, the chosen place (five items), the chosen group.
Whether an answer still has an effect depends on who keeps its view model
alive: the page only, or a cycle with its coordinator.

### Components

| Component | State | Operations | Talks to | Hard because |
|---|---|---|---|---|
| Login, sign-up (`Login/`) | tokens, account (keychain), pages, requests | launch, Kakao and Apple sign-in, validate and refresh, overlap check, sign-up | keychain, app coordinator, login service | overlapping requests, kills, half-done writes |
| Sign-up page (`Login/View`) | field, relay, alert, requests | type, done, alert, answers | overlap check, sign-up service | three bindings of one text field, two alerts at once |
| Keychain (`KeyChain/`) | items, which outlive the process | save (delete then add), load, delete | everything | each write may fail half way |
| App coordinator (`Apps/`) | the window's pages | start, finish of a login | login, tab bar | a second finish |
| Place search (`SearchPlaces/`) | text, page number, last page, rows, requests | search, load more, choose | search service, keychain, map | answers overtake each other or are lost |
| Home tab navigation (`Map/`, `Plan/`, `Group/Service`, `Tabbar/`) | stack of pages, coordinators alive | open, back, replace all | each other, through coordinators and `NotificationCenter` | pages change between reading and using an item |
| Plans (`Plan/`) | plan pages, saving requests | open, confirm, answer | keychain, plan service, navigation | double taps, late answers, mixed places |
| Push notifications (`Apps/AppDelegate`, `Tabbar/View`) | alert on screen, requests | route a tap to an alert or to a page of plans, agree, decline | every map coordinator, three services | listeners that multiply or die, taps before the login |
| Groups (`Group/`) | list of groups, GroupId | load, choose, delete a row | group service, keychain | overlapping loads |
| Group creation (`Group/`) | title, its throttle, friends, requests | type, tap, pick, create, invite, pop | group service, friend picker, list | `combineLatest`, a page that goes before its answer |
| Friend pickers (`SearchFriends/`, `FriendsList/`, `MakeNewFriends/`) | friends, filter, selection | load, filter, select, hand over | friend service | debounce, overtaken searches, a reload before the selection changes |
| Participants (`Participants/`) | members, requests | load, invite, move | group and location services | an output that is set on one path only |
| Routes (`Participants/FindRoad`, `Map/Service`) | relays, layers, marker, timer, permission | ask, draw, show and follow the position, leave | route service, Core Location, KakaoMaps | two subscriptions per tap, drawing before the answer, a timer that keeps the page |
| Map page (`Map/View`) | shown controls, sheet, polygon timer | touch, locate, draw | KakaoMaps engine | timers, observers added again and again |
| My page, calls, appointments, location change | none of their own | show | | |

### What makes each one correct

* **Login**: only members of the service enter; the two tokens belong
  together; the account signed up is the one the page was opened for; the
  session is that of the account in the keychain; one tab bar; a sign-in
  completes.
* **Sign-up page**: the field obeys its label; the nickname sent is the one
  shown; what is signed up was found free; a tap is answered.
* **Place search**: the rows are pages 1, 2, ... of one text; a settled table
  shows exactly what was asked for; scrolling stops only at the end; a text
  searched for appears.
* **Home tab and plans**: a plan is asked for the place and group its page
  shows; a plan never mixes two places; a visit saves one plan; a saved plan
  ends on a map; a notification opens a page of plans, always.
* **Session and invitations**: a login opens one tab bar per process; what was
  agreed to is joined, as what it was, and nothing else; a question stands until
  it is answered.
* **Groups**: a tap creates one group, a visit creates one group; friends are
  invited to the group they were picked for; creating closes the page; the list
  then shows all groups; a group has a name.
* **Friend pickers**: no tap is lost or counted twice; checkmarks equal the
  selection; the rows are those of the text in the bar; what is handed over is
  what was checked, once.
* **Participants**: whoever was picked is invited; the service ends with the
  place the user chose last.
* **Routes**: one route is on the map, the newest answered; the marker, its
  timer, the location updates and the permission agree; a page that was left
  ends.

## 2. The plan

| Order | Module | Contents | State |
|---|---|---|---|
| 1 | `Login` | login flow with keychain, kills, overlapping requests | modelled; every invariant and the refinement of the session proved |
| 2 | `PagedListing`, `PlaceSearch` | abstract listing, place search that implements it | modelled; every invariant and the refinement proved |
| 3 | `HomeTab` | pages of the home tab, chosen place, plans, notification, restarts | modelled; every invariant proved |
| 4 | `GroupCreate` | group list, create page, chain of requests | modelled; every invariant proved |
| 5 | `Selection`, `FriendPicker` | abstract selection, friend and stranger pickers that implement it | modelled; refinement proved |
| 6 | `Members` | participants, invitations, the user's own place | modelled; every invariant proved |
| 7 | `SignUpForm` | nickname field, its relay, alerts | modelled; every invariant proved |
| 8 | `FindRoad` | routes, marker, permission, page that was left | modelled; every invariant and action property proved |
| 9 | `Session`, `TabBar` | abstract session; the composition of login, home tab and invitations | modelled; refinements proved |

Left for later: the friends tab with its answers to friend requests.

## 3. The modules

Each module declares its bounds as constants with the assumptions they need,
named `...Constants`. A definition that models code keeps the code's name where
it has one. Above some definitions stand variants marked "Mutant": plausible
bugs, none of which `Next` uses; each property is shown to fail when one of
them replaces its original.

What the user, the network and the keychain may do is not fixed by constants
but chosen in `Init` and never changed: the variable `regime` (or `network`) is
one assumption about the world for a whole behaviour. One run checks several
of them, and a property that needs one of them says so in its antecedent.

### Login

State: whether the process runs, the account and token items of the keychain,
the bottom page of the window, the sign-up pages over it, the requests in
flight (one per slot), the service's members. `SaveItem`, `SaveTokens`,
`SaveAccount`, `Delete` model `KeychainWrapper`, with deletes and adds that may
fail when `regime.keychainFails`. `Launch` is `checkSavingTokens`: it deletes
both tokens before it looks for them, so tokens are only ever found when a
delete fails. `TapLogin` opens the Kakao or Apple dialog, `TapDone` starts the
overlap check, `Serve` is the service, and `Deliver` runs the handler of an
answer: `Authorized`, `LoginAnswered`, `OverlapAnswered`, `SignUpAnswered`,
`Validated`, `Refreshed`, or a refusal. `Terminate` kills the app in any state.
`FinishLogin` replaces the pages by a tab bar; the two coordinates it also
resets in the keychain are the first step of `HomeTab` (`Start`).
`ImplementsSession` maps the flow to `Session` for a user who waits.

An answer is acted on whatever page is shown, because view model and
coordinator hold each other. Unless `regime.impatient` the user acts only while
no request is in flight. `regime.taps` and `regime.launches` are bounds.

### PlaceSearch and PagedListing

`loadData` and `loadMoreData` are the two handlers of the view model, each with
the request it sends; `FirstPageArrives` and `MorePageArrives` are what they do
with the answer, at the time it comes. Rows are modelled page by page.
`network` is "orderly" (answers in the order of the requests, none lost) or
"any". The throttle and `distinctUntilChanged` of the bar are the choice of
when `loadData` happens; since `distinctUntilChanged` stands before the
throttle, the same text may be searched for twice.

`PagedListing` is the abstract specification: a table shows the first page of
some text, or grows by the next page of the text it shows. `ImplementsListing`
is the refinement, for an orderly network.

### HomeTab

`nav` is the stack of pages; it is empty while nobody is logged in. A page
carries the group it was opened for, which a page pushed from it inherits; a
plan page also carries the label it shows and the number of its opening. `items`
and `groupId` are the keychain's. The five items of a place are three here: the
name, the details (URL and road address) and the coordinates (longitude and
latitude), since each group is always written together; `regime.provides` says
which of them a place has. `maps` counts map coordinators alive: each holds its
view model and is held by it, so the count goes down only when the process ends.
`dialog` is the position of the page whose alert or date sheet is open; while
one is open no page can be touched, but answers and notifications still push
pages, or replace them, under it.

`SelectGroup`, `moveSearch`, `SelectPlace`, `moveToPlans`, `OpenPlan`,
`Confirm` are the taps, each with all it changes: `moveSearch` overwrites the
coordinates with the user's location, `SelectPlace` saves the fields the place
has, pops the search and puts the sheet on the map, `Confirm` reads place and
group from the keychain. `Serve`, `PlanSaved`, `PlanFailed` are a request's
fate; `PlanSaved` replaces all pages by a new map whichever page is on top.
`PlaceChanged` is the tap of a notification: `showAlertPage` posts "moveMain",
the groups coordinator opens a map and posts "moveToPlans", and every map
coordinator answers that with a page. The groups coordinator is held by its
page alone (`DefaultTabBarCoordinator` itself is not held), so `Hears` asks
whether that page is still there. `Start` is a login; `Kill` ends the process in
any state: the keychain stays, requests already sent may still be served.

The regime says whether a search may be left without a choice (`abandons`),
whether the user awaits an answer before he confirms again (`patient`), whether
every request is served and answered (`lossless`); `maps`, `visits`, `pushes`,
`starts` and `invites` are bounds. Participants and friend picker pages can be
pushed over a map or a plan page; they read none of the items modelled here and
go back to where they came from, so they are left out here.

### Session and TabBar

`Session` is the abstract specification of a process: it is launched, a login
opens one tab bar in it, it ends. `Login` implements it for a user who waits
(`ImplementsSession`; overlapping logins do build a second tab bar), and `TabBar`
implements it too (`SessionKept`), so the two models meet there: what the login
flow promises is what the rest of the app is built on.

`TabBar` composes the session, the home tab and the invitations. `Login` is
`HomeTab`'s `Start` and `Session`'s `Enter` in one step, `KillApp` is `Kill` of
both. `TapInvitation` is the tap of a notification: `AppDelegate` posts
"showPage", and only `TabBarController` observes it, so a tap before the login
removes the notification and shows nothing, and UIKit drops an alert that would
be presented over another. `Accept` sends the request of the invitation's type,
`JoinServed` and `JoinFailed` are its fate. `HomeStep` are the steps of the home
tab; its taps need the alert closed.

### GroupCreate

`field`, `pending`, `title` are the text field, the text the 300 ms throttle
holds back, and the last text it let through; `tapped` is what `combineLatest`
remembers. `Throttled` and `TapCreate` are its two sides; both run
`CreateGroup`. `CreateAnswered` invites the friends on the page at that moment,
`InviteAnswered` pops the top page. Both do nothing when the page that asked is
gone (`IsOpen`), because the view model goes with it. The list is loaded twice
at first (`viewDidLoad`, `viewWillAppear`) and again whenever it reappears. The
regime says whether the user types on after a tap (`retypes`), waits and stays
(`patient`), and whether requests are served in order and without loss.

### FriendPicker and Selection

One opening of a page with a search bar over a table of people: `FriendSearch`
and the `FriendsList` of a plan ("friends": all friends are loaded once and
filtered on the phone), or `MakeNewFriends` ("strangers": every text is
searched for on the service). `regime.page` says which; `regime.failing`
whether its requests may fail.

`Type` restarts the debounce (`pending`), `Settle` is its end: a text equal to
the last one is dropped, another is filtered for (`Filter`) or searched for
(`Search`). `flatMapLatest` lets one search be heard: a new text turns `heard`
off for the searches before it, whose requests go on all the same. What a
search finds waits for the main queue (`queued`, `Deliver`); so does the empty
result of an empty text. An error of a search reaches `bind(to:)` and ends the
stream (`searching`). Sending rows to the table marks it `dirty`; `Draw` is the
layout that asks for the cells and sets their checkmarks. `Tap` sends the rows
first and changes the choice afterwards, as the handlers do, and only a table
that has been laid out is tapped. `Add` hands the choice over and pops the
page; `GroupCreate` and `Members` receive it. Persons are whole values: the
pickers compare all fields.

`Selection` is the abstract specification: a tap on a person adds them to the
choice or takes them out, and the choice is handed over once, as it stands, or
never. `ImplementsSelection` is the refinement, with the choice seen as a set.

### Members

The participants page over a map. `start` makes a new coordinator, page and
view model; the relay of friends to invite emits its empty list when it is
bound, so each opening first invites nobody and then loads the members, once.
Only a table that has loaded (`listed`) has rows to tap. Picker
(`moveAddNewFriends`, `sendData`) and search (`moveToChangeLocation`,
`didSelectPlace`) give their results to the coordinator, which passes them on
through `output`; only the plus button sets it. A place without coordinates is
dropped by the view model. `passed` is the last place that came through,
`chosen` the last one the user chose.

### SignUpForm

The page `Login` sees as a single tap. `Edit` is one event of the text field:
the view model cuts the text for `nickNameFilteringRelay`, the relay drives the
field, and the field's binding to itself puts the last text without a space
back; the relay hears nothing of that. `field` serves as the state of that last
binding (`scan`) too: both are the last text without a space. `TapDone` asks the
service whether the relay's text is free; `NameFree` signs up with the text that
was asked about, `NameTaken` is heard by two observers, each of which presents
an alert. `Asked` is what a path built from the text asks about: a "?" ends it.
The lengths are constants; the code has 2 and 8.

### FindRoad

One visit of the page of the way to a plan. The page binds its taps to the view
model twice, so `TapRoute` sends two requests, and draws what the relay holds
before its own answer has come; only the relays of the first binding are read.
A request is named by its tap. `drawRoute` removes both layers and draws one
(the layers' rules are the SDK's: external). `Show`, `Track`, `Hide` are the three
states of the marker's button with its timer and the location updates;
`AuthorizationTold`, `Located`, `Tick` are the callbacks of Core Location and of
the run loop. `Alive` says what keeps a page that was left: the run loop holds
the timer, the timer the page. Regimes: a service that answers in order with a
route each time, or any; a user who touches the marker's button, or not.

## 4. The runs

Passing runs:

| Run | Bounds | Shows |
|---|---|---|
| `login_flows` | 2 accounts (one per provider), 2 requests; three regimes: a patient user with 2 taps and 3 launches, an impatient one with 2 taps and 2 launches, an impatient one with a failing keychain, 1 tap, 2 launches | `EntersOnlyMembers`, `TokensPaired`, `SignsUpPageOwner`, `SessionMatchesAccount`, `SignInCompletes`, `ImplementsSession` |
| `sign_up_form` | a letter, the space, a mark; lengths of 2, texts up to 3; 2 requests | `FieldObeysLabel`, `SendsTextShown`, `SignsUpFreeName`, `TapIsAnswered` |
| `place_pages` | texts of 1, 2 and 3 pages, page numbers up to 4, 3 requests, 4 pages of rows; both networks | `SettledTable`, `BlockedOnlyAtEnd`, `ImplementsListing`, `ShowsSearchedText` |
| `home_plans` (of `TabBar`) | 2 places, 2 groups, 2 requests; three regimes: a patient user over two launches who leaves searches and meets a place without details (2 visits, 2 maps); double taps, losses, a notification and an invitation; two invitations and a notification for a patient user | `SendsWhatPageShows`, `WholePlace`, `OnePlanPerVisit`, `ListLostBySaving`, `JoinsAgreed`, `QuestionStands`, `SavedPlanShowsMap`, `AgreedIsJoined` |
| `group_groups` | 2 titles (an accepted and the refused one), 1 friend, 3 requests, 2 visits, 2 groups; a careful user on an orderly network with 2 taps, a hasty one on any network with 1 tap | `OneGroupPerTap`, `OneGroupPerVisit`, `SettledListShowsAll`, `AskingPageOnTop`, `OwnFriendsInvited`, `CreatingClosesPage` |
| `picker` | 2 friends, 2 strangers, 4 texts, 4 edits; both pages, with and without failures | `ChecksMatch`, `RowsMatchBar`, `ImplementsSelection`, `TextIsAnswered` |
| `members` | 2 friends, 3 places (one without coordinates), 2 visits, 3 choices, 4 requests; both networks | `SettledService`, `PlaceArrives` |
| `find_road` | 2 positions, 2 search pages; 3 taps of the route buttons with a service that is kind or not, 2 taps with the marker in use | `OneRouteShown`, `DrawsNewestAnswer`, `MarkerIsFed`, `HiddenStaysQuiet`, `LeftPageEnds`, `MarkerFollows` |

The type invariants (`TypeOK`, `TabBarTypeOK`) are proved for every instance in
section 5, so the runs do not check them again.

Two of everything suffices for what the properties tell apart: a stale account,
place, group or page against the current one, an earlier answer against a later
one. Three launches let an account of one launch meet those of two others; two
tab bars let a place chosen in one process be sent in the next; two invitations
let one come while the other is asked; three pages of a text give a first, a
middle and a last; four edits let a text be left, overtaken by another, and come
back; three taps of a route button let an answer be overtaken twice; a text of
three characters where two are allowed is cut. `MaxVisits`, `MaxSaves`,
`MaxGroups`, `MaxSends`, `MaxEdits`, `MaxNet`, `MaxPage`, `MaxRows`, `MaxAbove`,
the number of `Slots` and the numbers in the regimes are bounds of the check
only. Where a cfg turns the deadlock check off, the system may really stop: the
app is killed for the last time, a picker or the sign-up page is closed, or the
user does nothing more.

Violation runs, each a place where the code departs from what the repository
says of it (the findings of `PROJECT.json` quote the lines):

| Run | Property | What happens |
|---|---|---|
| `login_auto` | `AutoLogin` | tokens are deleted before they are looked up: no launch logs in by itself |
| `form_untold` | `DuplicateIsTold` | the alert for a nickname that is taken never shows: the alert of a failed sign-up is presented first |
| `home_unheard` | `PushOpensPlans` | after a plan was saved, nobody listens to notifications |
| `members_unheard` | `LocationFollowsChoice` | a place chosen before the plus button was ever tapped goes nowhere |

The models also have, without a run of their own, what follows for certain or
from the conditions below: the tokens of the sign-up answer are dropped; a
refresh sends the printed form of an Optional; a page of results whose request
failed is skipped for good; a late page of an old text is appended to the rows of
the new one; a search that is left has replaced the coordinates of the chosen
place; a notification opens one page of plans per map ever opened; a covered plan
page sends another place than its label after a notification; an invitation
tapped before the login, or while another is asked, is lost; a tap on a group
followed by typing creates further groups; an empty title is accepted, only `" "`
is refused; the pop meant for the create page hits the friend picker; a space
refused in the nickname field is still sent; the first tap of a route button
draws nothing; a page of the way left with its marker shown never ends; after
one error the strangers page searches for nothing any more.

### Fairness

Liveness is checked under weak fairness of the service and of the handlers of
its answers (in `TabBar`, of each saving request and of each request to join),
in `FriendPicker` also of the debounce timer, the main queue and the layout, and
in `FindRoad` of the marker's timer. Alamofire ends every request, with an answer
or a timeout, and Rx runs the handler; the main run loop fires its timers; UIKit
lays out a table that was reloaded. The user owes nothing, not even to leave the
Kakao or Apple dialog (`Replied` excludes it). On a network that loses, a failure
is one of the ways to end.

### What the conditions mean

A patient user, one who leaves no search, one who does not type on after a tap,
an orderly or lossless network, a nickname without a space or a mark, no
notification: these are assumptions. The code enforces none of them: no button
is disabled while a request is in flight and, apart from `flatMapLatest` on the
strangers page, no request is cancelled, numbered or ignored. A property that
needs one of them says under which condition the code works; without it it fails,
and the violation runs and the notes of the hazards show how. The properties
without a condition hold in all regimes: `EntersOnlyMembers`,
`OwnFriendsInvited`, `ChecksMatch`, `RowsMatchBar`, `ImplementsSelection`,
`ListLostBySaving`, `JoinsAgreed`, `QuestionStands`, `FieldObeysLabel`,
`OneRouteShown`, `MarkerIsFed`, `HiddenStaysQuiet`, `LeftPageEnds`.

## 5. The proofs

Every theorem holds for all values of the constants that satisfy the module's
`...Constants`, which TLC evaluates in the runs. Each proof of an invariant has
one step per action; a lemma gives the type of each helper.

`PlaceSearchProofs` (for all texts, numbers of pages and bounds):

* `TypeCorrect`: `Spec => []TypeOK`, on either network.
* `ChainHolds`: the inductive invariant, on an orderly network. The requests in
  flight form a chain: each is either page 1 of some text or the page after its
  predecessor's, the first follows the request answered last, the last is what
  the bar and the page number say, and the rows are those up to the request
  answered last. `SettledTable` alone is not inductive: it says nothing while a
  request is in flight. `NetworkStays` says the network never changes.
* `TableSettles`: the chain with no link left is `SettledTable`.
* `ListingImplemented`: `ImplementsListing`; the chain tells which page an
  answer may bring, which is what `PagedListing` allows next.
* `BlockedAtEnd`: `BlockedOnlyAtEnd`, on any network, failures and overtaken
  answers included; it is inductive with `TypeOK`.

`LoginProofs` (for all accounts, slots and regimes, the impatient user and the
failing keychain included):

* `TypeCorrect`: `Spec => []TypeOK`. The sign-up request is built from two
  keychain items; that it is well typed needs `AccountItems`.
* `MembersOnly`: `Spec => []EntersOnlyMembers`. The strengthening, `Entitled`,
  says that an answer in flight that would open the tab bar is about a member:
  a SIGNIN answer's credential, a sign-up that worked, a token found valid or
  refreshed. `RequestFresh` and `FreshSlotEntitled` give it for a slot just
  filled.
* `TokensTogether`: `TokensPaired`, inductive with `TypeOK`; `SavedPaired` is about
  the two writes of a pair of tokens in a keychain that works.
* `PageOwnerSignedUp`, `SessionOfAccount` and `SessionImplemented` share one
  invariant, `PatientInv`, of the user who waits: one request at a time
  (`OneAtATime`), nothing shown or asked in a process that has ended (`Stopped`),
  sign-up pages and requests of the account in the keychain (`PagesOfAccount`,
  `RequestOfAccount`), no tab bar counted before one is shown (`BarsCounted`).
  `SignsUpPageOwner` speaks of sign-up requests only and `SessionMatchesAccount`
  of an open session only; neither says where their account comes from, which
  is what has to be carried along the flow.

`LoginConstants` says that the mark of a missing item is no item, and
`TokenConstants` that the service issues no empty token.

`FriendPickerProofs` (for all people, texts and what they find, both pages,
with failures):

* `TypeCorrect`: `Spec => []TypeOK`, where `TypeOK` says that nobody is chosen
  twice. `FirstIndex`, `RemovedAt`, `AppendedTo` are lemmas about the sequence
  of the chosen; `ToggledChoice` concludes that a tap changes the set of the
  chosen by exactly the person tapped and keeps the sequence injective.
* `ChecksHold`: `ChecksMatch`, which is inductive with `TypeOK`: whatever
  changes rows or choice also makes the table dirty.
* `BarFollowed`: the strengthening of `RowsMatchBar`. The one search that is
  heard is for the last text, and the last rows waiting on the main queue (or,
  if none wait, the rows shown) are those of that text; `RowsSettle` is the
  case in which nothing is open.
* `SelectionImplemented`: `ImplementsSelection`. A tap maps to a toggle by
  `ToggledChoice`; that nothing is handed over twice, and nothing chosen
  afterwards, is `HandedOnce`: an open page has handed over nothing.

`HomeTabProofs` (for all places, groups, slots and regimes):

* `TypeCorrect`, then `HomeInv`: where pages may stand in the stack
  (`StackOrder`: the list at the bottom only, a search only over a map) and that
  an answered request belongs to a visit with a saved plan (`RequestOrder`).
* `ListLost`: `ListBelow`, the list of groups is the bottom page until a plan is
  saved. `ListLostBySaving` asks only whether the list is anywhere in the stack,
  which a back step could undo.
* `PageIsSent`: `PagesAreCurrent`, as long as no notification has come: every
  page above the list is of the group in the keychain, and a plan page is the top
  page and shows the place in the keychain; the answer to an open alert is given
  over the page that asked.
* `OneDestination`: `SearchAbove`, while the items are of two places, every page
  from which a plan could be reached is below a search, which by the regime ends
  in a choice of a whole place.
* `OnePlan`: `Once` counts: a visit has one request or one plan, and a plan saved
  has its answer on the way or its page gone. That a kill counts right is
  `KilledOnce`, with cardinalities of the requests still served, which is why
  `HomeConstants` says `IsFiniteSet(Slots)`.

`HomeTabProofs`, its second part (about `TabBar`, for all invitations as well):

* `HomeTabImplemented`: `TabBarSpec => Spec`; hence `HomeTabSafe`: what is proved
  of the home tab alone holds inside the app.
* `TabBarTyped`, `AgreedOnly`: `InviteInv`, with `InvitesApart`: an invitation is
  in the tray, in the alert, or dealt with, never two of them.
* `QuestionsStand`: `QuestionStands`, action by action.
* `SessionKept`: `TabBarSpec => App!Spec`, from `PagesRun`: pages are there only
  in a running process, and without pages nothing is in flight, so that no answer
  of an earlier process opens a map.

`GroupCreateProofs` (for all titles, friends, bounds and regimes):

* `TypeCorrect` and `FriendsOfPage` from `PageInv`: the pages form one of three
  stacks; a request refers to a page that was opened, an invitation and an answered
  creation to a group of that page, and an invitation has only friends picked on it
  (`Sound`). `OwnFriendsInvited` speaks of groups alone, but what is invited
  next is in a request. `SoundStays` says that a step leaves the other requests
  sound, because groups, pages and picked friends only grow; `Remaining`, `SentOn`
  and `Served` say where each request of the sequence is after a step.
* `GroupPerTap`: `TapsSettled`, a page that was tapped holds no text back. For a
  user who types on this fails, and so does the property.
* `AskingOnTop`: `OneRequest`, a user who waits has one request besides loads of
  the list, that of the page on top.
* `GroupPerVisit`: `InvitationToCome`, where the page that is open has made its
  group, the invitation is on its way; so a service that creates a group finds
  none of that visit.
* `ListSettles`: `LastLoadShowsAll`, while the list is on top, the load asked for
  last brings all groups. It needs the answers in order but not the service: a
  group is created only below a page that, when it closes, loads the list again.

`MembersProofs` (for all friends, places and bounds):

* `TypeCorrect` from `PageInv`: only places with coordinates are in requests
  (`SendsLocated`), and a picker's coordinator has its output.
* `ServiceSettles`: `Coming`, on an orderly network: whom the service has invited
  and whom the requests in flight invite are together the friends handed over,
  and the place passed on last is the one in the last request with a place, or
  the service has it. `SettledService` is the case of no request.

`SignUpFormProofs` (for any alphabet and lengths):

* `TypeCorrect`, `LabelObeyed`: `FieldIsRelay`, field and relay differ only while
  the relay has a space.
* `ShownIsSent`, `FreeNameSignedUp`: `RequestInv`, with `FreeIsAsked`: a name
  found free is the one asked about unless it has a mark. `Asked` cuts at the
  first mark; `MinOfNaturals` gives that there is a first one.

`FindRoadProofs` (for any user, service and bounds):

* `TypeCorrect`, `OneRoute`, `MarkerFed`, `LeftEnds` from `RoadInv`, whose
  `TimerWithMarker` ties the timer to the marker; `StaysQuiet` action by action.
* `DrawsNewest`: `AnswersInv`: with a kind service the requests of a binding are
  answered oldest first (`OldestFirst`) and the relay of a kind holds the newest
  tap of it that is answered (`RelayIsNewest`).

Only model-checked: every liveness property (`SignInCompletes`,
`ShowsSearchedText`, `SavedPlanShowsMap`, `AgreedIsJoined`, `CreatingClosesPage`,
`TextIsAnswered`, `PlaceArrives`, `TapIsAnswered`, `MarkerFollows`), because
fairness and `ENABLED` are out of the prover's reach. Every other property of a
passing run is a theorem.

## 6. What is not modelled

* The layout of pages, cells, toasts; the map engine (camera, looks of pins and
  lines, the polygon of the map page and its timer); calls, my page, previous
  appointments, location change: no logic of their own, or logic inside a
  library. The road view of the way page, which nothing opens.
* The other tabs, each a stack of pages of its own, and with them the friends tab
  (the `FriendsList` that only shows friends); the profile image, whose picture
  reaches no request; the firebase device token.
* Plan name, date and friends, which are read at the tap and touch nothing else.
* Deleting a row of the list of groups: only the table hears of it, and UIKit
  ends the app in that step.
* Vendored code: `Pods/` holds the SDKs (Firebase, gRPC, BoringSSL, KakaoMaps,
  Rx, Alamofire), almost all of the repository's C, C++ and Objective-C lines.
  None of it is the app's own; what the app relies on (requests end, layers,
  timers, main queue, alerts) is modelled from its use and marked external.
* The service: it is external, and modelled as far as the app can tell (members,
  pages of results, plans saved, groups and their invitations, people found).
