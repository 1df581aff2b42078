# Verification of the read-to-earn backend

TLA+ models of the backend in `src/`, TLC configurations that check them, and
TLAPS proofs. Modules follow the code's own names; `PROJECT.json` says which
lines each definition stands for, and lists every run, theorem, finding and
hazard.

The backend is one NestJS process on Node.js with a PostgreSQL database behind
Prisma. JavaScript runs one handler at a time **up to its next `await`**; the
code uses no transaction and no lock. So the unit of every model here is the
stretch between two awaits: one action is one such stretch with everything it
changes, and between two actions of one handler any other handler may act.

## 1. Inventory

| Component | Source | State | Operations | Status |
|---|---|---|---|---|
| Tracking gateway | `modules/events/tracking.gateway.ts` | the module-level Map `reader` (process memory), socket.io rooms | JOIN_ROOM, TRACKING_SCROLL, TRACKING_NEXT_TAB, TRACKING_UNFOCUSED, UNSUBCRIBE, SUBMIT, PING_PONG (logs) | modelled |
| Claim rows | `modules/news/news.service.ts` 84-182 | table `user_claim_news` | find, list, count, createUserClaimNews, updateStatusUserClaimNews, updateTokenEarned | modelled |
| Claiming tokens | `modules/news/news.controller.ts` 168-231, `modules/onchain/onchain.service.ts` | none; the contract's nonces outside | claimToken (signs a permit), verifyTxHash (reads the last log of a transaction) | modelled, contract external |
| Wallet linking | `modules/user/*` | column `user.wallet_address` | linkAccountOnChain | modelled |
| News and cache | `news.controller.ts` 78-113, `news.service.ts` 20-82, `_serivces/base.service.ts`, `app.module.ts` 23 | table `news`, the one in-memory cache of the application | createNews, getNewsDetail, getNewsAll, uploadBanner | partly: the upload of a banner writes no state of the backend |
| Authentication | `modules/auth/*` | tables `user`, `user_token`; nonces of new wallets in the cache | signup, signin, login-with-google, signin-message, metmask/signin | modelled |
| Session guard | `modules/auth/guards/jwt-auth.guard.ts`, `jwt.strategy.ts` | none | canActivate, validate, validateUser | modelled |
| Role guard | `modules/auth/guards/role.guard.ts` | none | predicate on the role | not modelled: no state, and no code writes a role |
| Reading time | `_serivces/util.service.ts` | none | wordsReadTime | modelled |
| Pagination | `_serivces/pagination.service.ts` | none | createPaginator (formatPagination is unused) | modelled |
| nft.storage client | `modules/nft-storage/*` | none; files at the service | uploadBlogContent, storeMarkdownFile, getMarkdownFile | modelled, the service external |
| Other gateways | `modules/gateway/*` | none | only log | the disconnect that tells nobody is modelled |
| Bootstrap, configuration, filters, DTOs | `main.ts`, `app.module.ts`, `common/*` | none | wiring | not modelled |
| Example | `example/*` | - | illustration of a client | not modelled |

The tests of the repository only say that each class "should be defined", so
they give no claims to compare with; comments, messages of guards, decorators
and the schema do.

**How the parts interact.** A page sends JOIN_ROOM. The gateway reads the news
(through the cache), puts an entry with the end of the reading time into
`reader`, and asks the news service for the reader's claim row, which it makes
once. TRACKING messages set flags of the entry. SUBMIT turns entry and clock into a
verdict and asks the news service to write it, if the row is still pending. A
reader with a successful claim and a linked wallet asks for a signed permit,
whose nonce is the number of the reader's verified claims, takes it to the
contract together with the claim's transaction id, and shows the transaction to
`verify`, which stores what was earned. The id is no part of what is signed, and
`verify` takes the last log of any transaction for an event of the contract.
Every HTTP request but the public ones first passes `validateUser`, which
accepts only the one token stored for the user. A writer uploads a markdown
file to nft.storage, has the contract mint it, and sends cid and transaction to
createNews, which fetches the file back, counts its words and stores the news
with its reading time: the time JOIN_ROOM then gives the reader. Readers find
news page by page in managed-news.

**What is hard, and what makes each part correct.**

* *Gateway and rows.* Handlers interleave at up to four awaits; the status is
  checked in one statement and written by another; the Map dies with the
  process and the row does not; an entry may be replaced, removed or belong to
  another token than the room. Correct: no success before the reading time;
  one row and one transaction id per claim; a decided claim stays decided; what
  a page is told is what is stored; nothing leaves a claim that cannot be
  opened or decided any more.
* *Tokens.* The backend counts where the contract keeps a nonce. Correct: a
  permit only for a claim that was won and a wallet that its reader had linked,
  whatever is verified; and for readers who keep to the protocol, no permit that
  becomes valid later, and every success can be paid in the end.
* *News cache.* Nothing invalidates it, it also holds "nothing there", and
  authentication keeps nonces in it, without a time limit, under any key it is
  given. Correct: what is under a slug was stored with it, or put there as a
  nonce; "nothing there" comes to an end.
* *Sign-in.* Two to four statements without a transaction, each of which may
  fail or lose its answer, three ways in, and concurrent pages. Correct: no
  partial sign-up or sign-in locks an owner out; a token that was replaced is
  never accepted again.
* *Publishing.* Three services are awaited before one insert; an error of the
  file's fetch becomes `undefined`. Correct: the stored time is the file's, and every
  file can be published.
* *Pages.* Offsets into a table that grows, count and rows in two statements.
  Correct: what a reader misses or sees twice is bounded by what was created.

## 2. Modules

```
NewsService ─ GatewayRows ─┬─ ClaimToken
     │             ▲ implements
     └──── ReadTracking ─┬─ SerialTracking ──(implements)── ClaimLifecycle
                         └─ RetryingReader

ReadTime ── Publishing        NewsCache     Pagination     Sessions
```

`ReadTrackingProofs`, `SerialTrackingProofs`, `ClaimTokenProofs`,
`NewsCacheProofs`, `SessionsProofs`, `PublishingProofs` and `PaginationProofs`
each extend the module they are named after and hold its theorems (section 5);
`NewsServiceProofs` holds the lemmas about the table that the first three share.

`MC*` modules only give constants values. Operators whose comment begins
*Mutant of* are deliberate bugs: plausible wrong versions of the definition
that follows, each of which breaks one property; no specification uses them.

### NewsService
`user_claim_news` as a function from (news, user), the table's primary key, to a
row or `NoRow`; `InsertRow`, `UpdateStatus` and `UpdateTokenEarned` are
Prisma's `create` (rejects on a taken key) and the two `update`s (by key and by
`transaction_id`). `Nanoids` stands for transaction ids.

### GatewayRows
What the HTTP handlers may expect of the gateway: rows are opened, verdicts
pass the status check (`late`), are written, perhaps after the row was decided
by another one, or given up. ReadTracking implements it (`ImplementsRows`,
with `late` the verdicts of handlers about to update), checked in `race` and
proved; ClaimToken is built on it. So the two meet in one abstract
specification and never have to be checked as one product.

### ReadTracking
State: `reader` (the Map), `rooms`, `job` (handlers in flight with what they
captured before their await), `now`, the table; and four history variables
(`firstTracked`, `strayed`, `sharedIds`, `reported`) that no action reads.

| Action | Code |
|---|---|
| `JoinRoom` / `JoinTrack` | JOIN_ROOM to `await findNewsBySlug` / from there: `reader.set` and the call of createUserClaimNews |
| `JoinTrackNonce` | the same when the look-up gives a nonce instead of a news: the entry has no slug and NaN for its end |
| `JoinReturn`, `JoinMissing`, `JoinCreate` | createUserClaimNews: row found / not found, then `create`; then `client.join` and LOG |
| `JoinFail`, `JoinCreateLost` | an await rejects; `create` done, answer lost |
| `TrackingScroll/NextTab/Unfocused`, `Unsubcribe` | the synchronous handlers |
| `Submit` | SUBMIT to the first await: entry and clock give the verdict |
| `SubmitCheck`, `SubmitRefused`, `SubmitUpdate`, `SubmitFail`, `SubmitUpdateLost` | the status check, its two errors, the update, failures |
| `Disconnect`, `Restart`, `Tick` | handleDisconnect only logs; `restart: always`; the clock |

A news is looked up by slug three times: in joinRoom, in createUserClaimNews and
in updateStatusUserClaimNews. Several news may have one slug and each look-up
may give another (`Finds`); a look-up without a slug may give any, as Prisma
drops the filter. What the cache does between look-ups is in NewsCache; here a
look-up gives any of these, or a nonce if the slug is one of `NonceKeys`, or the
handler fails (`JoinFail` also covers a cached "nothing there" and, in
createUserClaimNews, a nonce). A nonce leaves an entry for which `now < NaN` is
false: its SUBMIT is a success without a reading time, on any news.
`SuccessNotBeforeReadTime` therefore excepts the verdicts of entries without a
slug, which `strayed` records; `NothingStrays`, proved, says that without nonces
under slugs there are none.

Abstractions: `reader_token` is the user it decodes to; room owner
and token may differ, as in the code. `user_id` and `claim_status` of an entry
are left out because no code reads them. The reading time is a constant per
news in whole seconds. A statement that the database carries out after the
process that sent it has died is not modelled; one whose answer is lost is.

### SerialTracking, ClaimLifecycle
`ClaimLifecycle` is what the whole gateway promises about a claim: opened once,
one id, decided once, nobody told anything else. `SerialTracking` is
ReadTracking under one assumption about the pages (never two SUBMITs of one
claim in flight). The code does not enforce it and needs it: without it the run
`settled_once` finds a lost verdict. It is asked only at SUBMIT; that no other
step breaks it is proved (`SerialKept`). With it the gateway implements
ClaimLifecycle.

### RetryingReader
ReadTracking with fairness (section 4).

### ClaimToken
link-account, claimToken and verify split at their awaits; `signed` collects
answers in readers' hands, `nonce` and `receipts` are the contract. What is
signed (`Permit`) is a wallet, a token and a nonce; the transaction id is in the
`Answer` beside it. The contract is not in the repository. Assumed of it: it
accepts a permit with the wallet's next nonce, counts up, and emits ClaimToken
with whatever transaction id came with the permit (`Transfer`). Whether it pays
one id twice is a constant, `RepeatPays`: TRUE in the runs, which allows both,
and any in the proofs. `VerifyTxHash` takes any claim's id with any value: the
code looks at neither address, status nor event of the log, nor at who asks. Two
users may link one wallet.

So of `Spec` only what does not rest on payments is stated: `SignedOnlyIfWon`,
and the finding about linking. The rest is stated of `HonestSpec`, readers who
keep to the protocol: a permit goes to the contract with the id it was answered
with, only events of the contract are verified, and no user has two link
requests, no claim two SUBMITs, at once. Nothing in the backend enforces any of
this. The look-ups of a news by id are merged with
the await after them: news are never removed. Claims are opened and
decided as GatewayRows says, late verdicts included. A late verdict can turn a
paid claim into a failure, after which countUserClaimNews is behind the
contract for good: without `SerialSubmits`, which is part of `HonestSpec`,
`EarnedIsSuccess` and `SuccessIsEarned` fail. `SuccessIsEarned` also excepts the
two ways a count falls behind the nonce even then (`NonceLost`): the wallet is
shared with another user, or the contract has paid one id twice, which the TODO
of claimToken leaves open.

### NewsCache
The table of news, the cache entry of each slug, and look-ups split into
database read and cache write, as `wrap` of cache-manager 5.2.0 (the version in
`yarn.lock`) does without joining concurrent calls. `null` is a cached value.
Time is abstract: an entry of `wrap` may expire any time and does so in the end.
The cache is the application's one, so `SigninMessage`, the nonce of
signin-message with a slug in place of an address, is its second writer; a nonce
has ttl 0 and never expires. Any entry may go when the store is full (`Evict`).

### Sessions
Users, their stored token, the nonces of new wallets in the cache, and pages. A
page is in one request at a time, holds a signed message, or holds a token.
Each statement of each handler is an action; `InsertRefused` is a unique column
that is taken; `RequestFail`, `StatementLost`, `Evict` and `Restart` are the
failures. A login's own secrets are taken as right; a wrong one only rejects.
`Request` and `Guard` are any request to a route that is not public: `Request`
sends the page's token, `Guard` is JwtAuthGuard with JwtStrategy.validate and
validateUser, whose first find (the user, never removed) is merged with the
second (the token). A request that fails is sent again. What RolesGuard and the
handler answer does not touch the session and is left out. `Evict` also stands
for a look-up of news under a wallet address, which shares the cache's keys.

### ReadTime, Publishing
`ReadTime` is wordsReadTime on texts over the three kinds of character its
patterns tell apart, and `Number((min_read * 60).toFixed())` in whole numbers.
Removing and matching are recursions over the places of the text; the count is
compared with a set of word starts defined without recursion or removal. `min_read` is a quotient in the code; here the number of
words stands for it. `Publishing` is the way of a file into a row: upload,
`check`, `get`, the receipt, the insert, each with its failure; a cid, the hash
of a file, is the file. The insert is one statement and `cid` is unique.

### Pagination
One reader who starts at some page and follows `next`, and writers. `Count` and
`FindMany` run in either order, as under `Promise.all`. `FindMany` takes any
order that sorts `created_at` downwards. `created_at` may be an instant older
than the insert. `shown`, `before` and `between` are history.

## 3. Runs

| Run | Bounds | Shows |
|---|---|---|
| `race` | 1 news, 2 users, 2 handlers, 2 ids, 1 tick; one room opened with both users' tokens | TypeOK, TransactionIdAgreed, JoinedRoomHasRow, SuccessNotBeforeReadTime, RowsOnlyAdvance, FrozenVerdict, ImplementsRows |
| `serial` | 1 user, 2 news under one slug of 1 and 2 seconds, nonces under it, 2 handlers, 2 ids, 1 tick; serial SUBMITs | UpdateMeetsPending, ReportedVerdictStands, SuccessNotBeforeReadTime, ImplementsLifecycle |
| `retrying` | 1 token, 1 news, no nonces, 2 handlers | HandlersFinish, EventuallySettled |
| `settled_once` | 2 handlers | finding: SettledOnce fails |
| `signed` | 2 readers, 1 wallet for either, 1 news, 2 requests, 2 ids, 1 transfer, logs with value 0 or 1 | TypeOK, SignedOnlyIfWon |
| `permits` | 1 reader who keeps to the protocol, 2 news, 1 wallet, 1 request, 2 transfers, contract may pay twice | PermitNotAhead, EarnedIsSuccess, SuccessIsEarned |
| `linked_once` | 2 wallets, 2 requests | finding: LinkedOnce fails |
| `visible` | 3 news, 2 of them under the slug that also has nonces, 2 slugs, 2 look-ups | EntryIsStored, NotFoundEnds |
| `not_found` | 1 slug shared by 2 news, no nonces | finding: NotFoundIsTrue fails |
| `sessions` | 1 email (Google and password), 1 address, 2 pages, 5 tokens, 7 nonces | TypeOK, NeverLockedOut, ReplacedTokenRefused |
| `pagination` | 3 news, 3 instants, 1 or 2 per page, walks from no page and page -1 | MissedByCountOnly, RepeatsByCreationOnly, WalkEnds |
| `publishing` | 3 files: empty, ideographs only, words parted both ways; 2 requests; texts to 5 characters | ReadTimeOfFile, PublishedInTheEnd |

Why these bounds are enough. Every statement touches one claim, so a race needs
two handlers on one claim; the second user is there because a room may be
opened with another user's token. Two news under one slug are the fewest whose
look-ups can disagree, and a verdict without a slug can then hit either. Two ids let a
second row be told from the first. Time is compared once, with one sum: two
instants have a join before, a join at, and a SUBMIT at the end of the reading
time. Two claims are the fewest that can ask for permits with one nonce. Two readers
are the fewest that can share a wallet, or have an id of one verified for the
other; with two wallets as well `signed` has too many states, and that a wallet
is replaced while a permit is on its way is left to the theorem. In `permits`
nobody shares a wallet: that `PermitNotAhead` holds of shared ones too is proved
only. Two
pages are the fewest that can meet between two statements of a sign-in, or
replace each other's token; five tokens and seven nonces are one more than two
pages, two logins and one address can have in use at once
(`SupplyAssumption`), so a new one can always be given. Three news make up to
three pages, two of them before a creation and one after. Five characters hold two words and each way of
parting or joining them (`MaxText`). `MaxTime`, `MaxNonce` and `MaxShown` stop
the clock, the contract and the count of showings; no property speaks of what
is beyond them. Where a property is proved, the bound does not matter.
Symmetry is used in safety runs only. Deadlock is checked in every run.

### Findings
* **Second verdict** (`settled_once`). Two SUBMITs both see `pending`, both
  update, both report: the stored verdict is the later one
  (`news.service.ts:158`).
* **Second wallet** (`linked_once`). The check is on the user the guard read;
  the update comes an await later and does not ask again
  (`user.controller.ts:24`).
* **'News not found!' of a stored news** (`not_found`). "Nothing there" is
  cached for five minutes and createNews does not remove it
  (`news.controller.ts:103`, `base.service.ts:22`).

## 4. Fairness

*Handlers* (`HandlerFairness`, `RequestFairness`, `WF(Handle)`,
`WF(LookupStep)`): an await resolves or rejects in the end, and the event loop
then runs the continuation. Which of the two, and whether a restart comes
first, stays open.
*Surroundings*, assumed and not given by the code: a page that may try again
and again does so (strong fairness of opening, submitting, signing in, asking
for permits, verifying); a reader stops leaving the news in the end
(`StaysInTheEnd`); a statement tried again and again is carried out in the end
(`retrying`, `permits`) or there is a last failure (`sessions`, `pagination`,
`publishing`). `permits` is of readers who keep to the protocol (`HonestSpec`).
In `retrying` no nonces are under the slug: two handlers could keep replacing a
good entry by one without a slug, and the reader's own claim would never be
submitted. In `sessions` a page that holds a
token uses it, and a wallet signs in on one page at a time: two pages of a
*new* wallet that alternate can refuse each other forever, each message
replacing the other's nonce. In `publishing` a transaction is mined in the end
and a writer repeats createNews.
"There is a last failure" is written `<>[][Working]_vars`: from some time on
every step is one of `Working`, the disjuncts of Next that are no failures. (It
is not `<>[][~Failure]_vars`: an ordinary step may change the state just as a
failure would, a refused insert for instance, and must stay allowed.)
*Cache*: the five minutes of an entry of `wrap` end (`WF(Expire)`), since hits
do not renew it. Nothing makes a nonce go, nor the store need a place: `Evict`
is not fair, and what `NotFoundEnds` promises after "nothing there" may be a
nonce.

## 5. Proofs

Every invariant and every safety property of the passing runs is also a theorem,
for all constants that satisfy the assumptions of the modules:

* `NoRowAssumption`, `SessionsAssumption`, `NewsCacheAssumption`,
  `PaginationAssumption`, `TrackingAssumption`, `ClaimTokenAssumption`: types,
  and sentinels that are no values. Reading times, scroll values and log
  values are naturals; `ClaimTokenAssumption` says nothing of who owns a wallet,
  and the slug under which a nonce may be is any or none; a page may be any integer, a page size any natural, or
  either may be absent.
* `FiniteNewsAssumption`: a count of a reader's claims is a number.
* `SupplyAssumption`: logins and pages are finitely many, and there are more
  tokens and nonces than can be in use at once. In the code a token carries the
  second it was made in, a nonce is random.
* `PublishingAssumption`, `ReadTimeAssumption`: a file is a text, the reading
  speed is not zero.

| Theorem | Statement |
|---|---|
| **ReadTrackingProofs** | |
| `TypeCorrect` | Spec => []TypeOK |
| `RowsAdvance` | Spec => RowsOnlyAdvance |
| `IdsAgree`, `RoomsHaveRows` | Spec => []TransactionIdAgreed, []JoinedRoomHasRow |
| `VerdictFreezes` | Spec => FrozenVerdict |
| `SuccessTakesReadTime` | Spec => []SuccessNotBeforeReadTime |
| `NoNonceNoStray` | Spec => [](NothingStrays /\ SuccessNotBeforeReadTime) |
| `GatewayImplementsRows` | Spec => ImplementsRows |
| **SerialTrackingProofs** | |
| `UpdatesMeetPending`, `ReportedStands` | SerialSpec => []UpdateMeetsPending, []ReportedVerdictStands |
| `GatewayImplementsLifecycle` | SerialSpec => ImplementsLifecycle |
| **ClaimTokenProofs** | |
| `TypeCorrect` | Spec => []TypeOK |
| `SignsOnlyIfWon` | Spec => []SignedOnlyIfWon |
| `SerialLinksLinkOnce` | HonestSpec => LinkedOnce |
| `EarnedStaysSuccess`, `PermitsNotAhead` | HonestSpec => []EarnedIsSuccess, []PermitNotAhead |
| **NewsCacheProofs** | |
| `CacheHoldsStored`, `AnswersAreStored` | Spec => []EntryIsStored, []AnswerIsStored |
| **SessionsProofs** | |
| `TypeCorrect` | Spec => []TypeOK |
| `ReplacedIsRefused` | Spec => ReplacedTokenRefused |
| **PublishingProofs** | |
| `WordCountIsStarts` | text \in Seq(Kinds) => wordCount(text) = Cardinality(WordStarts(text)) |
| `SecondsAreNearest` | words \in Nat => Seconds(words) is a natural and IsNearest |
| `ReadTimeIsOfFile` | Spec => []ReadTimeOfFile |
| **PaginationProofs** | |
| `MissedByCount`, `RepeatsByCreation` | Spec => []MissedByCountOnly, []RepeatsByCreationOnly |

### Gateway
* `RowStep`: whatever the action, the table changes by one insert into an empty
  key or one status update of a row (`TableChange`). So rows stay, ids stay, and
  `TransactionIdAgreed /\ JoinedRoomHasRow` is inductive together with TypeOK:
  ids are logged, and rooms entered, only in the step that read or made the row.
* `SuccessNotBeforeReadTime` is not inductive: the verdict travels from the
  entry through a handler to the row. `ReadTimeInv` says it of all three places:
  the end of an entry that has a slug is not before `firstTracked` plus the
  reading time of a news with it; a success in flight was decided after it; a
  success in the table too, or it strayed. The clock never goes back, and
  `firstTracked` only falls. `NothingStrays` is inductive by itself: an entry
  without a slug comes from a nonce.
* A handler between look-up and create remembers a news that its slug could give
  (`CreateJob`); `JoinedRoomHasRow` needs this of the row it then makes.
* `FrozenVerdict` follows from how a job can reach `submit_update` (`JobChange`):
  only through the status check.
* `SerialInv` adds to TypeOK that SUBMITs are serial, that a handler about to
  update meets a pending row, and that reported verdicts are the stored ones.
  The second needs the first: only another SUBMIT of the same claim could have
  decided it. The refinement is then one step per action: an insert is `Open`,
  an update is `Settle` with or without its announcement, the rest stutters.
* `GatewayImplementsRows` maps the set of jobs at `submit_update` to `late`.
  Several jobs may carry the same claim and verdict, so the set may keep a pair
  whose job has ended (`LateKept`); only `SubmitCheck` can add one
  (`LateShrinks`), and it has just seen the row pending (`RowsStep`).

### Tokens
* `SignedOnlyIfWon` is about the end of a path: request, count, answer.
  `SignedInv` says of a request that has found its claim, and of an answer, that
  they name a claim that was won, the row's id, and a wallet the reader had
  linked (`Names`); none of this can be undone (`NamesKept`), since it says
  *was*, not *is*, and rows keep their ids. Transfers and verifications touch
  nothing of it: a verified log changes only `token_earned` (`VerifyRowStep`).
* The rest is under `HonestSpec`, whose steps are steps of Spec (`HonestStep`),
  so `SignedInv` stands. `HonestInv` adds what its assumptions give: an event of
  the contract names a claim that was won (`ReceiptsWon`), and tokens in a row
  come from such an event (`EarnedIsPaid`). Of Spec neither is true.
* `LinkedOnce` fails under Spec (the run `linked_once`). With one link request
  per user at a time, `LinkOpen` carries the check of linkAccountOnChain over
  its await: who is about to store a wallet has none. So the wallet in every
  answer and event is the one the reader has now (`OneWallet`).
* `EarnedIsSuccess` is strengthened by `LateFits`: a verdict still to be written
  meets a pending claim, or the verdict it has already. This is where
  `SerialSubmits` is needed: with two verdicts in flight, the second meets what
  the first has written. So what was won stays a success (`WonIsSuccess`).
* `PermitNotAhead` compares a count of rows with a counter of the contract.
  `PaidIsCounted` puts the events between them: the claims of a reader that
  are verified are among those the contract paid to his wallet (`CountPaid`,
  which needs `OneWallet`), and these are at most the wallet's nonce: fewer, if
  the wallet was paid twice for one, or another user shares it.

### News cache
`CacheInv`: what a call has read is a stored news with the slug it asked for, and
stays so until it is written into the cache, as news are never removed. What is
found in the cache is that or, under one of `NonceKeys` only, a nonce.

### Sessions
* `SessionInv` has TypeOK, and for each page what its handler found before its
  last await and relies on after it (`Fits`): the user is there, a login of a
  wallet takes the steps of a wallet. Without it the token's insert could be for
  a user that does not exist, and the rotation for a user without a nonce.
* `ReplacedTokenRefused` rests on `TokensInv`: no two pages have one token
  (`TokensApart`), and a token that was not the stored one when its request was
  sent does not become it while the request is under way (`StaleStays`): what is
  stored later was made for another page. That a new token is in no row and no
  page is a count (`NewTokenIsNew`): rows and pages are fewer than tokens.

### Reading time and publishing
* `WordCountIsStarts` is induction over data. The library's induction theorems
  take a predicate as parameter, which the provers cannot instantiate, so the
  induction is stated of a *set* of numbers: one that has 0 and with n also n + 1
  is Nat (`SetInduction`, from `NatLessThanWellFounded` and `WFMin`).
  `Iterates` proves with it that a recursion over the places of a text has a
  solution; `KeptUnfolds` and `MatchesUnfolds` unfold the two recursions of
  ReadTime. One induction then says that matching counts the places where a
  word begins in what is kept (`CountIsBegins`), a second that these are as
  many as the word starts of the text up to there; a kept character is the only
  one that can add one to either. So CountsWordStarts, which TLC evaluates on
  texts of up to five characters, is true of all.
* `SecondsAreNearest` is arithmetic. Both are needed in `ReadTimeIsOfFile`,
  whose invariant (`PublishingInv`) adds that a request that has the content of
  a file has that of the file of its cid: none is inserted after a failed fetch.

### Pagination
The properties count news over a walk in which every creation moves all rows.
The proof follows the *place* of a news, the number of listed news not older
than it. For a news that shares its instant with no other (`Untied`), its place
is its row number, whatever order the ties come in (`ListingPlace`), no two have
one place (`PlacesDiffer`), and a creation moves it by one or not at all
(`PlacesGrow`).

* `ToCome`: what the reader has not seen lies past the rows he has had. A
  creation only moves it further.
* `LastCount`: on a page after which no page is asked for, the count told that
  there are no more rows; so what is left unseen was created into the listing
  since the count, or pushed past the last row by such a creation
  (`CountPast`).
* `OwedToCreations`: repeated showings, together with the seen news that lie
  past the rows already had and so will come again, are a *debt* that is at most
  the number of creations. A creation moves at most one seen news past the border
  (`DebtGrows`, by `PlacesDiffer`); a page turns news still to come again into
  news that have (`DebtPaid`), which leaves the sum.

### Only model-checked
Liveness: HandlersFinish, EventuallySettled, SuccessIsEarned, NotFoundEnds,
NeverLockedOut, WalkEnds, PublishedInTheEnd. Fairness and ENABLED are out of the
prover's reach.

## 6. Not modelled
JWT expiry dates and signatures, bcrypt and Google (their outcome is an input);
two tokens of one user signed in the same second, which are equal and so one
session; the contract beyond what section 2 says; letter case of wallet
addresses (each spelling is a login of its own, as in the code); growth of the
Map `reader`; roles and RolesGuard; the upload of banners; getListUserClaimNews
and `content/:cid`, which only read; formatPagination, humanizeTime and
editFileName, which nothing calls; a page or perPage that is no whole number,
and a perPage below zero; markdown that axios takes for JSON; bootstrap,
CORS, Swagger, DTO validation, exception filters; the example. `hazards` in
`PROJECT.json` names each hazard no property covers and says why.

## 7. Plan

Done: the gateway with both its abstract specifications; tokens; cache; sign-in
and session guard; reading time and publishing; pagination; and a theorem for
every safety property of the passing runs.

Next, in this order:
1. A refinement between ReadTracking and NewsCache: that every answer of the
   cache is one of the look-ups ReadTracking allows (`Finds`, `NonceKeys`, a
   failure), which is so far only said here.
2. What the findings leave standing, as theorems without the serial
   assumptions: that a successful claim that turns into a failure was met by a
   second SUBMIT, and that a wallet is only replaced by a second link request
   that passed the check.
3. The safety part of the liveness properties: that a handler in flight always
   has an enabled step, as an invariant that does not use ENABLED.
