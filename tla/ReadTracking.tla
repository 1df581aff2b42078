----------------------------- MODULE ReadTracking ------------------------------
(***************************************************************************)
(* The tracking gateway: a reader opens a news (JOIN_ROOM), the page       *)
(* reports what the reader does (the TRACKING messages), and SUBMIT asks   *)
(* for the verdict, which is written to the reader's row.                  *)
(*                                                                         *)
(* The server is one Node.js process.  A handler runs undisturbed up to    *)
(* its next await; between two awaits of one handler any other handler     *)
(* may run.  A handler in flight is a job, and one action of this module   *)
(* is one stretch between two awaits.  What a crash loses (the Map of      *)
(* readers, the handlers in flight, the rooms) and what it keeps (the      *)
(* table) are told apart.                                                  *)
(*                                                                         *)
(* Handlers know a news by its slug and look it up again in every call.    *)
(* Several news may have one slug, and each look-up may find another of    *)
(* them; a look-up without a slug may find any news (Prisma drops the      *)
(* filter).  In the cache of the look-ups there may also be a nonce of the *)
(* authentication (SigninMessage of NewsCache), a string, which joinRoom   *)
(* takes for a news.                                                       *)
(***************************************************************************)
EXTENDS NewsService

CONSTANTS
  Sockets,         \* connections of readers' pages
  Handlers,        \* places for handlers in flight: bounds their number
  JoinMsgs,        \* the JOIN_ROOM messages the pages may send
  ScrollValues,    \* values TRACKING_SCROLL may carry, in percent
  FlagValues,      \* values the other two TRACKING messages may carry
  Slugs,
  SlugOf,          \* [News -> Slugs], the slug of each news
  NonceKeys,       \* what may name a nonce in the cache at some time
  NoSlug,          \* undefined in place of a slug
  MinReadSeconds,  \* [News -> Nat], the rounded news.min_read * 60
  NaN,             \* the end of the time to read of a string
  MaxTime,         \* the clock stops here: bounds the time modelled
  NoReader         \* "no entry in the Map `reader`"

VARIABLES
  now,          \* dayjs().unix(), in seconds
  reader,       \* the Map `reader`: [Rooms -> ReaderType \cup {NoReader}]
  rooms,        \* the rooms each socket has joined
  job,          \* the handlers in flight
  firstTracked, \* history: when a user's token was first put in `reader`
                \* with each slug
  strayed,      \* history: claims whose verdict is that of an entry
                \* without a slug
  sharedIds,    \* history: transaction ids a LOG message gave for each claim
  reported      \* history: verdicts a RESULT message with data gave

memoryVars  == <<reader, rooms, job>>
historyVars == <<firstTracked, strayed, sharedIds, reported>>
vars == <<user_claim_news, now, memoryVars, historyVars>>

--------------------------------------------------------------------------------
(* Messages, rooms and jobs *)

AnySlug == Slugs \cup {NoSlug}

\* What findFirst may find for a slug.
Finds(slug) == {n \in News : slug = NoSlug \/ SlugOf[n] = slug}

\* roomId is `${slug}-${user_id}`.
Rooms == AnySlug \X Users

\* A JOIN_ROOM message.  reader_token stands for the user it decodes to.
JoinMsg == [slug: AnySlug, user_id: Users, reader_token: Users, is_scroll: BOOLEAN]

RoomId(m) == <<m.slug, m.user_id>>

(***************************************************************************)
(* An entry of the Map.  user_id and claim_status are left out: no code    *)
(* reads them.                                                             *)
(***************************************************************************)
ReaderType ==
  [slug: AnySlug, reader_token: Users, is_scroll: BOOLEAN,
   tracking_scroll: Nat, tracking_next_tab: BOOLEAN,
   tracking_unfocused: BOOLEAN, end_time_valid: Nat \cup {NaN}]

JoinSteps   == {"join_news", "join_find", "join_create"}
SubmitSteps == {"submit_find", "submit_update"}

\* claim: the row that the last look-up of the news led to.
JoinJob   == [step: {"join_news", "join_find"}, sock: Sockets, msg: JoinMsg]
CreateJob ==
  {j \in [step: {"join_create"}, sock: Sockets, msg: JoinMsg, claim: ClaimKeys] :
     j.claim[1] \in Finds(j.msg.slug)}
FindJob   == [step: {"submit_find"}, slug: AnySlug, user: Users, verdict: Verdicts]
UpdateJob == [step: {"submit_update"}, slug: AnySlug, claim: ClaimKeys, verdict: Verdicts]
Idle      == [step |-> "idle"]

JobType == JoinJob \cup CreateJob \cup FindJob \cup UpdateJob \cup {Idle}

Submitting(h) == job[h].step \in SubmitSteps

ASSUME TrackingAssumption ==
  /\ JoinMsgs \subseteq JoinMsg
  /\ ScrollValues \subseteq Nat
  /\ FlagValues \subseteq BOOLEAN
  /\ SlugOf \in [News -> Slugs]
  /\ NonceKeys \subseteq AnySlug
  /\ MinReadSeconds \in [News -> Nat]
  /\ MaxTime \in Nat
  /\ NoSlug \notin Slugs
  /\ NaN \notin Nat
  /\ NoReader \notin ReaderType

--------------------------------------------------------------------------------
Init ==
  /\ TableInit
  /\ now = 0
  /\ reader = [r \in Rooms |-> NoReader]
  /\ rooms = [s \in Sockets |-> {}]
  /\ job = [h \in Handlers |-> Idle]
  \* A time after the end of the modelled time: not tracked yet.
  /\ firstTracked = [t \in Slugs \X Users |-> MaxTime + 1]
  /\ strayed = {}
  /\ sharedIds = [k \in ClaimKeys |-> {}]
  /\ reported = [k \in ClaimKeys |-> {}]

Finish(h) == job' = [job EXCEPT ![h] = Idle]

AwaitNext(h, step) == job' = [job EXCEPT ![h].step = step]

--------------------------------------------------------------------------------
(* JOIN_ROOM *)

\* Mutant of JoinRoom: the socket enters the room before the row is there.
JoinRoomEarly(h, s, m) ==
  /\ job[h] = Idle
  /\ job' = [job EXCEPT ![h] = [step |-> "join_news", sock |-> s, msg |-> m]]
  /\ rooms' = [rooms EXCEPT ![s] = @ \cup {RoomId(m)}]
  /\ UNCHANGED <<user_claim_news, now, reader, historyVars>>

\* Up to the await of findNewsBySlug.  The ROOM message is already out.
JoinRoom(h, s, m) ==
  /\ job[h] = Idle
  /\ job' = [job EXCEPT ![h] = [step |-> "join_news", sock |-> s, msg |-> m]]
  /\ UNCHANGED <<user_claim_news, now, reader, rooms, historyVars>>

NewReader(m, slug, end) ==
  [slug |-> slug, reader_token |-> m.reader_token, is_scroll |-> m.is_scroll,
   tracking_scroll |-> 0, tracking_next_tab |-> FALSE,
   tracking_unfocused |-> FALSE, end_time_valid |-> end]

\* The entry of a found news: its slug, and the clock from now.
Track(m, n) ==
  LET t == <<SlugOf[n], m.reader_token>>
  IN /\ reader' = [reader EXCEPT ![RoomId(m)] =
                     NewReader(m, SlugOf[n], now + MinReadSeconds[n])]
     /\ firstTracked' = [firstTracked EXCEPT ![t] = IF now < @ THEN now ELSE @]

\* Mutant of JoinTrack: a reader with a claim is not tracked again.
JoinTrackOnce(h) ==
  /\ job[h].step = "join_news"
  /\ \E n \in Finds(job[h].msg.slug) :
       /\ ~Exists(<<n, job[h].msg.reader_token>>)
       /\ Track(job[h].msg, n)
  /\ AwaitNext(h, "join_find")
  /\ UNCHANGED <<user_claim_news, now, rooms, strayed, sharedIds, reported>>

(***************************************************************************)
(* The news is there: start the clock in memory, replacing any entry of    *)
(* the same room, and call createUserClaimNews with the slug of the        *)
(* message.  Its first await, the user of the token, is a read of what     *)
(* never changes here.                                                     *)
(***************************************************************************)
JoinTrack(h) ==
  /\ job[h].step = "join_news"
  /\ \E n \in Finds(job[h].msg.slug) : Track(job[h].msg, n)
  /\ AwaitNext(h, "join_find")
  /\ UNCHANGED <<user_claim_news, now, rooms, strayed, sharedIds, reported>>

(***************************************************************************)
(* The cache gave a nonce: slug and min_read of a string are undefined.    *)
(* createUserClaimNews looks the news up again, and rejects if it is given *)
(* the nonce too (JoinFail); the entry is in the Map by then.              *)
(***************************************************************************)
JoinTrackNonce(h) ==
  /\ job[h].step = "join_news"
  /\ LET m == job[h].msg
     IN /\ m.slug \in NonceKeys
        /\ reader' = [reader EXCEPT ![RoomId(m)] = NewReader(m, NoSlug, NaN)]
  /\ AwaitNext(h, "join_find")
  /\ UNCHANGED <<user_claim_news, now, rooms, historyVars>>

\* createUserClaimNews has returned the row: enter the room and LOG the row.
EnterRoom(h, k, id) ==
  /\ rooms' = [rooms EXCEPT ![job[h].sock] = @ \cup {RoomId(job[h].msg)}]
  /\ sharedIds' = [sharedIds EXCEPT ![k] = @ \cup {id}]
  /\ Finish(h)
  /\ UNCHANGED <<now, reader, firstTracked, strayed, reported>>

\* The row of the token's user for a news the second look-up may find.
FoundClaims(h) ==
  {<<n, job[h].msg.reader_token>> : n \in Finds(job[h].msg.slug)}

\* findUserClaimNewsById finds a row, whatever its status: return it.
JoinReturn(h) ==
  /\ job[h].step = "join_find"
  /\ \E k \in FoundClaims(h) :
       /\ Exists(k)
       /\ EnterRoom(h, k, user_claim_news[k].transaction_id)
  /\ UNCHANGED user_claim_news

\* It finds none: await the create.
JoinMissing(h) ==
  /\ job[h].step = "join_find"
  /\ \E k \in FoundClaims(h) :
       /\ ~Exists(k)
       /\ job' = [job EXCEPT ![h] =
            [step |-> "join_create", sock |-> @.sock, msg |-> @.msg, claim |-> k]]
  /\ UNCHANGED <<user_claim_news, now, reader, rooms, historyVars>>

JoinCreate(h) ==
  /\ job[h].step = "join_create"
  /\ \E id \in Nanoids :
       /\ InsertRow(job[h].claim, id)
       /\ EnterRoom(h, job[h].claim, id)

\* Mutant of JoinFail: a create that meets a row is awaited forever.
JoinFailBeforeCreate(h) ==
  /\ job[h].step \in {"join_news", "join_find"}
  /\ Finish(h)
  /\ UNCHANGED <<user_claim_news, now, reader, rooms, historyVars>>

(***************************************************************************)
(* Any await of JOIN_ROOM rejects: no such news, a cached "nothing there"  *)
(* or a nonce in place of the news to claim, a token that decodes to       *)
(* nobody, a database error, or a create that meets a row made meanwhile.  *)
(* The catch only emits LOG 'Error!'; an entry already in `reader` stays.  *)
(***************************************************************************)
JoinFail(h) ==
  /\ job[h].step \in JoinSteps
  /\ Finish(h)
  /\ UNCHANGED <<user_claim_news, now, reader, rooms, historyVars>>

\* The create is done in the database but its answer is lost.
JoinCreateLost(h) ==
  /\ job[h].step = "join_create"
  /\ \E id \in Nanoids : InsertRow(job[h].claim, id)
  /\ Finish(h)
  /\ UNCHANGED <<now, reader, rooms, historyVars>>

--------------------------------------------------------------------------------
(* TRACKING_SCROLL, TRACKING_NEXT_TAB, TRACKING_UNFOCUSED, UNSUBCRIBE *)

TrackingScroll(r, v) ==
  /\ reader[r] # NoReader
  /\ reader' = [reader EXCEPT ![r].tracking_scroll = v]
  /\ UNCHANGED <<user_claim_news, now, rooms, job, historyVars>>

TrackingNextTab(r, b) ==
  /\ reader[r] # NoReader
  /\ reader' = [reader EXCEPT ![r].tracking_next_tab = b]
  /\ UNCHANGED <<user_claim_news, now, rooms, job, historyVars>>

TrackingUnfocused(r, b) ==
  /\ reader[r] # NoReader
  /\ reader' = [reader EXCEPT ![r].tracking_unfocused = b]
  /\ UNCHANGED <<user_claim_news, now, rooms, job, historyVars>>

Unsubcribe(s, r) ==
  /\ rooms' = [rooms EXCEPT ![s] = @ \ {r}]
  /\ reader' = [reader EXCEPT ![r] = NoReader]
  /\ UNCHANGED <<user_claim_news, now, job, historyVars>>

--------------------------------------------------------------------------------
(* SUBMIT *)

\* No number is less than NaN.
TooEarly(e) == e.end_time_valid # NaN /\ now < e.end_time_valid

\* Mutant of Verdict: a failure only when everything is wrong at once.
VerdictAllWrong(e) ==
  IF /\ TooEarly(e)
     /\ e.tracking_unfocused
     /\ e.tracking_next_tab
     /\ e.is_scroll /\ e.tracking_scroll < 99
  THEN "failure" ELSE "success"

\* Mutant of Verdict: before the end of the time the claim_status is kept.
VerdictKeepsStatus(e) ==
  IF TooEarly(e) THEN "pending" ELSE "success"

Verdict(e) ==
  IF \/ TooEarly(e)
     \/ e.tracking_unfocused
     \/ e.tracking_next_tab
     \/ e.is_scroll /\ e.tracking_scroll < 99
  THEN "failure" ELSE "success"

(***************************************************************************)
(* Take the entry as it is now, decide, and call                           *)
(* updateStatusUserClaimNews.  Without an entry the handler returns and    *)
(* nothing is sent: that is no step.  The entry stays in the Map.          *)
(***************************************************************************)
Submit(h, r) ==
  /\ job[h] = Idle
  /\ LET e == reader[r]
     IN /\ e # NoReader
        /\ job' = [job EXCEPT ![h] =
             [step |-> "submit_find", slug |-> e.slug, user |-> e.reader_token,
              verdict |-> Verdict(e)]]
  /\ UNCHANGED <<user_claim_news, now, reader, rooms, historyVars>>

\* The rows that updateStatusUserClaimNews may ask for.
Candidates(h) == {<<n, job[h].user>> : n \in Finds(job[h].slug)}

AwaitUpdate(h, k) ==
  /\ job' = [job EXCEPT ![h] =
       [step |-> "submit_update", slug |-> @.slug, claim |-> k, verdict |-> @.verdict]]
  /\ UNCHANGED <<user_claim_news, now, reader, rooms, historyVars>>

\* Mutant of SubmitCheck: any row will do.
SubmitCheckAnyStatus(h) ==
  /\ job[h].step = "submit_find"
  /\ \E k \in Candidates(h) : Exists(k) /\ AwaitUpdate(h, k)

\* findUserClaimNewsById finds a pending row: await the update.
SubmitCheck(h) ==
  /\ job[h].step = "submit_find"
  /\ \E k \in Candidates(h) : StatusIs(k, "pending") /\ AwaitUpdate(h, k)

\* 'User Claim News not found!' or 'update status dont have turn!'.
SubmitRefused(h) ==
  /\ job[h].step = "submit_find"
  /\ \E k \in Candidates(h) : ~StatusIs(k, "pending")
  /\ Finish(h)
  /\ UNCHANGED <<user_claim_news, now, reader, rooms, historyVars>>

\* The update is carried out.
WriteStatus(h) ==
  LET k == job[h].claim
  IN /\ job[h].step = "submit_update"
     /\ UpdateStatus(k, job[h].verdict)
     /\ strayed' = IF job[h].slug = NoSlug THEN strayed \cup {k} ELSE strayed \ {k}
     /\ Finish(h)
     /\ UNCHANGED <<now, reader, rooms, firstTracked, sharedIds>>

\* The update is done and RESULT carries the row.
SubmitUpdate(h) ==
  /\ WriteStatus(h)
  /\ reported' = [reported EXCEPT ![job[h].claim] = @ \cup {job[h].verdict}]

\* An await of SUBMIT rejects: RESULT carries a message, not a row.
SubmitFail(h) ==
  /\ job[h].step \in SubmitSteps
  /\ Finish(h)
  /\ UNCHANGED <<user_claim_news, now, reader, rooms, historyVars>>

\* The update is done in the database but its answer is lost.
SubmitUpdateLost(h) ==
  /\ WriteStatus(h)
  /\ UNCHANGED reported

--------------------------------------------------------------------------------
(* The surroundings *)

Tick ==
  /\ now < MaxTime
  /\ now' = now + 1
  /\ UNCHANGED <<user_claim_news, memoryVars, historyVars>>

\* handleDisconnect only logs: socket.io empties the rooms, `reader` stays.
Disconnect(s) ==
  /\ rooms[s] # {}
  /\ rooms' = [rooms EXCEPT ![s] = {}]
  /\ UNCHANGED <<user_claim_news, now, reader, job, historyVars>>

\* The process dies and starts again (restart: always).
Restart ==
  /\ reader' = [r \in Rooms |-> NoReader]
  /\ rooms' = [s \in Sockets |-> {}]
  /\ job' = [h \in Handlers |-> Idle]
  /\ UNCHANGED <<user_claim_news, now, historyVars>>

--------------------------------------------------------------------------------
\* A handler in flight goes on when what it awaits resolves or rejects.
JoinResume(h) ==
  \/ JoinTrack(h)
  \/ JoinTrackNonce(h)
  \/ JoinReturn(h)
  \/ JoinMissing(h)
  \/ JoinCreate(h)
  \/ JoinCreateLost(h)
  \/ JoinFail(h)

SubmitResume(h) ==
  \/ SubmitCheck(h)
  \/ SubmitRefused(h)
  \/ SubmitUpdate(h)
  \/ SubmitUpdateLost(h)
  \/ SubmitFail(h)

Submits == \E h \in Handlers, r \in Rooms : Submit(h, r)

Leaves == \E s \in Sockets, r \in Rooms : Unsubcribe(s, r)

Serving ==
  \/ \E h \in Handlers, s \in Sockets, m \in JoinMsgs : JoinRoom(h, s, m)
  \/ \E r \in Rooms, v \in ScrollValues : TrackingScroll(r, v)
  \/ \E r \in Rooms, b \in FlagValues : TrackingNextTab(r, b)
  \/ \E r \in Rooms, b \in FlagValues : TrackingUnfocused(r, b)
  \/ \E h \in Handlers : JoinResume(h) \/ SubmitResume(h)
  \/ Tick
  \/ \E s \in Sockets : Disconnect(s)
  \/ Restart

Next == Serving \/ Submits \/ Leaves

Spec == Init /\ [][Next]_vars

--------------------------------------------------------------------------------
(* Properties *)

\* Every variable stays in its type.
TypeOK ==
  /\ TableTypeOK
  /\ now \in 0 .. MaxTime
  /\ reader \in [Rooms -> ReaderType \cup {NoReader}]
  /\ rooms \in [Sockets -> SUBSET Rooms]
  /\ job \in [Handlers -> JobType]
  /\ firstTracked \in [Slugs \X Users -> 0 .. MaxTime + 1]
  /\ strayed \subseteq ClaimKeys
  /\ sharedIds \in [ClaimKeys -> SUBSET Nanoids]
  /\ reported \in [ClaimKeys -> SUBSET Verdicts]

(***************************************************************************)
(* By the time `end` the user had a news with the slug open for as long as *)
(* it takes to read; of several with the slug, the shortest counts.        *)
(***************************************************************************)
TimeToRead(slug, user, end) ==
  \E n \in Finds(slug) : firstTracked[<<slug, user>>] + MinReadSeconds[n] <= end

(***************************************************************************)
(* A claim is a success only when its reader had the time to read: a news  *)
(* with its slug was opened at least min_read ago.  joinRoom computes the  *)
(* end of the time, submit compares with it, the row is written two awaits *)
(* later, and JOIN_ROOM, UNSUBCRIBE and restarts may come between.  The    *)
(* one exception are verdicts of entries that a cached nonce has left      *)
(* without a slug: these take no time, and decide a claim on any news.     *)
(***************************************************************************)
SuccessNotBeforeReadTime ==
  \A k \in ClaimKeys :
    StatusIs(k, "success") /\ k \notin strayed => TimeToRead(SlugOf[k[1]], k[2], now)

\* Its inductive form: the entries, and the verdicts on their way to the table.
EntryTimed(e) ==
  e.slug # NoSlug =>
    e.end_time_valid \in Nat /\ TimeToRead(e.slug, e.reader_token, e.end_time_valid)

FindTimed(j) ==
  j.slug # NoSlug /\ j.verdict = "success" => TimeToRead(j.slug, j.user, now)

UpdateTimed(j) ==
  j.slug # NoSlug =>
    /\ j.slug = SlugOf[j.claim[1]]
    /\ j.verdict = "success" => TimeToRead(j.slug, j.claim[2], now)

ReadTimeInv ==
  /\ \A r \in Rooms : reader[r] # NoReader => EntryTimed(reader[r])
  /\ \A h \in Handlers :
       /\ job[h].step = "submit_find" => FindTimed(job[h])
       /\ job[h].step = "submit_update" => UpdateTimed(job[h])
  /\ SuccessNotBeforeReadTime

(***************************************************************************)
(* Without nonces under the slugs there is no exception: every entry has   *)
(* the slug of a news, and so has every verdict.                           *)
(***************************************************************************)
NothingStrays ==
  NonceKeys = {} =>
    /\ strayed = {}
    /\ \A r \in Rooms : reader[r] # NoReader => reader[r].slug # NoSlug
    /\ \A h \in Handlers : Submitting(h) => job[h].slug # NoSlug

(***************************************************************************)
(* All LOG messages about a claim carry one transaction id, the one in its *)
(* row: createUserClaimNews may be called any number of times, also by two *)
(* handlers at once or again after a restart, and makes one row.           *)
(***************************************************************************)
TransactionIdAgreed ==
  \A k \in ClaimKeys : \A id \in sharedIds[k] :
    Exists(k) /\ user_claim_news[k].transaction_id = id

(***************************************************************************)
(* A socket is in a room only if some claim on a news with the room's slug *)
(* is stored: joinRoom enters the room after the await of                  *)
(* createUserClaimNews.                                                    *)
(***************************************************************************)
JoinedRoomHasRow ==
  \A s \in Sockets : \A r \in rooms[s] :
    \E n \in Finds(r[1]), u \in Users : Exists(<<n, u>>)

(***************************************************************************)
(* A row is never removed, its transaction id never changes (the contract  *)
(* and verifyTxHash find the claim by it), and a decided claim is never    *)
(* pending again, whatever the handlers, failures and restarts do.         *)
(***************************************************************************)
RowAdvances(k) ==
  Exists(k) =>
    /\ Exists(k)'
    /\ user_claim_news'[k].transaction_id = user_claim_news[k].transaction_id
    /\ Settled(k) => Settled(k)'

RowsOnlyAdvance == [][\A k \in ClaimKeys : RowAdvances(k)]_vars

Updating(k) == {h \in Handlers : job[h].step = "submit_update" /\ job[h].claim = k}

(***************************************************************************)
(* The check of the status in updateStatusUserClaimNews closes the door:   *)
(* once a claim is decided no further handler gets to its update, and when *)
(* those that were there have gone the status is final.                    *)
(***************************************************************************)
Frozen(k) ==
  Settled(k) =>
    /\ Updating(k)' \subseteq Updating(k)
    /\ Updating(k) = {} =>
         user_claim_news'[k].status = user_claim_news[k].status

FrozenVerdict == [][\A k \in ClaimKeys : Frozen(k)]_vars

\* The verdicts of the handlers that have passed the status check.
Late ==
  {<<job[h].claim, job[h].verdict>> : h \in {g \in Handlers : job[g].step = "submit_update"}}

Table == INSTANCE GatewayRows WITH late <- Late

(***************************************************************************)
(* The rows change only as GatewayRows says, whatever the pages, failures  *)
(* and restarts do: a verdict is written only after its SUBMIT saw the row *)
(* pending, be that long ago.  This is what claimToken and verifyTxHash    *)
(* live with.                                                              *)
(***************************************************************************)
ImplementsRows == Table!RowsSpec

(***************************************************************************)
(* What 'update status dont have turn!' says: only a pending claim gets a  *)
(* verdict.  The check and the update are two statements, so two SUBMITs   *)
(* can both pass the check, and the later one replaces the verdict that    *)
(* the first one reported.                                                 *)
(***************************************************************************)
SettledOnce ==
  [][\A k \in ClaimKeys :
       Settled(k) => user_claim_news'[k].status = user_claim_news[k].status]_vars

================================================================================
