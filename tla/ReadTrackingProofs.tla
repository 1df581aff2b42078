-------------------------- MODULE ReadTrackingProofs ---------------------------
(***************************************************************************)
(* Proofs about the tracking gateway, for any users, news, sockets,        *)
(* handlers in flight, reading times and lengths of time.                  *)
(***************************************************************************)
EXTENDS ReadTracking, NewsServiceProofs

--------------------------------------------------------------------------------
(* Types *)

\* The facts of NewsServiceProofs, under the gateway's type invariant.
LEMMA RowType ==
  ASSUME TypeOK, NEW k \in ClaimKeys
  PROVE  /\ Exists(k) <=> user_claim_news[k] \in Row
         /\ user_claim_news[k] \in Row \cup {NoRow}
  BY TableRowType DEF TypeOK

LEMMA UpdateType ==
  ASSUME TypeOK, NEW k \in ClaimKeys, NEW v \in Verdicts, UpdateStatus(k, v)
  PROVE  /\ TableTypeOK'
         /\ Exists(k)
         /\ user_claim_news'[k] = [user_claim_news[k] EXCEPT !.status = v]
         /\ \A j \in ClaimKeys : j # k => user_claim_news'[j] = user_claim_news[j]
  BY TableUpdateType DEF TypeOK

LEMMA InsertType ==
  ASSUME TypeOK, NEW k \in ClaimKeys, NEW id \in Nanoids, InsertRow(k, id)
  PROVE  /\ TableTypeOK'
         /\ ~Exists(k)
         /\ user_claim_news'[k] =
              [transaction_id |-> id, status |-> "pending", token_earned |-> 0]
         /\ user_claim_news'[k] \in Row
         /\ \A j \in ClaimKeys : j # k => user_claim_news'[j] = user_claim_news[j]
  BY TableInsertType DEF TypeOK

\* A news found for a slug has that slug, if there is one.
LEMMA FoundNews ==
  ASSUME NEW slug \in AnySlug, NEW n \in Finds(slug)
  PROVE  /\ n \in News /\ SlugOf[n] \in Slugs /\ MinReadSeconds[n] \in Nat
         /\ SlugOf[n] # NoSlug
         /\ slug # NoSlug => SlugOf[n] = slug
  BY TrackingAssumption DEF Finds

LEMMA MessageType ==
  ASSUME NEW m \in JoinMsg
  PROVE  /\ m.slug \in AnySlug /\ m.reader_token \in Users /\ m.user_id \in Users
         /\ m.is_scroll \in BOOLEAN
         /\ RoomId(m) \in Rooms /\ RoomId(m)[1] = m.slug
  BY DEF JoinMsg, RoomId, Rooms

(***************************************************************************)
(* A job whose step is known is of the kind that has this step.            *)
(***************************************************************************)
LEMMA JobKind ==
  ASSUME TypeOK, NEW h \in Handlers
  PROVE  /\ job[h].step \in {"join_news", "join_find"} => job[h] \in JoinJob
         /\ job[h].step = "join_create" => job[h] \in CreateJob
         /\ job[h].step = "submit_find" => job[h] \in FindJob
         /\ job[h].step = "submit_update" => job[h] \in UpdateJob
<1>1. job[h] \in JoinJob \cup CreateJob \cup FindJob \cup UpdateJob \cup {Idle}
  BY DEF TypeOK, JobType
<1>2. ASSUME job[h] \in JoinJob PROVE job[h].step \in {"join_news", "join_find"}
  BY <1>2 DEF JoinJob
<1>3. ASSUME job[h] \in CreateJob PROVE job[h].step = "join_create"
  BY <1>3 DEF CreateJob
<1>4. ASSUME job[h] \in FindJob PROVE job[h].step = "submit_find"
  BY <1>4 DEF FindJob
<1>5. ASSUME job[h] \in UpdateJob PROVE job[h].step = "submit_update"
  BY <1>5 DEF UpdateJob
<1>6. ASSUME job[h] = Idle PROVE job[h].step = "idle"
  BY <1>6 DEF Idle
<1> QED
  BY <1>1, <1>2, <1>3, <1>4, <1>5, <1>6

\* What a handler at a given step has in hand.
LEMMA JobFields ==
  ASSUME TypeOK, NEW h \in Handlers
  PROVE  /\ job[h].step \in JoinSteps => job[h].msg \in JoinMsg /\ job[h].sock \in Sockets
         /\ job[h].step = "join_create" =>
              job[h].claim \in ClaimKeys /\ job[h].claim[1] \in Finds(job[h].msg.slug)
         /\ job[h].step \in SubmitSteps => job[h].slug \in AnySlug /\ job[h].verdict \in Verdicts
         /\ job[h].step = "submit_find" => job[h].user \in Users
         /\ job[h].step = "submit_update" =>
              job[h].claim \in ClaimKeys /\ job[h].verdict \in Verdicts
<1>1. job[h].step \in JoinSteps =>
        job[h].step \in {"join_news", "join_find"} \/ job[h].step = "join_create"
  BY DEF JoinSteps
<1>2. job[h].step \in SubmitSteps => job[h].step = "submit_find" \/ job[h].step = "submit_update"
  BY DEF SubmitSteps
<1>3. job[h] \in JoinJob => job[h].msg \in JoinMsg /\ job[h].sock \in Sockets
  BY DEF JoinJob
<1>4. job[h] \in CreateJob =>
        /\ job[h].msg \in JoinMsg /\ job[h].sock \in Sockets
        /\ job[h].claim \in ClaimKeys /\ job[h].claim[1] \in Finds(job[h].msg.slug)
  BY DEF CreateJob
<1>5. job[h] \in FindJob =>
        job[h].slug \in AnySlug /\ job[h].verdict \in Verdicts /\ job[h].user \in Users
  BY DEF FindJob
<1>6. job[h] \in UpdateJob =>
        job[h].slug \in AnySlug /\ job[h].verdict \in Verdicts /\ job[h].claim \in ClaimKeys
  BY DEF UpdateJob
<1> QED
  BY <1>1, <1>2, <1>3, <1>4, <1>5, <1>6, JobKind

(***************************************************************************)
(* Ending or moving on a job keeps the type of the jobs.                   *)
(***************************************************************************)
LEMMA FinishType ==
  ASSUME TypeOK, NEW h \in Handlers, Finish(h)
  PROVE  /\ job' \in [Handlers -> JobType]
         /\ job'[h] = Idle
         /\ \A g \in Handlers : g # h => job'[g] = job[g]
  BY DEF TypeOK, Finish, JobType

LEMMA JoinAwaitType ==
  ASSUME TypeOK, NEW h \in Handlers, job[h].step = "join_news", AwaitNext(h, "join_find")
  PROVE  /\ job' \in [Handlers -> JobType]
         /\ job'[h] \in JoinJob
         /\ \A g \in Handlers : g # h => job'[g] = job[g]
<1>1. job[h] \in JoinJob
  BY JobKind
<1>2. [job[h] EXCEPT !.step = "join_find"] \in JoinJob
  BY <1>1 DEF JoinJob
<1> QED
  BY <1>1, <1>2 DEF TypeOK, AwaitNext, JobType

LEMMA MissingType ==
  ASSUME TypeOK, NEW h \in Handlers, JoinMissing(h)
  PROVE  /\ job' \in [Handlers -> JobType]
         /\ job'[h] \in CreateJob
         /\ \A g \in Handlers : g # h => job'[g] = job[g]
<1>1. job[h] \in JoinJob
  BY JobKind DEF JoinMissing
<1>2. job[h].msg \in JoinMsg /\ job[h].sock \in Sockets
  BY <1>1 DEF JoinJob
<1>3. PICK k \in FoundClaims(h) :
        job' = [job EXCEPT ![h] =
          [step |-> "join_create", sock |-> job[h].sock, msg |-> job[h].msg, claim |-> k]]
  BY DEF JoinMissing
<1>4. k \in ClaimKeys /\ k[1] \in Finds(job[h].msg.slug)
  BY <1>2, MessageType, FoundNews DEF FoundClaims, ClaimKeys
<1>5. [step |-> "join_create", sock |-> job[h].sock, msg |-> job[h].msg, claim |-> k]
        \in CreateJob
  BY <1>2, <1>4 DEF CreateJob
<1> QED
  BY <1>3, <1>5 DEF TypeOK, JobType

\* The rows that a handler asks for are rows of claims on news with its slug.
LEMMA CandidateType ==
  ASSUME TypeOK, NEW h \in Handlers, job[h].step = "submit_find", NEW k \in Candidates(h)
  PROVE  /\ k \in ClaimKeys /\ k[2] = job[h].user
         /\ job[h].slug # NoSlug => SlugOf[k[1]] = job[h].slug
<1>1. job[h].slug \in AnySlug /\ job[h].user \in Users
  BY JobFields DEF SubmitSteps
<1>2. PICK n \in Finds(job[h].slug) : k = <<n, job[h].user>>
  BY DEF Candidates
<1> QED
  BY <1>1, <1>2, FoundNews DEF ClaimKeys

LEMMA AwaitUpdateType ==
  ASSUME TypeOK, NEW h \in Handlers, job[h].step = "submit_find",
         NEW k \in Candidates(h), AwaitUpdate(h, k)
  PROVE  /\ job' \in [Handlers -> JobType]
         /\ job'[h] = [step |-> "submit_update", slug |-> job[h].slug, claim |-> k,
                       verdict |-> job[h].verdict]
         /\ \A g \in Handlers : g # h => job'[g] = job[g]
<1>1. k \in ClaimKeys
  BY CandidateType
<1>2. job[h].slug \in AnySlug /\ job[h].verdict \in Verdicts
  BY JobFields DEF SubmitSteps
<1>3. [step |-> "submit_update", slug |-> job[h].slug, claim |-> k,
       verdict |-> job[h].verdict] \in UpdateJob
  BY <1>1, <1>2 DEF UpdateJob
<1> QED
  BY <1>3 DEF AwaitUpdate, TypeOK, JobType

LEMMA VerdictType == \A e : Verdict(e) \in Verdicts
  BY DEF Verdict, Verdicts

LEMMA NewReaderType ==
  ASSUME NEW m \in JoinMsg, NEW slug \in AnySlug, NEW end \in Nat \cup {NaN}
  PROVE  /\ NewReader(m, slug, end) \in ReaderType
         /\ NewReader(m, slug, end).end_time_valid = end
         /\ NewReader(m, slug, end).slug = slug
         /\ NewReader(m, slug, end).reader_token = m.reader_token
<1>1. m.reader_token \in Users /\ m.is_scroll \in BOOLEAN /\ 0 \in Nat
  BY MessageType
<1>2. NewReader(m, slug, end) \in ReaderType
  BY <1>1, Zenon DEF NewReader, ReaderType
<1>3. /\ NewReader(m, slug, end).end_time_valid = end
      /\ NewReader(m, slug, end).slug = slug
      /\ NewReader(m, slug, end).reader_token = m.reader_token
  BY Zenon DEF NewReader
<1> QED
  BY <1>2, <1>3

LEMMA TrackType ==
  ASSUME TypeOK, NEW m \in JoinMsg, NEW n \in Finds(m.slug), Track(m, n)
  PROVE  /\ reader' \in [Rooms -> ReaderType \cup {NoReader}]
         /\ reader'[RoomId(m)] = NewReader(m, SlugOf[n], now + MinReadSeconds[n])
         /\ \A r \in Rooms : r # RoomId(m) => reader'[r] = reader[r]
         /\ firstTracked' \in [Slugs \X Users -> 0 .. MaxTime + 1]
         /\ firstTracked'[<<SlugOf[n], m.reader_token>>] <= now
         /\ \A t \in Slugs \X Users : firstTracked'[t] <= firstTracked[t]
<1>1. /\ SlugOf[n] \in Slugs /\ MinReadSeconds[n] \in Nat
      /\ m.reader_token \in Users /\ RoomId(m) \in Rooms
  BY MessageType, FoundNews
<1>2. now \in Nat /\ now \in 0 .. MaxTime + 1
  BY TrackingAssumption DEF TypeOK
<1> DEFINE e == NewReader(m, SlugOf[n], now + MinReadSeconds[n])
           t == <<SlugOf[n], m.reader_token>>
<1>3. e \in ReaderType
  BY <1>1, <1>2, NewReaderType DEF AnySlug
<1>4. reader' = [reader EXCEPT ![RoomId(m)] = e]
  BY DEF Track
<1>5. firstTracked' = [firstTracked EXCEPT ![t] = IF now < firstTracked[t] THEN now ELSE firstTracked[t]]
  BY DEF Track
<1>6. /\ reader' \in [Rooms -> ReaderType \cup {NoReader}]
      /\ reader'[RoomId(m)] = e
      /\ \A r \in Rooms : r # RoomId(m) => reader'[r] = reader[r]
  BY <1>1, <1>3, <1>4 DEF TypeOK
<1>7. t \in Slugs \X Users /\ firstTracked \in [Slugs \X Users -> 0 .. MaxTime + 1]
  BY <1>1 DEF TypeOK
<1> HIDE DEF t, e
<1>8. firstTracked[t] \in Nat
  BY <1>7
<1>9. /\ firstTracked' \in [Slugs \X Users -> 0 .. MaxTime + 1]
      /\ firstTracked'[t] <= now
      /\ firstTracked'[t] <= firstTracked[t]
  BY <1>2, <1>5, <1>7, <1>8
<1>10. ASSUME NEW x \in Slugs \X Users PROVE firstTracked'[x] <= firstTracked[x]
  <2>1. firstTracked[x] \in Nat
    BY <1>7
  <2>2. x = t \/ firstTracked'[x] = firstTracked[x]
    BY <1>5, <1>7
  <2> QED
    BY <1>9, <2>1, <2>2
<1> QED
  BY <1>6, <1>9, <1>10 DEF t, e

\* The claims that createUserClaimNews may ask for.
LEMMA FoundClaimType ==
  ASSUME TypeOK, NEW h \in Handlers, job[h].step \in JoinSteps, NEW k \in FoundClaims(h)
  PROVE  /\ k \in ClaimKeys /\ k[1] \in Finds(job[h].msg.slug)
<1>1. job[h].msg \in JoinMsg
  BY JobFields
<1> QED
  BY <1>1, MessageType, FoundNews DEF FoundClaims, ClaimKeys

LEMMA EnterRoomType ==
  ASSUME TypeOK, NEW h \in Handlers, job[h].step \in JoinSteps, NEW k \in ClaimKeys,
         NEW id \in Nanoids, EnterRoom(h, k, id), TableTypeOK'
  PROVE  TypeOK'
<1>1. job[h].msg \in JoinMsg /\ job[h].sock \in Sockets
  BY JobFields
<1>2. RoomId(job[h].msg) \in Rooms
  BY <1>1, MessageType
<1>3. rooms' \in [Sockets -> SUBSET Rooms]
  BY <1>1, <1>2 DEF EnterRoom, TypeOK
<1>4. sharedIds' \in [ClaimKeys -> SUBSET Nanoids]
  BY DEF EnterRoom, TypeOK
<1>5. job' \in [Handlers -> JobType]
  BY FinishType DEF EnterRoom
<1> QED
  BY <1>3, <1>4, <1>5 DEF EnterRoom, TypeOK

LEMMA TypeStep == TypeOK /\ [Next]_vars => TypeOK'
<1> SUFFICES ASSUME TypeOK, [Next]_vars PROVE TypeOK'
  OBVIOUS
<1> USE DEF historyVars
<1>1. ASSUME NEW h \in Handlers, NEW s \in Sockets, NEW m \in JoinMsgs, JoinRoom(h, s, m)
      PROVE  TypeOK'
  <2>1. m \in JoinMsg
    BY TrackingAssumption
  <2>2. [step |-> "join_news", sock |-> s, msg |-> m] \in JoinJob
    BY <2>1 DEF JoinJob
  <2>3. job' \in [Handlers -> JobType]
    BY <1>1, <2>2 DEF JoinRoom, TypeOK, JobType
  <2> QED
    BY <1>1, <2>3 DEF JoinRoom, TypeOK, TableTypeOK
<1>2. ASSUME NEW h \in Handlers, JoinTrack(h) PROVE TypeOK'
  <2>1. job[h].msg \in JoinMsg
    BY <1>2, JobFields DEF JoinTrack, JoinSteps
  <2>2. PICK n \in Finds(job[h].msg.slug) : Track(job[h].msg, n)
    BY <1>2 DEF JoinTrack
  <2>3. /\ reader' \in [Rooms -> ReaderType \cup {NoReader}]
        /\ firstTracked' \in [Slugs \X Users -> 0 .. MaxTime + 1]
    BY <2>1, <2>2, TrackType
  <2>4. job' \in [Handlers -> JobType]
    BY <1>2, JoinAwaitType DEF JoinTrack
  <2> QED
    BY <1>2, <2>3, <2>4 DEF JoinTrack, TypeOK, TableTypeOK
<1>3. ASSUME NEW h \in Handlers, JoinReturn(h) PROVE TypeOK'
  <2>1. job[h].step \in JoinSteps
    BY <1>3 DEF JoinReturn, JoinSteps
  <2>2. PICK k \in FoundClaims(h) :
          Exists(k) /\ EnterRoom(h, k, user_claim_news[k].transaction_id)
    BY <1>3 DEF JoinReturn
  <2>3. k \in ClaimKeys
    BY <2>1, FoundClaimType
  <2>4. user_claim_news[k].transaction_id \in Nanoids
    BY <2>2, <2>3, RowType DEF Row
  <2>5. TableTypeOK'
    BY <1>3 DEF JoinReturn, TypeOK, TableTypeOK
  <2> QED
    BY <2>1, <2>2, <2>3, <2>4, <2>5, EnterRoomType
<1>4. ASSUME NEW h \in Handlers, JoinMissing(h) PROVE TypeOK'
  BY <1>4, MissingType DEF JoinMissing, TypeOK, TableTypeOK
<1>5. ASSUME NEW h \in Handlers, JoinCreate(h) PROVE TypeOK'
  <2>1. job[h].step \in JoinSteps /\ job[h].claim \in ClaimKeys
    BY <1>5, JobFields DEF JoinCreate, JoinSteps
  <2>2. PICK id \in Nanoids : InsertRow(job[h].claim, id) /\ EnterRoom(h, job[h].claim, id)
    BY <1>5 DEF JoinCreate
  <2>3. TableTypeOK'
    BY <2>1, <2>2, InsertType
  <2> QED
    BY <2>1, <2>2, <2>3, EnterRoomType
<1>6. ASSUME NEW h \in Handlers, JoinCreateLost(h) PROVE TypeOK'
  <2>1. job[h].claim \in ClaimKeys
    BY <1>6, JobFields DEF JoinCreateLost
  <2>2. TableTypeOK'
    BY <1>6, <2>1, InsertType DEF JoinCreateLost
  <2>3. job' \in [Handlers -> JobType]
    BY <1>6, FinishType DEF JoinCreateLost
  <2> QED
    BY <1>6, <2>2, <2>3 DEF JoinCreateLost, TypeOK
<1>7. ASSUME NEW h \in Handlers, JoinFail(h) \/ SubmitRefused(h) \/ SubmitFail(h)
      PROVE  TypeOK'
  <2>1. job' \in [Handlers -> JobType]
    BY <1>7, FinishType DEF JoinFail, SubmitRefused, SubmitFail
  <2> QED
    BY <1>7, <2>1 DEF JoinFail, SubmitRefused, SubmitFail, TypeOK, TableTypeOK
<1>8. ASSUME NEW r \in Rooms, NEW v \in ScrollValues, TrackingScroll(r, v) PROVE TypeOK'
  <2>1. v \in Nat /\ reader[r] \in ReaderType
    BY <1>8, TrackingAssumption DEF TrackingScroll, TypeOK
  <2>2. [reader[r] EXCEPT !.tracking_scroll = v] \in ReaderType
    BY <2>1 DEF ReaderType
  <2>3. reader' = [reader EXCEPT ![r] = [@ EXCEPT !.tracking_scroll = v]]
    BY <1>8 DEF TrackingScroll
  <2> QED
    BY <1>8, <2>2, <2>3 DEF TrackingScroll, TypeOK, TableTypeOK
<1>9. ASSUME NEW r \in Rooms, NEW b \in FlagValues, TrackingNextTab(r, b) PROVE TypeOK'
  <2>1. b \in BOOLEAN /\ reader[r] \in ReaderType
    BY <1>9, TrackingAssumption DEF TrackingNextTab, TypeOK
  <2>2. [reader[r] EXCEPT !.tracking_next_tab = b] \in ReaderType
    BY <2>1 DEF ReaderType
  <2>3. reader' = [reader EXCEPT ![r] = [@ EXCEPT !.tracking_next_tab = b]]
    BY <1>9 DEF TrackingNextTab
  <2> QED
    BY <1>9, <2>2, <2>3 DEF TrackingNextTab, TypeOK, TableTypeOK
<1>10. ASSUME NEW r \in Rooms, NEW b \in FlagValues, TrackingUnfocused(r, b) PROVE TypeOK'
  <2>1. b \in BOOLEAN /\ reader[r] \in ReaderType
    BY <1>10, TrackingAssumption DEF TrackingUnfocused, TypeOK
  <2>2. [reader[r] EXCEPT !.tracking_unfocused = b] \in ReaderType
    BY <2>1 DEF ReaderType
  <2>3. reader' = [reader EXCEPT ![r] = [@ EXCEPT !.tracking_unfocused = b]]
    BY <1>10 DEF TrackingUnfocused
  <2> QED
    BY <1>10, <2>2, <2>3 DEF TrackingUnfocused, TypeOK, TableTypeOK
<1>11. ASSUME NEW s \in Sockets, NEW r \in Rooms, Unsubcribe(s, r) PROVE TypeOK'
  BY <1>11 DEF Unsubcribe, TypeOK, TableTypeOK
<1>12. ASSUME NEW h \in Handlers, NEW r \in Rooms, Submit(h, r) PROVE TypeOK'
  <2>1. reader[r] \in ReaderType
    BY <1>12 DEF Submit, TypeOK
  <2>2. reader[r].slug \in AnySlug /\ reader[r].reader_token \in Users
    BY <2>1 DEF ReaderType
  <2>3. [step |-> "submit_find", slug |-> reader[r].slug, user |-> reader[r].reader_token,
         verdict |-> Verdict(reader[r])] \in FindJob
    BY <2>2, VerdictType DEF FindJob
  <2>4. job' \in [Handlers -> JobType]
    BY <1>12, <2>3 DEF Submit, TypeOK, JobType
  <2> QED
    BY <1>12, <2>4 DEF Submit, TypeOK, TableTypeOK
<1>13. ASSUME NEW h \in Handlers, SubmitCheck(h) PROVE TypeOK'
  <2>1. PICK k \in Candidates(h) : AwaitUpdate(h, k)
    BY <1>13 DEF SubmitCheck
  <2>2. job' \in [Handlers -> JobType]
    BY <1>13, <2>1, AwaitUpdateType DEF SubmitCheck
  <2> QED
    BY <2>1, <2>2 DEF AwaitUpdate, TypeOK, TableTypeOK
<1>14. ASSUME NEW h \in Handlers, SubmitUpdate(h) \/ SubmitUpdateLost(h) PROVE TypeOK'
  <2>1. WriteStatus(h)
    BY <1>14 DEF SubmitUpdate, SubmitUpdateLost
  <2>2. job[h].claim \in ClaimKeys /\ job[h].verdict \in Verdicts
    BY <2>1, JobFields DEF WriteStatus
  <2>3. TableTypeOK'
    BY <2>1, <2>2, UpdateType DEF WriteStatus
  <2>4. job' \in [Handlers -> JobType]
    BY <2>1, FinishType DEF WriteStatus
  <2>5. strayed' \subseteq ClaimKeys
    BY <2>1, <2>2 DEF WriteStatus, TypeOK
  <2>6. reported' \in [ClaimKeys -> SUBSET Verdicts]
    BY <1>14, <2>2 DEF SubmitUpdate, SubmitUpdateLost, TypeOK
  <2> QED
    BY <2>1, <2>3, <2>4, <2>5, <2>6 DEF WriteStatus, TypeOK
<1>15. ASSUME Tick PROVE TypeOK'
  <2>1. now' \in 0 .. MaxTime
    BY <1>15, TrackingAssumption DEF Tick, TypeOK
  <2> QED
    BY <1>15, <2>1 DEF Tick, memoryVars, TypeOK, TableTypeOK
<1>16. ASSUME NEW s \in Sockets, Disconnect(s) PROVE TypeOK'
  BY <1>16 DEF Disconnect, TypeOK, TableTypeOK
<1>17. ASSUME Restart PROVE TypeOK'
  BY <1>17 DEF Restart, TypeOK, TableTypeOK, JobType
<1>18. ASSUME UNCHANGED vars PROVE TypeOK'
  BY <1>18 DEF vars, memoryVars, TypeOK, TableTypeOK
<1>19. ASSUME NEW h \in Handlers, JoinTrackNonce(h) PROVE TypeOK'
  <2>1. job[h].msg \in JoinMsg
    BY <1>19, JobFields DEF JoinTrackNonce, JoinSteps
  <2>2. NewReader(job[h].msg, NoSlug, NaN) \in ReaderType
    BY <2>1, NewReaderType DEF AnySlug
  <2>3. reader' \in [Rooms -> ReaderType \cup {NoReader}]
    BY <1>19, <2>1, <2>2, MessageType DEF JoinTrackNonce, TypeOK
  <2>4. job' \in [Handlers -> JobType]
    BY <1>19, JoinAwaitType DEF JoinTrackNonce
  <2> QED
    BY <1>19, <2>3, <2>4 DEF JoinTrackNonce, TypeOK, TableTypeOK
<1> QED
  BY <1>1, <1>2, <1>3, <1>4, <1>5, <1>6, <1>7, <1>8, <1>9, <1>10, <1>11, <1>12,
     <1>13, <1>14, <1>15, <1>16, <1>17, <1>18, <1>19
  DEF Next, Serving, Submits, Leaves, JoinResume, SubmitResume

(***************************************************************************)
(* Every variable stays in its type, for any values of the constants.      *)
(***************************************************************************)
THEOREM TypeCorrect == Spec => []TypeOK
<1>1. Init => TypeOK
  BY TrackingAssumption
  DEF Init, TableInit, TypeOK, TableTypeOK, JobType
<1>2. TypeOK /\ [Next]_vars => TypeOK'
  BY TypeStep
<1> QED
  BY <1>1, <1>2, PTL DEF Spec

--------------------------------------------------------------------------------
(* The table *)

(***************************************************************************)
(* The only steps that change the table are a create and an update, and    *)
(* each ends its handler.                                                  *)
(***************************************************************************)
LEMMA TableChange ==
  ASSUME [Next]_vars
  PROVE  \/ user_claim_news' = user_claim_news /\ strayed' = strayed
         \/ \E h \in Handlers, id \in Nanoids :
              /\ job[h].step = "join_create" /\ InsertRow(job[h].claim, id)
              /\ Finish(h) /\ strayed' = strayed
         \/ \E h \in Handlers :
              /\ job[h].step = "submit_update"
              /\ UpdateStatus(job[h].claim, job[h].verdict)
              /\ Finish(h)
              /\ strayed' = IF job[h].slug = NoSlug
                            THEN strayed \cup {job[h].claim} ELSE strayed \ {job[h].claim}
  BY DEF EnterRoom, WriteStatus, AwaitUpdate, Next, Serving, Submits, Leaves, JoinResume, SubmitResume,
    JoinRoom, JoinTrack, JoinTrackNonce,
    JoinReturn, JoinMissing, JoinCreate, JoinCreateLost, JoinFail, TrackingScroll,
    TrackingNextTab, TrackingUnfocused, Unsubcribe, Submit, SubmitCheck,
    SubmitRefused, SubmitUpdate, SubmitUpdateLost, SubmitFail, Tick, Disconnect,
    Restart, vars, historyVars

LEMMA RowStep ==
  ASSUME TypeOK, [Next]_vars, NEW k \in ClaimKeys
  PROVE  RowAdvances(k)
<1> SUFFICES ASSUME Exists(k) PROVE RowAdvances(k)
  BY DEF RowAdvances
<1>1. user_claim_news[k] \in Row
  BY RowType
<1>2. CASE user_claim_news' = user_claim_news
  BY <1>2 DEF RowAdvances, Exists, Settled, StatusIs
<1>3. ASSUME NEW h \in Handlers, NEW id \in Nanoids,
             job[h].step = "join_create", InsertRow(job[h].claim, id)
      PROVE  RowAdvances(k)
  <2>2. job[h].claim \in ClaimKeys
    BY <1>3, JobFields
  <2>3. user_claim_news'[k] = user_claim_news[k]
    BY <1>3, <2>2, InsertType
  <2> QED
    BY <2>3 DEF RowAdvances, Exists, Settled, StatusIs
<1>4. ASSUME NEW h \in Handlers,
             job[h].step = "submit_update", UpdateStatus(job[h].claim, job[h].verdict)
      PROVE  RowAdvances(k)
  <2> DEFINE j == job[h].claim
             v == job[h].verdict
  <2>1. j \in ClaimKeys /\ v \in Verdicts
    BY <1>4, JobFields
  <2>2. CASE k # j
    <3>1. user_claim_news'[k] = user_claim_news[k]
      BY <1>4, <2>1, <2>2, UpdateType
    <3> QED
      BY <3>1 DEF RowAdvances, Exists, Settled, StatusIs
  <2>3. CASE k = j
    <3>1. user_claim_news'[k] = [user_claim_news[k] EXCEPT !.status = v]
      BY <1>4, <2>1, <2>3, UpdateType
    <3>2. /\ user_claim_news'[k] \in Row
          /\ user_claim_news'[k].transaction_id = user_claim_news[k].transaction_id
          /\ user_claim_news'[k].status = v
      BY <1>1, <2>1, <3>1 DEF Row, Verdicts, ClaimStatus
    <3>3. Exists(k)'
      BY <3>2, NoRowAssumption DEF Exists
    <3>4. Settled(k)'
      BY <2>1, <3>2, <3>3 DEF Settled, StatusIs, Verdicts
    <3> QED
      BY <3>2, <3>3, <3>4 DEF RowAdvances
  <2> QED
    BY <2>2, <2>3
<1> QED
  BY <1>2, <1>3, <1>4, TableChange

(***************************************************************************)
(* No step of the gateway removes a row, changes its transaction id or     *)
(* makes a decided claim pending again.                                    *)
(***************************************************************************)
THEOREM RowsAdvance == Spec => RowsOnlyAdvance
<1>1. TypeOK /\ [Next]_vars => [\A k \in ClaimKeys : RowAdvances(k)]_vars
  BY RowStep
<1> QED
  BY <1>1, TypeCorrect, PTL DEF Spec, RowsOnlyAdvance

--------------------------------------------------------------------------------
(* Transaction ids and rooms *)

(***************************************************************************)
(* What EnterRoom, with the id of the row as the step leaves it, does to   *)
(* the ids that were told and to the rooms.                                *)
(***************************************************************************)
LEMMA EnterRoomStep ==
  ASSUME TypeOK, [Next]_vars, TransactionIdAgreed, JoinedRoomHasRow,
         NEW h \in Handlers, job[h].step \in JoinSteps, NEW id \in Nanoids,
         NEW c \in ClaimKeys, c[1] \in Finds(job[h].msg.slug),
         EnterRoom(h, c, id),
         Exists(c)', user_claim_news'[c].transaction_id = id
  PROVE  TransactionIdAgreed' /\ JoinedRoomHasRow'
<1>0. PICK m \in JoinMsg : m = job[h].msg
  BY JobFields
<1>1. job[h].sock \in Sockets
  BY JobFields
<1>2. c = <<c[1], c[2]>> /\ c[1] \in Finds(m.slug) /\ c[2] \in Users
  BY <1>0 DEF ClaimKeys
<1>3. \A k \in ClaimKeys :
        Exists(k) => /\ Exists(k)'
                     /\ user_claim_news'[k].transaction_id = user_claim_news[k].transaction_id
  BY RowStep DEF RowAdvances
<1>4. ASSUME NEW k \in ClaimKeys, NEW i \in sharedIds'[k]
      PROVE  Exists(k)' /\ user_claim_news'[k].transaction_id = i
  <2>1. i \in sharedIds[k] \/ (k = c /\ i = id)
    BY <1>4 DEF EnterRoom, TypeOK
  <2> QED
    BY <1>3, <2>1 DEF TransactionIdAgreed
<1>5. ASSUME NEW s \in Sockets, NEW r \in rooms'[s]
      PROVE  \E n \in Finds(r[1]), u \in Users : Exists(<<n, u>>)'
  <2>1. r \in rooms[s] \/ r = RoomId(m)
    BY <1>0, <1>1, <1>5 DEF EnterRoom, TypeOK
  <2>2. CASE r \in rooms[s]
    <3>1. PICK n \in Finds(r[1]), u \in Users : Exists(<<n, u>>)
      BY <2>2 DEF JoinedRoomHasRow
    <3>2. r \in Rooms
      BY <2>2 DEF TypeOK
    <3>3. <<n, u>> \in ClaimKeys
      BY <3>2, FoundNews DEF Rooms, ClaimKeys
    <3> QED
      BY <1>3, <3>1, <3>3
  <2>3. CASE r = RoomId(m)
    <3>1. r[1] = m.slug
      BY <2>3, MessageType
    <3> QED
      BY <1>2, <3>1
  <2> QED
    BY <2>1, <2>2, <2>3
<1> QED
  BY <1>4, <1>5 DEF TransactionIdAgreed, JoinedRoomHasRow

LEMMA AgreementStep ==
  TypeOK /\ TransactionIdAgreed /\ JoinedRoomHasRow /\ [Next]_vars
    => TransactionIdAgreed' /\ JoinedRoomHasRow'
<1> SUFFICES ASSUME TypeOK, TransactionIdAgreed, JoinedRoomHasRow, [Next]_vars
             PROVE  TransactionIdAgreed' /\ JoinedRoomHasRow'
  OBVIOUS
<1>1. ASSUME NEW h \in Handlers, JoinReturn(h)
      PROVE  TransactionIdAgreed' /\ JoinedRoomHasRow'
  <2>1. job[h].step \in JoinSteps
    BY <1>1 DEF JoinReturn, JoinSteps
  <2>2. PICK c \in FoundClaims(h) :
          Exists(c) /\ EnterRoom(h, c, user_claim_news[c].transaction_id)
    BY <1>1 DEF JoinReturn
  <2>3. c \in ClaimKeys /\ c[1] \in Finds(job[h].msg.slug)
    BY <2>1, FoundClaimType
  <2>4. Exists(c)' /\ user_claim_news'[c].transaction_id = user_claim_news[c].transaction_id
    BY <2>2, <2>3, RowStep DEF RowAdvances
  <2>5. user_claim_news[c].transaction_id \in Nanoids
    BY <2>2, <2>3, RowType DEF Row
  <2> QED
    BY <2>1, <2>2, <2>3, <2>4, <2>5, EnterRoomStep
<1>2. ASSUME NEW h \in Handlers, JoinCreate(h)
      PROVE  TransactionIdAgreed' /\ JoinedRoomHasRow'
  <2>1. job[h].step \in JoinSteps
    BY <1>2 DEF JoinCreate, JoinSteps
  <2>2. PICK c \in ClaimKeys : c = job[h].claim
    BY <1>2, JobFields DEF JoinCreate
  <2>3. PICK id \in Nanoids : InsertRow(c, id) /\ EnterRoom(h, c, id)
    BY <1>2, <2>2 DEF JoinCreate
  <2>4. /\ user_claim_news'[c] \in Row
        /\ user_claim_news'[c] =
             [transaction_id |-> id, status |-> "pending", token_earned |-> 0]
    BY <2>3, InsertType
  <2>5. Exists(c)' /\ user_claim_news'[c].transaction_id = id
    BY <2>4, NoRowAssumption DEF Exists
  <2>6. c[1] \in Finds(job[h].msg.slug)
    BY <1>2, <2>2, JobFields DEF JoinCreate
  <2> QED
    BY <2>1, <2>2, <2>3, <2>5, <2>6, EnterRoomStep
<1>3. ASSUME sharedIds' = sharedIds, \A s \in Sockets : rooms'[s] \subseteq rooms[s]
      PROVE  TransactionIdAgreed' /\ JoinedRoomHasRow'
  <2>1. \A k \in ClaimKeys :
          Exists(k) => /\ Exists(k)'
                       /\ user_claim_news'[k].transaction_id = user_claim_news[k].transaction_id
    BY RowStep DEF RowAdvances
  <2>2. TransactionIdAgreed'
    BY <1>3, <2>1 DEF TransactionIdAgreed
  <2>3. ASSUME NEW s \in Sockets, NEW r \in rooms'[s]
        PROVE  \E n \in Finds(r[1]), u \in Users : Exists(<<n, u>>)'
    <3>1. PICK n \in Finds(r[1]), u \in Users : Exists(<<n, u>>)
      BY <1>3, <2>3 DEF JoinedRoomHasRow
    <3>2. r \in Rooms
      BY <1>3, <2>3 DEF TypeOK
    <3>3. <<n, u>> \in ClaimKeys
      BY <3>2, FoundNews DEF Rooms, ClaimKeys
    <3> QED
      BY <2>1, <3>1, <3>3
  <2> QED
    BY <2>2, <2>3 DEF JoinedRoomHasRow
<1>4. \/ \E h \in Handlers : JoinReturn(h) \/ JoinCreate(h)
      \/ sharedIds' = sharedIds /\ \A s \in Sockets : rooms'[s] \subseteq rooms[s]
  BY DEF WriteStatus, AwaitUpdate, Track,
    Next, Serving, Submits, Leaves, JoinResume, SubmitResume, JoinRoom, JoinTrack, JoinTrackNonce,
    JoinMissing, JoinCreateLost, JoinFail, TrackingScroll,
    TrackingNextTab, TrackingUnfocused, Unsubcribe, Submit, SubmitCheck,
    SubmitRefused, SubmitUpdate, SubmitUpdateLost, SubmitFail, Tick, Disconnect,
    Restart, vars, memoryVars, historyVars, TypeOK
<1> QED
  BY <1>1, <1>2, <1>3, <1>4

LEMMA AgreementInit == Init => TransactionIdAgreed /\ JoinedRoomHasRow
  BY DEF Init, TransactionIdAgreed, JoinedRoomHasRow

(***************************************************************************)
(* However many JOIN_ROOMs of a reader run together or again, all that     *)
(* succeed tell the reader the transaction id in the row.                  *)
(***************************************************************************)
THEOREM IdsAgree == Spec => []TransactionIdAgreed
<1>1. TypeOK /\ TransactionIdAgreed /\ JoinedRoomHasRow /\ [Next]_vars
        => TransactionIdAgreed' /\ JoinedRoomHasRow'
  BY AgreementStep
<1> QED
  BY <1>1, AgreementInit, TypeCorrect, PTL DEF Spec

(***************************************************************************)
(* A socket is only in rooms of news on which a claim is stored.           *)
(***************************************************************************)
THEOREM RoomsHaveRows == Spec => []JoinedRoomHasRow
<1>1. TypeOK /\ TransactionIdAgreed /\ JoinedRoomHasRow /\ [Next]_vars
        => TransactionIdAgreed' /\ JoinedRoomHasRow'
  BY AgreementStep
<1> QED
  BY <1>1, AgreementInit, TypeCorrect, PTL DEF Spec

--------------------------------------------------------------------------------
(* Handlers in flight *)

(***************************************************************************)
(* What one step does to one job, as far as verdicts go: the ways it may   *)
(* be after the step.                                                      *)
(***************************************************************************)
Taken(g, r) ==
  /\ Submit(g, r)
  /\ job'[g] = [step |-> "submit_find", slug |-> reader[r].slug,
                user |-> reader[r].reader_token, verdict |-> Verdict(reader[r])]

Checked(g, k) ==
  /\ SubmitCheck(g)
  /\ job[g].step = "submit_find" /\ k \in Candidates(g) /\ k \in ClaimKeys
  /\ StatusIs(k, "pending")
  /\ user_claim_news' = user_claim_news
  /\ job'[g] = [step |-> "submit_update", slug |-> job[g].slug, claim |-> k,
                verdict |-> job[g].verdict]
  /\ \A f \in Handlers : f # g => job'[f] = job[f]

LEMMA CheckedStep ==
  ASSUME TypeOK, NEW g \in Handlers, SubmitCheck(g)
  PROVE  \E k \in ClaimKeys : Checked(g, k)
<1>1. PICK k \in Candidates(g) : StatusIs(k, "pending") /\ AwaitUpdate(g, k)
  BY DEF SubmitCheck
<1>2. job[g].step = "submit_find"
  BY DEF SubmitCheck
<1>3. k \in ClaimKeys
  BY <1>2, CandidateType
<1> QED
  BY <1>1, <1>2, <1>3, AwaitUpdateType DEF Checked, AwaitUpdate

(***************************************************************************)
(* A step that is no SUBMIT: jobs end, wait in JOIN_ROOM, or pass the      *)
(* check.                                                                  *)
(***************************************************************************)
LEMMA ServedJobs ==
  ASSUME TypeOK, Serving \/ Leaves \/ UNCHANGED vars, NEW g \in Handlers
  PROVE  \/ job'[g] = job[g]
         \/ job'[g] = Idle
         \/ job'[g] \in JoinJob \cup CreateJob
         \/ \E k \in ClaimKeys : Checked(g, k)
<1> DEFINE Goal == \/ job'[g] = job[g]
                   \/ job'[g] = Idle
                   \/ job'[g] \in JoinJob \cup CreateJob
                   \/ \E k \in ClaimKeys : Checked(g, k)
<1>1. ASSUME NEW h \in Handlers, NEW s \in Sockets, NEW m \in JoinMsgs, JoinRoom(h, s, m)
      PROVE  Goal
  <2>1. [step |-> "join_news", sock |-> s, msg |-> m] \in JoinJob
    BY TrackingAssumption DEF JoinJob
  <2> QED
    BY <1>1, <2>1 DEF JoinRoom, TypeOK
<1>2. ASSUME NEW h \in Handlers, JoinTrack(h) \/ JoinTrackNonce(h) PROVE Goal
  BY <1>2, JoinAwaitType DEF JoinTrack, JoinTrackNonce
<1>3. ASSUME NEW h \in Handlers, JoinMissing(h) PROVE Goal
  BY <1>3, MissingType
<1>4. ASSUME NEW h \in Handlers, Finish(h) PROVE Goal
  BY <1>4, FinishType
<1>5. ASSUME NEW h \in Handlers, SubmitCheck(h) PROVE Goal
  <2>1. PICK k \in ClaimKeys : Checked(h, k)
    BY <1>5, CheckedStep
  <2>2. CASE h = g
    BY <2>1, <2>2
  <2>3. CASE h # g
    BY <2>1, <2>3 DEF Checked
  <2> QED
    BY <2>2, <2>3
<1>6. ASSUME job' = job \/ Restart PROVE Goal
  BY <1>6 DEF Restart
<1>7. \/ \E h \in Handlers, s \in Sockets, m \in JoinMsgs : JoinRoom(h, s, m)
      \/ \E h \in Handlers : \/ JoinTrack(h) \/ JoinTrackNonce(h) \/ JoinMissing(h)
                           \/ Finish(h) \/ SubmitCheck(h)
      \/ job' = job \/ Restart
  BY DEF Serving, Leaves, JoinResume, SubmitResume, JoinReturn, JoinCreate,
    JoinCreateLost, JoinFail, EnterRoom, WriteStatus, TrackingScroll, TrackingNextTab,
    TrackingUnfocused, Unsubcribe, SubmitRefused, SubmitUpdate, SubmitUpdateLost,
    SubmitFail, Tick, Disconnect, vars, memoryVars
<1> QED
  BY <1>1, <1>2, <1>3, <1>4, <1>5, <1>6, <1>7

\* With a SUBMIT, a free place is taken as well.
LEMMA JobChange ==
  ASSUME TypeOK, [Next]_vars, NEW g \in Handlers
  PROVE  \/ job'[g] = job[g]
         \/ job'[g] = Idle
         \/ job'[g] \in JoinJob \cup CreateJob
         \/ \E r \in Rooms : Taken(g, r)
         \/ \E k \in ClaimKeys : Checked(g, k)
<1>1. ASSUME NEW h \in Handlers, NEW r \in Rooms, Submit(h, r)
      PROVE  job'[g] = job[g] \/ Taken(g, r)
  <2>1. CASE h = g
    <3>1. job'[g] = [step |-> "submit_find", slug |-> reader[r].slug,
                     user |-> reader[r].reader_token, verdict |-> Verdict(reader[r])]
      BY <1>1, <2>1 DEF Submit, TypeOK
    <3> QED
      BY <1>1, <2>1, <3>1 DEF Taken
  <2>2. CASE h # g
    BY <1>1, <2>2 DEF Submit, TypeOK
  <2> QED
    BY <2>1, <2>2
<1>2. CASE Submits
  BY <1>1, <1>2 DEF Submits
<1>3. CASE Serving \/ Leaves \/ UNCHANGED vars
  BY <1>3, ServedJobs
<1> QED
  BY <1>2, <1>3 DEF Next

LEMMA FrozenStep ==
  ASSUME TypeOK, [Next]_vars, NEW k \in ClaimKeys
  PROVE  Frozen(k)
<1> SUFFICES ASSUME Settled(k)
             PROVE  /\ Updating(k)' \subseteq Updating(k)
                    /\ Updating(k) = {} =>
                         user_claim_news'[k].status = user_claim_news[k].status
  BY DEF Frozen
<1>1. ASSUME NEW h \in Handlers, job'[h].step = "submit_update", job'[h].claim = k
      PROVE  job[h].step = "submit_update" /\ job[h].claim = k
  <2>1. CASE job'[h] = job[h]
    BY <1>1, <2>1
  <2>2. job'[h] # Idle /\ job'[h] \notin JoinJob \cup CreateJob
    BY <1>1 DEF Idle, JoinJob, CreateJob
  <2>3. ASSUME NEW r \in Rooms, Taken(h, r) PROVE FALSE
    BY <1>1, <2>3 DEF Taken
  <2>4. ASSUME NEW c \in ClaimKeys, Checked(h, c) PROVE FALSE
    <3>1. c = k
      BY <1>1, <2>4 DEF Checked
    <3> QED
      BY <2>4, <3>1 DEF Checked, Settled, StatusIs
  <2> QED
    BY <2>1, <2>2, <2>3, <2>4, JobChange
<1>2. Updating(k)' \subseteq Updating(k)
  BY <1>1 DEF Updating
<1>3. ASSUME Updating(k) = {}
      PROVE  user_claim_news'[k].status = user_claim_news[k].status
  <2>1. ASSUME NEW h \in Handlers, NEW id \in Nanoids,
               job[h].step = "join_create", InsertRow(job[h].claim, id)
        PROVE  user_claim_news'[k] = user_claim_news[k]
    <3>1. PICK c \in ClaimKeys : c = job[h].claim
      BY <2>1, JobFields
    <3>2. c # k
      BY <2>1, <3>1 DEF InsertRow, Settled, StatusIs
    <3> QED
      BY <2>1, <3>1, <3>2, InsertType
  <2>2. ASSUME NEW h \in Handlers,
               job[h].step = "submit_update", UpdateStatus(job[h].claim, job[h].verdict)
        PROVE  user_claim_news'[k] = user_claim_news[k]
    <3>1. job[h].claim \in ClaimKeys /\ job[h].verdict \in Verdicts
      BY <2>2, JobFields
    <3>2. job[h].claim # k
      BY <1>3, <2>2 DEF Updating
    <3> QED
      BY <2>2, <3>1, <3>2, UpdateType
  <2> QED
    BY <2>1, <2>2, TableChange
<1> QED
  BY <1>2, <1>3

(***************************************************************************)
(* Once a claim is decided, only handlers that had read it pending can     *)
(* still change the verdict, and no new handler joins them.                *)
(***************************************************************************)
THEOREM VerdictFreezes == Spec => FrozenVerdict
<1>1. TypeOK /\ [Next]_vars => [\A k \in ClaimKeys : Frozen(k)]_vars
  BY FrozenStep
<1> QED
  BY <1>1, TypeCorrect, PTL DEF Spec, FrozenVerdict

--------------------------------------------------------------------------------
(* What the other handlers see of the gateway *)

LEMMA LateMember ==
  ASSUME NEW x
  PROVE  x \in Late <=> \E h \in Handlers :
           job[h].step = "submit_update" /\ x = <<job[h].claim, job[h].verdict>>
  BY DEF Late

\* Only SubmitCheck brings a new verdict to its update.
LEMMA LateShrinks ==
  ASSUME TypeOK, [Next]_vars, \A h \in Handlers : ~SubmitCheck(h)
  PROVE  Late' \subseteq Late
<1> SUFFICES ASSUME NEW h \in Handlers, job'[h].step = "submit_update"
             PROVE  job'[h] = job[h]
  BY DEF Late
<1>1. job'[h] # Idle /\ job'[h] \notin JoinJob \cup CreateJob
  BY DEF Idle, JoinJob, CreateJob
<1>2. ASSUME NEW r \in Rooms, Taken(h, r) PROVE FALSE
  BY <1>2 DEF Taken
<1>3. ASSUME NEW k \in ClaimKeys, Checked(h, k) PROVE FALSE
  BY <1>3 DEF Checked
<1> QED
  BY <1>1, <1>2, <1>3, JobChange

\* When a handler ends, the other handlers' verdicts stay.
LEMMA LateKept ==
  ASSUME TypeOK, NEW h \in Handlers, Finish(h), NEW x \in Late,
         job[h].step = "submit_update" => x # <<job[h].claim, job[h].verdict>>
  PROVE  x \in Late'
<1>1. PICK g \in Handlers :
        job[g].step = "submit_update" /\ x = <<job[g].claim, job[g].verdict>>
  BY LateMember
<1>2. job'[g] = job[g]
  BY <1>1, FinishType
<1> QED
  BY <1>1, <1>2 DEF Late

LEMMA RowsStep ==
  ASSUME TypeOK, [Next]_vars
  PROVE  [Table!RowsNext]_(Table!rowsVars)
<1> SUFFICES Table!RowsNext
  OBVIOUS
<1>0. Table!ClaimKeys = ClaimKeys /\ Table!Verdicts = Verdicts
  BY DEF Table!ClaimKeys, ClaimKeys, Table!Verdicts, Verdicts
<1>1. ASSUME NEW h \in Handlers, SubmitCheck(h) PROVE Table!RowsNext
  <2>1. PICK k \in ClaimKeys : Checked(h, k)
    BY <1>1, CheckedStep
  <2>2. PICK v \in Verdicts : v = job[h].verdict
    BY <2>1, JobFields DEF Checked, SubmitSteps
  <2>3. /\ job'[h].step = "submit_update"
        /\ job'[h].claim = k /\ job'[h].verdict = v
        /\ \A g \in Handlers : g # h => job'[g] = job[g]
        /\ job[h].step # "submit_update"
        /\ StatusIs(k, "pending") /\ user_claim_news' = user_claim_news
    BY <2>1, <2>2 DEF Checked
  <2>4. Late' = Late \cup {<<k, v>>}
    BY <2>3 DEF Late
  <2>5. Table!PassCheck(k, v)
    BY <2>3, <2>4 DEF Table!PassCheck, Table!StatusIs, Table!Exists,
         StatusIs, Exists
  <2> QED
    BY <1>0, <2>5 DEF Table!RowsNext
<1>2. ASSUME \A h \in Handlers : ~SubmitCheck(h), user_claim_news' = user_claim_news
      PROVE  Table!RowsNext
  BY <1>2, LateShrinks DEF Table!RowsNext, Table!GiveUp
<1>3. ASSUME NEW h \in Handlers, NEW id \in Nanoids, job[h].step = "join_create",
             InsertRow(job[h].claim, id), Finish(h),
             \A g \in Handlers : ~SubmitCheck(g)
      PROVE  Table!RowsNext
  <2>1. job[h].claim \in ClaimKeys
    BY <1>3, JobFields
  <2>2. Late' = Late
    BY <1>3, LateShrinks, LateKept
  <2>3. Table!OpenRow(job[h].claim)
    BY <1>3, <2>2 DEF Table!OpenRow, Table!InsertRow, Table!Exists, InsertRow, Exists
  <2> QED
    BY <1>0, <2>1, <2>3 DEF Table!RowsNext
<1>4. ASSUME NEW h \in Handlers, job[h].step = "submit_update",
             UpdateStatus(job[h].claim, job[h].verdict), Finish(h),
             \A g \in Handlers : ~SubmitCheck(g)
      PROVE  Table!RowsNext
  <2>1. PICK k \in ClaimKeys, v \in Verdicts : k = job[h].claim /\ v = job[h].verdict
    BY <1>4, JobFields
  <2>2. <<k, v>> \in Late
    BY <1>4, <2>1, LateMember
  <2>3. Late' \subseteq Late /\ \A x \in Late : x # <<k, v>> => x \in Late'
    BY <1>4, <2>1, LateShrinks, LateKept
  <2>4. Late' = Late \/ Late' = Late \ {<<k, v>>}
    BY <2>3
  <2>5. Table!WriteVerdict(k, v)
    BY <1>4, <2>1, <2>2, <2>4 DEF Table!WriteVerdict, Table!UpdateStatus, Table!Exists,
         UpdateStatus, Exists
  <2> QED
    BY <1>0, <2>5 DEF Table!RowsNext
<1>5. CASE \E h \in Handlers : SubmitCheck(h)
  BY <1>1, <1>5
<1>6. CASE \A h \in Handlers : ~SubmitCheck(h)
  BY <1>2, <1>3, <1>4, <1>6, TableChange
<1> QED
  BY <1>5, <1>6

(***************************************************************************)
(* The gateway changes the rows as GatewayRows says, for any number of     *)
(* pages and handlers: what is shown of the claiming handlers in those     *)
(* surroundings holds of them beside the real gateway.                     *)
(***************************************************************************)
THEOREM GatewayImplementsRows == Spec => ImplementsRows
<1>1. Init => Table!RowsInit
  BY DEF Init, Table!RowsInit, Table!TableInit, Table!ClaimKeys, TableInit, ClaimKeys,
    Late, Idle
<1>2. TypeOK /\ [Next]_vars => [Table!RowsNext]_(Table!rowsVars)
  BY RowsStep
<1> QED
  BY <1>1, <1>2, TypeCorrect, PTL DEF Spec, ImplementsRows, Table!RowsSpec

--------------------------------------------------------------------------------
(* The time to read *)

\* TimeToRead after the step, of values as they are before it.
TimeToReadNext(slug, user, end) ==
  \E n \in Finds(slug) : firstTracked'[<<slug, user>>] + MinReadSeconds[n] <= end

\* Time goes forward; the first time a user tracked a slug only moves back.
LEMMA TimeStep ==
  ASSUME TypeOK, [Next]_vars
  PROVE  /\ now \in Nat /\ now' \in Nat /\ now <= now'
         /\ \A t \in Slugs \X Users :
              /\ firstTracked[t] \in Nat /\ firstTracked'[t] \in Nat
              /\ firstTracked'[t] <= firstTracked[t]
<1>1. TypeOK'
  BY TypeStep
<1>2. /\ now \in Nat /\ now' \in Nat
      /\ \A t \in Slugs \X Users : firstTracked[t] \in Nat /\ firstTracked'[t] \in Nat
  BY <1>1, TrackingAssumption DEF TypeOK
<1>3. now' = now \/ now' = now + 1
  BY DEF EnterRoom, WriteStatus, AwaitUpdate, Next, Serving, Submits, Leaves, JoinResume, SubmitResume,
    JoinRoom, JoinTrack, JoinTrackNonce,
    JoinReturn, JoinMissing, JoinCreate, JoinCreateLost, JoinFail,
    TrackingScroll, TrackingNextTab, TrackingUnfocused, Unsubcribe, Submit,
    SubmitCheck, SubmitRefused, SubmitUpdate, SubmitUpdateLost, SubmitFail, Tick,
    Disconnect, Restart, vars
<1>4. \/ firstTracked' = firstTracked
      \/ \E h \in Handlers : JoinTrack(h)
  BY DEF EnterRoom, WriteStatus, AwaitUpdate, Next, Serving, Submits, Leaves, JoinResume, SubmitResume,
    JoinRoom, JoinTrackNonce,
    JoinReturn, JoinMissing, JoinCreate, JoinCreateLost, JoinFail,
    TrackingScroll, TrackingNextTab, TrackingUnfocused, Unsubcribe, Submit,
    SubmitCheck, SubmitRefused, SubmitUpdate, SubmitUpdateLost, SubmitFail, Tick,
    Disconnect, Restart, vars, historyVars
<1>5. ASSUME NEW h \in Handlers, JoinTrack(h)
      PROVE  \A t \in Slugs \X Users : firstTracked'[t] <= firstTracked[t]
  <2>1. job[h].msg \in JoinMsg
    BY <1>5, JobFields DEF JoinTrack, JoinSteps
  <2>2. PICK n \in Finds(job[h].msg.slug) : Track(job[h].msg, n)
    BY <1>5 DEF JoinTrack
  <2> QED
    BY <2>1, <2>2, TrackType
<1>6. \A t \in Slugs \X Users : firstTracked'[t] <= firstTracked[t]
  BY <1>2, <1>4, <1>5
<1> QED
  BY <1>2, <1>3, <1>6

\* Who had the time to read has it after the step, and later.
LEMMA TimeKept ==
  ASSUME TypeOK, [Next]_vars, NEW slug \in Slugs, NEW user \in Users,
         NEW end \in Nat, NEW later \in Nat, end <= later, TimeToRead(slug, user, end)
  PROVE  TimeToReadNext(slug, user, later)
<1>1. PICK n \in Finds(slug) : firstTracked[<<slug, user>>] + MinReadSeconds[n] <= end
  BY DEF TimeToRead
<1>2. MinReadSeconds[n] \in Nat
  BY FoundNews DEF AnySlug
<1>3. /\ firstTracked[<<slug, user>>] \in Nat /\ firstTracked'[<<slug, user>>] \in Nat
      /\ firstTracked'[<<slug, user>>] <= firstTracked[<<slug, user>>]
  BY TimeStep
<1>4. firstTracked'[<<slug, user>>] + MinReadSeconds[n] <= later
  BY <1>1, <1>2, <1>3
<1> QED
  BY <1>4 DEF TimeToReadNext

LEMMA NewReaderFields ==
  ASSUME NEW m, NEW slug, NEW end
  PROVE  /\ NewReader(m, slug, end).end_time_valid = end
         /\ NewReader(m, slug, end).slug = slug
         /\ NewReader(m, slug, end).reader_token = m.reader_token
  BY Zenon DEF NewReader

\* The entry of a news that is being opened is timed.
LEMMA TrackTimed ==
  ASSUME TypeOK, NEW m \in JoinMsg, NEW n \in Finds(m.slug), Track(m, n),
         NEW e, e = reader'[RoomId(m)]
  PROVE  /\ e.end_time_valid \in Nat
         /\ TimeToReadNext(e.slug, e.reader_token, e.end_time_valid)
         /\ e.slug # NoSlug
<1>1. /\ n \in News /\ SlugOf[n] \in Slugs /\ MinReadSeconds[n] \in Nat
      /\ m.reader_token \in Users /\ SlugOf[n] # NoSlug
  BY MessageType, FoundNews
<1>2. now \in Nat
  BY DEF TypeOK
<1>3. /\ e.end_time_valid = now + MinReadSeconds[n]
      /\ e.slug = SlugOf[n] /\ e.reader_token = m.reader_token
  <2>1. e = NewReader(m, SlugOf[n], now + MinReadSeconds[n])
    BY TrackType
  <2> DEFINE end == now + MinReadSeconds[n]
  <2>2. /\ NewReader(m, SlugOf[n], end).end_time_valid = end
        /\ NewReader(m, SlugOf[n], end).slug = SlugOf[n]
        /\ NewReader(m, SlugOf[n], end).reader_token = m.reader_token
    BY NewReaderFields
  <2> QED
    BY <2>1, <2>2
<1>4. n \in Finds(SlugOf[n])
  BY <1>1 DEF Finds
<1>5. /\ firstTracked'[<<SlugOf[n], m.reader_token>>] \in Nat
      /\ firstTracked'[<<SlugOf[n], m.reader_token>>] <= now
  BY <1>1, TrackingAssumption, TrackType
<1>6. firstTracked'[<<SlugOf[n], m.reader_token>>] + MinReadSeconds[n] <= now + MinReadSeconds[n]
  BY <1>1, <1>2, <1>5
<1> QED
  BY <1>1, <1>2, <1>3, <1>4, <1>6 DEF TimeToReadNext

\* What one step does to one entry, as far as the time goes.
SameTime(d, e) ==
  /\ d # NoReader
  /\ e.end_time_valid = d.end_time_valid
  /\ e.slug = d.slug /\ e.reader_token = d.reader_token

Opened(h, n, r) ==
  /\ JoinTrack(h) /\ job[h].msg \in JoinMsg /\ n \in Finds(job[h].msg.slug)
  /\ Track(job[h].msg, n)
  /\ r = RoomId(job[h].msg)

LEMMA EntryChange ==
  ASSUME TypeOK, [Next]_vars, NEW r \in Rooms, reader'[r] # NoReader
  PROVE  \/ SameTime(reader[r], reader'[r])
         \/ \E h \in Handlers, n \in News : Opened(h, n, r)
         \/ reader'[r].slug = NoSlug /\ NonceKeys # {}
<1> DEFINE Goal == \/ SameTime(reader[r], reader'[r])
                   \/ \E h \in Handlers, n \in News : Opened(h, n, r)
                   \/ reader'[r].slug = NoSlug /\ NonceKeys # {}
<1>1. ASSUME NEW h \in Handlers, JoinTrack(h) PROVE Goal
  <2>1. job[h].msg \in JoinMsg
    BY <1>1, JobFields DEF JoinTrack, JoinSteps
  <2>2. PICK n \in Finds(job[h].msg.slug) : Track(job[h].msg, n)
    BY <1>1 DEF JoinTrack
  <2>3. CASE r = RoomId(job[h].msg)
    BY <1>1, <2>1, <2>2, <2>3, MessageType, FoundNews DEF Opened
  <2>4. CASE r # RoomId(job[h].msg)
    BY <2>1, <2>2, <2>4, TrackType DEF SameTime
  <2> QED
    BY <2>3, <2>4
<1>2. ASSUME NEW h \in Handlers, JoinTrackNonce(h) PROVE Goal
  <2>1. job[h].msg \in JoinMsg /\ NonceKeys # {}
    BY <1>2, JobFields DEF JoinTrackNonce, JoinSteps
  <2>2. NewReader(job[h].msg, NoSlug, NaN).slug = NoSlug
    BY Zenon DEF NewReader
  <2>3. reader' = [reader EXCEPT ![RoomId(job[h].msg)] = NewReader(job[h].msg, NoSlug, NaN)]
    BY <1>2 DEF JoinTrackNonce
  <2> HIDE DEF Goal
  <2>4. CASE r = RoomId(job[h].msg)
    BY <2>1, <2>2, <2>3, <2>4 DEF TypeOK, Goal
  <2>5. CASE r # RoomId(job[h].msg)
    BY <2>3, <2>5 DEF TypeOK, SameTime, Goal
  <2> QED
    BY <2>4, <2>5
<1>3. ASSUME NEW q \in Rooms, NEW v \in ScrollValues, TrackingScroll(q, v) PROVE Goal
  <2>1. reader' = [reader EXCEPT ![q] = [@ EXCEPT !.tracking_scroll = v]]
    BY <1>3 DEF TrackingScroll
  <2>2. reader[q] \in ReaderType
    BY <1>3 DEF TrackingScroll, TypeOK
  <2> QED
    BY <1>3, <2>1, <2>2 DEF TrackingScroll, TypeOK, ReaderType, SameTime
<1>4. ASSUME NEW q \in Rooms, NEW b \in FlagValues,
             TrackingNextTab(q, b) \/ TrackingUnfocused(q, b)
      PROVE  Goal
  <2>1. \/ reader' = [reader EXCEPT ![q] = [@ EXCEPT !.tracking_next_tab = b]]
        \/ reader' = [reader EXCEPT ![q] = [@ EXCEPT !.tracking_unfocused = b]]
    BY <1>4 DEF TrackingNextTab, TrackingUnfocused
  <2>2. reader[q] \in ReaderType /\ reader[q] # NoReader
    BY <1>4 DEF TrackingNextTab, TrackingUnfocused, TypeOK
  <2> QED
    BY <2>1, <2>2 DEF TypeOK, ReaderType, SameTime
<1>5. ASSUME reader' = reader \/ Restart \/ \E s \in Sockets, q \in Rooms : Unsubcribe(s, q)
      PROVE  Goal
  BY <1>5 DEF Restart, Unsubcribe, TypeOK, SameTime
<1>6. \/ \E h \in Handlers : JoinTrack(h) \/ JoinTrackNonce(h)
      \/ \E q \in Rooms, v \in ScrollValues : TrackingScroll(q, v)
      \/ \E q \in Rooms, b \in FlagValues : TrackingNextTab(q, b) \/ TrackingUnfocused(q, b)
      \/ reader' = reader \/ Restart \/ \E s \in Sockets, q \in Rooms : Unsubcribe(s, q)
  BY DEF EnterRoom, WriteStatus, AwaitUpdate, Next, Serving, Submits, Leaves, JoinResume, SubmitResume,
    JoinRoom, JoinReturn, JoinMissing, JoinCreate, JoinCreateLost, JoinFail,
    Submit, SubmitCheck, SubmitRefused, SubmitUpdate, SubmitUpdateLost, SubmitFail,
    Tick, Disconnect, vars, memoryVars
<1> QED
  BY <1>1, <1>2, <1>3, <1>4, <1>5, <1>6

\* JobKind after the step.
LEMMA JobKindNext ==
  ASSUME TypeOK', NEW h \in Handlers
  PROVE  /\ job'[h].step = "submit_find" => job'[h] \in FindJob
         /\ job'[h].step = "submit_update" => job'[h] \in UpdateJob
<1>1. job'[h] \in JoinJob \cup CreateJob \cup FindJob \cup UpdateJob \cup {Idle}
  BY DEF TypeOK, JobType
<1>2. /\ job'[h] \in JoinJob => job'[h].step \in {"join_news", "join_find"}
      /\ job'[h] \in CreateJob => job'[h].step = "join_create"
      /\ job'[h] \in FindJob => job'[h].step = "submit_find"
      /\ job'[h] \in UpdateJob => job'[h].step = "submit_update"
      /\ job'[h] = Idle => job'[h].step = "idle"
  BY DEF JoinJob, CreateJob, FindJob, UpdateJob, Idle
<1> QED
  BY <1>1, <1>2

LEMMA ReadTimeStep == TypeOK /\ ReadTimeInv /\ [Next]_vars => ReadTimeInv'
<1> SUFFICES ASSUME TypeOK, ReadTimeInv, [Next]_vars PROVE ReadTimeInv'
  OBVIOUS
<1>0. TypeOK'
  BY TypeStep
<1>t. now \in Nat /\ now' \in Nat /\ now <= now'
  BY TimeStep
<1>1. ASSUME NEW r \in Rooms, reader'[r] # NoReader, reader'[r].slug # NoSlug
      PROVE  /\ reader'[r].end_time_valid \in Nat
             /\ TimeToReadNext(reader'[r].slug, reader'[r].reader_token,
                               reader'[r].end_time_valid)
  <2>1. CASE SameTime(reader[r], reader'[r])
    <3>1. EntryTimed(reader[r])
      BY <2>1 DEF ReadTimeInv, SameTime
    <3>2. reader'[r] \in ReaderType
      BY <1>0, <1>1 DEF TypeOK
    <3>3. reader'[r].slug \in Slugs /\ reader'[r].reader_token \in Users
      BY <1>1, <3>2 DEF ReaderType, AnySlug
    <3>4. /\ reader'[r].end_time_valid \in Nat
          /\ TimeToRead(reader'[r].slug, reader'[r].reader_token, reader'[r].end_time_valid)
      BY <1>1, <2>1, <3>1 DEF SameTime, EntryTimed
    <3>5. reader'[r].end_time_valid <= reader'[r].end_time_valid
      BY <3>4
    <3> QED
      BY <3>3, <3>4, <3>5, TimeKept
  <2>2. ASSUME NEW h \in Handlers, NEW n \in News, Opened(h, n, r)
        PROVE  /\ reader'[r].end_time_valid \in Nat
               /\ TimeToReadNext(reader'[r].slug, reader'[r].reader_token,
                                 reader'[r].end_time_valid)
    BY <2>2, TrackTimed DEF Opened
  <2> QED
    BY <1>1, <2>1, <2>2, EntryChange
<1>2. ASSUME NEW h \in Handlers, job'[h].step = "submit_find",
             job'[h].slug # NoSlug, job'[h].verdict = "success"
      PROVE  TimeToReadNext(job'[h].slug, job'[h].user, now')
  <2>1. job'[h] \in FindJob
    BY <1>0, <1>2, JobKindNext
  <2>2. job'[h].slug \in Slugs /\ job'[h].user \in Users
    BY <1>2, <2>1 DEF FindJob, AnySlug
  <2>3. CASE job'[h] = job[h]
    <3>1. TimeToRead(job'[h].slug, job'[h].user, now)
      BY <1>2, <2>3 DEF ReadTimeInv, FindTimed
    <3> QED
      BY <1>t, <2>2, <3>1, TimeKept
  <2>4. ASSUME NEW r \in Rooms, Taken(h, r)
        PROVE  TimeToReadNext(job'[h].slug, job'[h].user, now')
    <3>1. reader[r] # NoReader
      BY <2>4 DEF Taken, Submit
    <3>2. /\ job'[h].slug = reader[r].slug /\ job'[h].user = reader[r].reader_token
          /\ Verdict(reader[r]) = "success"
      BY <1>2, <2>4 DEF Taken
    <3>3. /\ reader[r].end_time_valid \in Nat
          /\ TimeToRead(job'[h].slug, job'[h].user, reader[r].end_time_valid)
      BY <1>2, <3>1, <3>2 DEF ReadTimeInv, EntryTimed
    <3>4. ~TooEarly(reader[r])
      BY <3>2 DEF Verdict
    <3>5. ~(now < reader[r].end_time_valid)
      BY <3>3, <3>4, TrackingAssumption DEF TooEarly
    <3>6. reader[r].end_time_valid <= now'
      BY <1>t, <3>3, <3>5
    <3> QED
      BY <1>t, <2>2, <3>3, <3>6, TimeKept
  <2>5. /\ job'[h] # Idle /\ job'[h] \notin JoinJob \cup CreateJob
        /\ \A k \in ClaimKeys : ~Checked(h, k)
    BY <1>2 DEF Idle, JoinJob, CreateJob, Checked
  <2> QED
    BY <2>3, <2>4, <2>5, JobChange
<1>3. ASSUME NEW h \in Handlers, job'[h].step = "submit_update", job'[h].slug # NoSlug
      PROVE  /\ job'[h].slug = SlugOf[job'[h].claim[1]]
             /\ job'[h].verdict = "success" =>
                  TimeToReadNext(job'[h].slug, job'[h].claim[2], now')
  <2>1. job'[h] \in UpdateJob
    BY <1>0, <1>3, JobKindNext
  <2>2. job'[h].slug \in Slugs /\ job'[h].claim[2] \in Users
    BY <1>3, <2>1 DEF UpdateJob, AnySlug, ClaimKeys
  <2>3. CASE job'[h] = job[h]
    <3>1. UpdateTimed(job[h])
      BY <1>3, <2>3 DEF ReadTimeInv
    <3>2. ASSUME job'[h].verdict = "success"
          PROVE  TimeToReadNext(job'[h].slug, job'[h].claim[2], now')
      <4>1. TimeToRead(job'[h].slug, job'[h].claim[2], now)
        BY <1>3, <2>3, <3>1, <3>2 DEF UpdateTimed
      <4> QED
        BY <1>t, <2>2, <4>1, TimeKept
    <3> QED
      BY <1>3, <2>3, <3>1, <3>2 DEF UpdateTimed
  <2>4. ASSUME NEW k \in ClaimKeys, Checked(h, k)
        PROVE  /\ job'[h].slug = SlugOf[job'[h].claim[1]]
               /\ job'[h].verdict = "success" =>
                    TimeToReadNext(job'[h].slug, job'[h].claim[2], now')
    <3>1. /\ job[h].step = "submit_find" /\ k \in Candidates(h)
          /\ job'[h].slug = job[h].slug /\ job'[h].claim = k
          /\ job'[h].verdict = job[h].verdict
      BY <2>4 DEF Checked
    <3>2. k[2] = job[h].user /\ SlugOf[k[1]] = job[h].slug
      BY <1>3, <3>1, CandidateType
    <3>3. ASSUME job'[h].verdict = "success"
          PROVE  TimeToReadNext(job'[h].slug, job'[h].claim[2], now')
      <4>1. TimeToRead(job'[h].slug, job'[h].claim[2], now)
        BY <1>3, <3>1, <3>2, <3>3 DEF ReadTimeInv, FindTimed
      <4> QED
        BY <1>t, <2>2, <4>1, TimeKept
    <3> QED
      BY <3>1, <3>2, <3>3
  <2>5. /\ job'[h] # Idle /\ job'[h] \notin JoinJob \cup CreateJob
        /\ \A r \in Rooms : ~Taken(h, r)
    BY <1>3 DEF Idle, JoinJob, CreateJob, Taken
  <2> QED
    BY <2>3, <2>4, <2>5, JobChange
<1>4. ASSUME NEW k \in ClaimKeys, StatusIs(k, "success")', k \notin strayed'
      PROVE  TimeToReadNext(SlugOf[k[1]], k[2], now')
  <2>0. SlugOf[k[1]] \in Slugs /\ k[2] \in Users
    BY TrackingAssumption DEF ClaimKeys
  <2>1. CASE user_claim_news'[k] = user_claim_news[k] /\ k \notin strayed
    <3>1. StatusIs(k, "success")
      BY <1>4, <2>1 DEF StatusIs, Exists
    <3>2. TimeToRead(SlugOf[k[1]], k[2], now)
      BY <2>1, <3>1 DEF ReadTimeInv, SuccessNotBeforeReadTime
    <3> QED
      BY <1>t, <2>0, <3>2, TimeKept
  <2>2. ASSUME NEW h \in Handlers, NEW id \in Nanoids,
               job[h].step = "join_create", InsertRow(job[h].claim, id),
               strayed' = strayed
        PROVE  user_claim_news'[k] = user_claim_news[k] /\ k \notin strayed
    <3>1. PICK c \in ClaimKeys : c = job[h].claim
      BY <2>2, JobFields
    <3>2. c # k
      <4>1. user_claim_news'[c] =
              [transaction_id |-> id, status |-> "pending", token_earned |-> 0]
        BY <2>2, <3>1, InsertType
      <4>2. user_claim_news'[c].status = "pending"
        BY <4>1
      <4> QED
        BY <1>4, <4>2 DEF StatusIs
    <3> QED
      BY <1>4, <2>2, <3>1, <3>2, InsertType
  <2>3. ASSUME NEW h \in Handlers,
               job[h].step = "submit_update", UpdateStatus(job[h].claim, job[h].verdict),
               strayed' = IF job[h].slug = NoSlug
                          THEN strayed \cup {job[h].claim} ELSE strayed \ {job[h].claim}
        PROVE  TimeToReadNext(SlugOf[k[1]], k[2], now')
    <3>1. job[h].claim \in ClaimKeys /\ job[h].verdict \in Verdicts
      BY <2>3, JobFields
    <3>2. CASE job[h].claim # k
      <4>1. user_claim_news'[k] = user_claim_news[k] /\ k \notin strayed
        BY <1>4, <2>3, <3>1, <3>2, UpdateType
      <4> QED
        BY <2>1, <4>1
    <3>3. CASE job[h].claim = k
      <4>1. job[h].slug # NoSlug
        BY <1>4, <2>3, <3>3
      <4>2. user_claim_news[k] \in Row
        BY <2>3, <3>3, RowType DEF UpdateStatus
      <4>3. user_claim_news'[k] = [user_claim_news[k] EXCEPT !.status = job[h].verdict]
        BY <2>3, <3>1, <3>3, UpdateType
      <4>4. job[h].verdict = "success"
        BY <1>4, <4>2, <4>3 DEF Row, StatusIs
      <4>5. TimeToRead(SlugOf[k[1]], k[2], now)
        BY <2>3, <3>3, <4>1, <4>4 DEF ReadTimeInv, UpdateTimed
      <4> QED
        BY <1>t, <2>0, <4>5, TimeKept
    <3> QED
      BY <3>2, <3>3
  <2> QED
    BY <1>4, <2>1, <2>2, <2>3, TableChange
<1>5. \A r \in Rooms : reader'[r] # NoReader => EntryTimed(reader[r])'
  BY <1>1 DEF EntryTimed, TimeToRead, TimeToReadNext
<1>6. \A h \in Handlers : job'[h].step = "submit_find" => FindTimed(job[h])'
  BY <1>2 DEF FindTimed, TimeToRead, TimeToReadNext
<1>7. \A h \in Handlers : job'[h].step = "submit_update" => UpdateTimed(job[h])'
  BY <1>3 DEF UpdateTimed, TimeToRead, TimeToReadNext
<1>8. SuccessNotBeforeReadTime'
  BY <1>4 DEF SuccessNotBeforeReadTime, TimeToRead, TimeToReadNext
<1> QED
  BY <1>5, <1>6, <1>7, <1>8 DEF ReadTimeInv

(***************************************************************************)
(* No claim is a success before its reader had the time to read, whatever  *)
(* the order of messages, handlers, failures and restarts, except by the   *)
(* verdict of an entry that a cached nonce has left without a slug.        *)
(***************************************************************************)
THEOREM SuccessTakesReadTime == Spec => []SuccessNotBeforeReadTime
<1>1. Init => ReadTimeInv
  BY DEF Init, TableInit, ReadTimeInv, SuccessNotBeforeReadTime, StatusIs, Exists, Idle
<1>2. TypeOK /\ ReadTimeInv /\ [Next]_vars => ReadTimeInv'
  BY ReadTimeStep
<1>3. ReadTimeInv => SuccessNotBeforeReadTime
  BY DEF ReadTimeInv
<1> QED
  BY <1>1, <1>2, <1>3, TypeCorrect, PTL DEF Spec

--------------------------------------------------------------------------------
(* Without nonces under the slugs *)

LEMMA StrayStep == TypeOK /\ NothingStrays /\ [Next]_vars => NothingStrays'
<1> SUFFICES ASSUME TypeOK, NothingStrays, [Next]_vars, NonceKeys = {}
             PROVE  /\ strayed' = {}
                    /\ \A r \in Rooms : reader'[r] # NoReader => reader'[r].slug # NoSlug
                    /\ \A h \in Handlers :
                         job'[h].step \in SubmitSteps => job'[h].slug # NoSlug
  BY DEF NothingStrays, Submitting
<1>0. /\ strayed = {}
      /\ \A r \in Rooms : reader[r] # NoReader => reader[r].slug # NoSlug
      /\ \A h \in Handlers : job[h].step \in SubmitSteps => job[h].slug # NoSlug
  BY DEF NothingStrays, Submitting
<1>1. strayed' = {}
  <2>1. ASSUME NEW h \in Handlers, job[h].step = "submit_update",
               strayed' = IF job[h].slug = NoSlug
                          THEN strayed \cup {job[h].claim} ELSE strayed \ {job[h].claim}
        PROVE  strayed' = {}
    BY <1>0, <2>1 DEF SubmitSteps
  <2> QED
    BY <1>0, <2>1, TableChange
<1>2. ASSUME NEW r \in Rooms, reader'[r] # NoReader PROVE reader'[r].slug # NoSlug
  <2>1. ASSUME NEW h \in Handlers, NEW n \in News, Opened(h, n, r)
        PROVE  reader'[r].slug # NoSlug
    BY <2>1, TrackTimed DEF Opened
  <2>2. CASE SameTime(reader[r], reader'[r])
    BY <1>0, <2>2 DEF SameTime
  <2> QED
    BY <1>2, <2>1, <2>2, EntryChange
<1>3. ASSUME NEW h \in Handlers, job'[h].step \in SubmitSteps PROVE job'[h].slug # NoSlug
  <2>1. CASE job'[h] = job[h]
    BY <1>0, <1>3, <2>1
  <2>2. ASSUME NEW r \in Rooms, Taken(h, r) PROVE job'[h].slug # NoSlug
    BY <1>0, <2>2 DEF Taken, Submit
  <2>3. ASSUME NEW k \in ClaimKeys, Checked(h, k) PROVE job'[h].slug # NoSlug
    BY <1>0, <2>3 DEF Checked, SubmitSteps
  <2>4. job'[h] # Idle /\ job'[h] \notin JoinJob \cup CreateJob
    BY <1>3 DEF Idle, JoinJob, CreateJob, SubmitSteps
  <2> QED
    BY <2>1, <2>2, <2>3, <2>4, JobChange
<1> QED
  BY <1>1, <1>2, <1>3

(***************************************************************************)
(* While no nonce is under a slug, nothing comes under the exception of    *)
(* SuccessTakesReadTime: then every success took the time to read.         *)
(***************************************************************************)
THEOREM NoNonceNoStray ==
  Spec => [](NothingStrays /\ SuccessNotBeforeReadTime)
<1>1. Init => NothingStrays
  BY DEF Init, NothingStrays, Submitting, Idle, SubmitSteps
<1>2. TypeOK /\ NothingStrays /\ [Next]_vars => NothingStrays'
  BY StrayStep
<1> QED
  BY <1>1, <1>2, TypeCorrect, SuccessTakesReadTime, PTL DEF Spec

================================================================================
