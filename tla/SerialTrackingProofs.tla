------------------------- MODULE SerialTrackingProofs --------------------------
(***************************************************************************)
(* Proofs that the gateway, with pages that submit one claim at a time,    *)
(* implements ClaimLifecycle.                                              *)
(***************************************************************************)
EXTENDS SerialTracking, ReadTrackingProofs

(***************************************************************************)
(* SerialSubmits is asked of the pages when they submit, and kept by the   *)
(* gateway (SerialKept).  UpdateMeetsPending carries the status read by    *)
(* SubmitCheck to the update; that nobody was told a verdict on a claim    *)
(* that is not decided follows from the last conjunct.                     *)
(***************************************************************************)
SerialInv ==
  TypeOK /\ SerialSubmits /\ UpdateMeetsPending /\ ReportedVerdictStands

--------------------------------------------------------------------------------
\* What a step does to the rows and to what readers were told.
LEMMA ClaimStep ==
  ASSUME [Next]_vars
  PROVE  \/ user_claim_news' = user_claim_news /\ reported' = reported
         \/ \E h \in Handlers, id \in Nanoids :
              /\ job[h].step = "join_create"
              /\ InsertRow(job[h].claim, id)
              /\ reported' = reported
         \/ \E h \in Handlers :
              /\ job[h].step = "submit_update"
              /\ UpdateStatus(job[h].claim, job[h].verdict)
              /\ Finish(h)
              /\ \/ reported' =
                      [reported EXCEPT ![job[h].claim] = @ \cup {job[h].verdict}]
                 \/ reported' = reported
  BY DEF WriteStatus, AwaitUpdate, Next, Serving, Submits, Leaves, JoinResume, SubmitResume, JoinRoom,
    JoinTrack, JoinTrackNonce, JoinReturn, JoinMissing, JoinCreate, JoinCreateLost, JoinFail, EnterRoom,
    TrackingScroll, TrackingNextTab, TrackingUnfocused, Unsubcribe, Submit,
    SubmitCheck, SubmitRefused, SubmitUpdate, SubmitUpdateLost, SubmitFail, Tick,
    Disconnect, Restart, vars, historyVars

\* The row of a pending claim after its update.
LEMMA DecidedRow ==
  ASSUME TypeOK, NEW c \in ClaimKeys, NEW v \in Verdicts, UpdateStatus(c, v)
  PROVE  /\ StatusIs(c, v)'
         /\ user_claim_news'[c].status = v
         /\ user_claim_news'[c].transaction_id = user_claim_news[c].transaction_id
         /\ Exists(c)
<1>1. user_claim_news'[c] = [user_claim_news[c] EXCEPT !.status = v] /\ Exists(c)
  BY UpdateType
<1>2. user_claim_news[c] \in Row
  BY <1>1, RowType
<1>3. /\ user_claim_news'[c] \in Row
      /\ user_claim_news'[c].status = v
      /\ user_claim_news'[c].transaction_id = user_claim_news[c].transaction_id
  BY <1>1, <1>2 DEF Row, Verdicts, ClaimStatus
<1>4. Exists(c)'
  BY <1>3, NoRowAssumption DEF Exists
<1> QED
  BY <1>1, <1>3, <1>4 DEF StatusIs

\* A SUBMIT in flight never gets more to decide, so only a new one can meet
\* another.
LEMMA SerialKept ==
  SerialInv /\ SerialNext => SerialSubmits' /\ Next
<1> SUFFICES ASSUME SerialInv, SerialNext PROVE SerialSubmits' /\ Next
  OBVIOUS
<1>1. Next
  BY DEF SerialNext, Next
<1>2. ASSUME Serving \/ Leaves, NEW g \in Handlers, Submitting(g)'
      PROVE  Submitting(g) /\ MayDecide(g)' \subseteq MayDecide(g)
  <2>1. job'[g] # Idle /\ job'[g] \notin JoinJob \cup CreateJob
    BY <1>2 DEF Submitting, SubmitSteps, Idle, JoinJob, CreateJob
  <2>2. CASE job'[g] = job[g]
    BY <1>2, <2>2 DEF Submitting, MayDecide, Candidates
  <2>3. ASSUME NEW k \in ClaimKeys, Checked(g, k)
        PROVE  Submitting(g) /\ MayDecide(g)' \subseteq MayDecide(g)
    BY <2>3 DEF Checked, Submitting, SubmitSteps, MayDecide
  <2> QED
    BY <1>2, <2>1, <2>2, <2>3, ServedJobs DEF SerialInv
<1>3. ASSUME Serving \/ Leaves PROVE SerialSubmits'
  <2>1. SUFFICES ASSUME NEW g \in Handlers, NEW h \in Handlers,
                        Submitting(g)', Submitting(h)', NEW k \in MayDecide(g)',
                        k \in MayDecide(h)'
                 PROVE  g = h
    BY DEF SerialSubmits
  <2>2. Submitting(g) /\ Submitting(h) /\ k \in MayDecide(g) /\ k \in MayDecide(h)
    BY <1>2, <1>3, <2>1
  <2> QED
    BY <2>2 DEF SerialInv, SerialSubmits
<1> QED
  BY <1>1, <1>3 DEF SerialNext

LEMMA UpdateMeetsPendingStep ==
  SerialInv /\ SerialNext => UpdateMeetsPending'
<1> SUFFICES ASSUME SerialInv, SerialNext,
                    NEW h \in Handlers, job'[h].step = "submit_update"
             PROVE  StatusIs(job[h].claim, "pending")'
  BY DEF UpdateMeetsPending
<1> USE DEF SerialInv
<1>1. [Next]_vars
  BY SerialKept
<1>2. CASE job'[h] = job[h]
  <2>1. PICK c \in ClaimKeys : c = job[h].claim
    BY <1>2, JobFields
  <2>2. StatusIs(c, "pending")
    BY <1>2, <2>1 DEF UpdateMeetsPending
  <2>3. user_claim_news'[c] = user_claim_news[c]
    <3>1. ASSUME NEW g \in Handlers, NEW id \in Nanoids,
                 job[g].step = "join_create", InsertRow(job[g].claim, id)
          PROVE  user_claim_news'[c] = user_claim_news[c]
      <4>1. PICK k \in ClaimKeys : k = job[g].claim
        BY <3>1, JobFields
      <4>2. k # c
        BY <2>2, <3>1, <4>1 DEF InsertRow, StatusIs
      <4> QED
        BY <3>1, <4>1, <4>2, InsertType
    <3>2. ASSUME NEW g \in Handlers, job[g].step = "submit_update",
                 UpdateStatus(job[g].claim, job[g].verdict), Finish(g)
          PROVE  user_claim_news'[c] = user_claim_news[c]
      <4>1. job[g].claim \in ClaimKeys /\ job[g].verdict \in Verdicts
        BY <3>2, JobFields
      <4>2. g # h
        BY <1>2, <3>2, FinishType DEF Idle
      <4>3. job[g].claim # c
        BY <1>2, <2>1, <3>2, <4>2 DEF SerialSubmits, Submitting, SubmitSteps, MayDecide
      <4> QED
        BY <3>2, <4>1, <4>3, UpdateType
    <3> QED
      BY <1>1, <3>1, <3>2, ClaimStep
  <2>4. StatusIs(c, "pending")'
    BY <2>2, <2>3 DEF StatusIs, Exists
  <2> QED
    BY <1>2, <2>1, <2>4 DEF StatusIs, Exists
<1>3. job'[h] # Idle /\ job'[h] \notin JoinJob \cup CreateJob
  BY DEF Idle, JoinJob, CreateJob
<1>4. ASSUME NEW r \in Rooms, Taken(h, r) PROVE FALSE
  BY <1>4 DEF Taken
<1>5. ASSUME NEW k \in ClaimKeys, Checked(h, k) PROVE StatusIs(job[h].claim, "pending")'
  <2>1. job'[h].claim = k
    BY <1>5 DEF Checked
  <2> QED
    BY <1>5, <2>1 DEF Checked, StatusIs, Exists
<1> QED
  BY <1>1, <1>2, <1>3, <1>4, <1>5, JobChange

LEMMA ReportedStep ==
  SerialInv /\ SerialNext => ReportedVerdictStands'
<1> SUFFICES ASSUME SerialInv, SerialNext,
                    NEW k \in ClaimKeys, NEW v \in reported'[k]
             PROVE  StatusIs(k, v)'
  BY DEF ReportedVerdictStands
<1> USE DEF SerialInv
<1>1. [Next]_vars
  BY SerialKept
<1>2. CASE user_claim_news' = user_claim_news /\ reported' = reported
  BY <1>2 DEF ReportedVerdictStands, StatusIs, Exists
<1>3. ASSUME NEW h \in Handlers, NEW id \in Nanoids, job[h].step = "join_create",
             InsertRow(job[h].claim, id), reported' = reported
      PROVE  StatusIs(k, v)'
  <2>1. PICK c \in ClaimKeys : c = job[h].claim
    BY <1>3, JobFields
  <2>2. StatusIs(k, v)
    BY <1>3 DEF ReportedVerdictStands
  <2>3. c # k
    BY <1>3, <2>1, <2>2 DEF InsertRow, StatusIs
  <2>4. user_claim_news'[k] = user_claim_news[k]
    BY <1>3, <2>1, <2>3, InsertType
  <2> QED
    BY <2>2, <2>4 DEF StatusIs, Exists
<1>4. ASSUME NEW h \in Handlers, job[h].step = "submit_update",
             UpdateStatus(job[h].claim, job[h].verdict),
             \/ reported' = [reported EXCEPT ![job[h].claim] = @ \cup {job[h].verdict}]
             \/ reported' = reported
      PROVE  StatusIs(k, v)'
  <2>1. PICK c \in ClaimKeys, w \in Verdicts : c = job[h].claim /\ w = job[h].verdict
    BY <1>4, JobFields
  <2>2. StatusIs(c, "pending")
    BY <1>4, <2>1 DEF UpdateMeetsPending
  <2>3. CASE k # c
    <3>1. v \in reported[k]
      BY <1>4, <2>1, <2>3 DEF TypeOK
    <3>2. StatusIs(k, v)
      BY <3>1 DEF ReportedVerdictStands
    <3>3. user_claim_news'[k] = user_claim_news[k]
      BY <1>4, <2>1, <2>3, UpdateType
    <3> QED
      BY <3>2, <3>3 DEF StatusIs, Exists
  <2>4. CASE k = c
    <3>1. v \notin reported[c]
      <4>1. SUFFICES ASSUME v \in reported[c] PROVE FALSE
        OBVIOUS
      <4>2. StatusIs(c, v) /\ v \in Verdicts
        BY <4>1 DEF ReportedVerdictStands, TypeOK
      <4> QED
        BY <2>2, <4>2 DEF StatusIs, Verdicts
    <3>2. v = w
      BY <1>4, <2>1, <2>4, <3>1 DEF TypeOK
    <3>3. StatusIs(c, w)'
      BY <1>4, <2>1, DecidedRow
    <3> QED
      BY <2>4, <3>2, <3>3
  <2> QED
    BY <2>3, <2>4
<1> QED
  BY <1>1, <1>2, <1>3, <1>4, ClaimStep

LEMMA SerialStep == SerialInv /\ [SerialNext]_vars => SerialInv'
<1>1. ASSUME SerialInv, SerialNext PROVE SerialInv'
  <2>1. TypeOK'
    BY <1>1, SerialKept, TypeStep DEF SerialInv
  <2> QED
    BY <1>1, <2>1, SerialKept, UpdateMeetsPendingStep, ReportedStep DEF SerialInv
<1>2. ASSUME SerialInv, UNCHANGED vars PROVE SerialInv'
  BY <1>2
  DEF SerialInv, TypeOK, TableTypeOK, SerialSubmits, Submitting, MayDecide, Candidates,
    UpdateMeetsPending,
    ReportedVerdictStands, StatusIs, Exists, vars, memoryVars, historyVars
<1> QED
  BY <1>1, <1>2

LEMMA SerialInvariant == SerialSpec => []SerialInv
<1>1. Init => TypeOK
  BY TrackingAssumption DEF Init, TableInit, TypeOK, TableTypeOK, JobType
<1>2. Init => SerialInv
  BY <1>1 DEF Init, SerialInv, SerialSubmits, Submitting, UpdateMeetsPending,
    ReportedVerdictStands, Idle, SubmitSteps
<1>3. SerialInv /\ [SerialNext]_vars => SerialInv'
  BY SerialStep
<1> QED
  BY <1>2, <1>3, PTL DEF SerialSpec

(***************************************************************************)
(* A handler that is about to store its verdict finds the claim pending.   *)
(***************************************************************************)
THEOREM UpdatesMeetPending == SerialSpec => []UpdateMeetsPending
<1>1. SerialInv => UpdateMeetsPending
  BY DEF SerialInv
<1> QED
  BY <1>1, SerialInvariant, PTL

(***************************************************************************)
(* A verdict that a reader was told is the one stored, from then on.       *)
(***************************************************************************)
THEOREM ReportedStands == SerialSpec => []ReportedVerdictStands
<1>1. SerialInv => ReportedVerdictStands
  BY DEF SerialInv
<1> QED
  BY <1>1, SerialInvariant, PTL

--------------------------------------------------------------------------------
(* Refinement *)

LEMMA AbstractInit == Init => Abstract!Init
<1> SUFFICES ASSUME Init PROVE Abstract!Init
  OBVIOUS
<1>1. \A k \in ClaimKeys : ~Exists(k)
  BY DEF Init, TableInit, Exists
<1> QED
  BY <1>1 DEF Init, Abstract!Init, Phase, RowIds

LEMMA AbstractStep == SerialInv /\ [SerialNext]_vars => [Abstract!Next]_(Abstract!vars)
<1> SUFFICES ASSUME SerialInv, [SerialNext]_vars PROVE [Abstract!Next]_(Abstract!vars)
  OBVIOUS
<1>0. [Next]_vars /\ TypeOK
  BY SerialKept DEF SerialInv
<1>1. CASE user_claim_news' = user_claim_news /\ reported' = reported
  <2>1. Phase' = Phase /\ RowIds' = RowIds
    BY <1>1 DEF Phase, RowIds, Exists
  <2> QED
    BY <1>1, <2>1 DEF Abstract!vars
<1>2. ASSUME NEW h \in Handlers, NEW id \in Nanoids, job[h].step = "join_create",
             InsertRow(job[h].claim, id), reported' = reported
      PROVE  Abstract!Next
  <2>1. PICK c \in ClaimKeys : c = job[h].claim
    BY <1>0, <1>2, JobFields
  <2>2. /\ ~Exists(c)
        /\ user_claim_news'[c] =
             [transaction_id |-> id, status |-> "pending", token_earned |-> 0]
        /\ user_claim_news'[c] \in Row
        /\ \A k \in ClaimKeys : k # c => user_claim_news'[k] = user_claim_news[k]
    BY <1>0, <1>2, <2>1, InsertType
  <2>3. /\ Exists(c)'
        /\ user_claim_news'[c].transaction_id = id
        /\ user_claim_news'[c].status = "pending"
    BY <2>2, NoRowAssumption DEF Exists
  <2>4. \A k \in ClaimKeys : k # c => (Exists(k)' <=> Exists(k))
    BY <2>2 DEF Exists
  <2>5. Phase[c] = "none"
    BY <2>2 DEF Phase
  <2>6. Phase' = [Phase EXCEPT ![c] = "pending"]
    BY <2>2, <2>3, <2>4 DEF Phase
  <2>7. RowIds' = [RowIds EXCEPT ![c] = {id}]
    BY <2>2, <2>3, <2>4 DEF RowIds
  <2>8. Abstract!Open(c, id)
    BY <1>2, <2>5, <2>6, <2>7 DEF Abstract!Open
  <2> QED
    BY <2>8 DEF Abstract!Next
<1>3. ASSUME NEW h \in Handlers, job[h].step = "submit_update",
             UpdateStatus(job[h].claim, job[h].verdict),
             \/ reported' = [reported EXCEPT ![job[h].claim] = @ \cup {job[h].verdict}]
             \/ reported' = reported
      PROVE  Abstract!Next
  <2>1. PICK c \in ClaimKeys, v \in Verdicts : c = job[h].claim /\ v = job[h].verdict
    BY <1>0, <1>3, JobFields
  <2>2. Exists(c) /\ user_claim_news[c].status = "pending"
    BY <1>3, <2>1 DEF SerialInv, UpdateMeetsPending, StatusIs
  <2>3. /\ Exists(c)'
        /\ user_claim_news'[c].status = v
        /\ user_claim_news'[c].transaction_id = user_claim_news[c].transaction_id
    BY <1>0, <1>3, <2>1, DecidedRow DEF StatusIs
  <2>4. \A k \in ClaimKeys : k # c => user_claim_news'[k] = user_claim_news[k]
    BY <1>0, <1>3, <2>1, UpdateType
  <2>5. \A k \in ClaimKeys : k # c => (Exists(k)' <=> Exists(k))
    BY <2>4 DEF Exists
  <2>6. Phase[c] = "pending"
    BY <2>2 DEF Phase
  <2>7. Phase' = [Phase EXCEPT ![c] = v]
    BY <2>3, <2>4, <2>5 DEF Phase
  <2>8. RowIds' = RowIds
    BY <2>2, <2>3, <2>4, <2>5 DEF RowIds
  <2>9. Abstract!Settle(c, v)
    BY <1>3, <2>1, <2>6, <2>7, <2>8 DEF Abstract!Settle
  <2>10. v \in Abstract!Verdicts
    BY DEF Verdicts, Abstract!Verdicts
  <2> QED
    BY <2>9, <2>10 DEF Abstract!Next
<1> QED
  BY <1>0, <1>1, <1>2, <1>3, ClaimStep

(***************************************************************************)
(* With one SUBMIT per claim in flight the gateway implements              *)
(* ClaimLifecycle: a claim is opened once, decided once, and announced     *)
(* only as decided, through any failures and restarts.                     *)
(***************************************************************************)
THEOREM GatewayImplementsLifecycle == SerialSpec => ImplementsLifecycle
<1>1. Init => Abstract!Init
  BY AbstractInit
<1>2. SerialInv /\ [SerialNext]_vars => [Abstract!Next]_(Abstract!vars)
  BY AbstractStep
<1> QED
  BY <1>1, <1>2, SerialInvariant, PTL DEF SerialSpec, ImplementsLifecycle, Abstract!Spec
================================================================================
