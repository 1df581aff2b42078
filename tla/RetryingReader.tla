---------------------------- MODULE RetryingReader -----------------------------
(***************************************************************************)
(* Progress of the tracking gateway.                                       *)
(*                                                                         *)
(* What the server gives: an await resolves or rejects in the end, so a    *)
(* handler in flight goes on (weak fairness of its steps; restarts may     *)
(* still end it first).  What the surroundings give: a page that may open  *)
(* the news or submit again and again does so in the end, it stops         *)
(* leaving the news in the end, and a statement that is tried again and    *)
(* again is carried out in the end (strong fairness: the database may fail *)
(* any number of times, but not forever).                                  *)
(***************************************************************************)
EXTENDS ReadTracking

HandlerFairness ==
  \A h \in Handlers : WF_vars(JoinResume(h) \/ SubmitResume(h))

\* What readers read: a slug and the user of the token it is opened with.
Readings == {<<m.slug, m.reader_token>> : m \in JoinMsgs}

\* The handler in flight at h is about this reading.
Serves(h, t) ==
  \/ /\ job[h].step \in JoinSteps
     /\ <<job[h].msg.slug, job[h].msg.reader_token>> = t
  \/ job[h].step = "submit_find" /\ <<job[h].slug, job[h].user>> = t
  \/ job[h].step = "submit_update" /\ <<job[h].slug, job[h].claim[2]>> = t

OpenAgain(t) ==
  \E h \in Handlers, s \in Sockets, m \in JoinMsgs :
    <<m.slug, m.reader_token>> = t /\ JoinRoom(h, s, m)

SubmitAgain(t) ==
  \E h \in Handlers, r \in Rooms :
    /\ reader[r] # NoReader
    /\ <<reader[r].slug, reader[r].reader_token>> = t
    /\ Submit(h, r)

PageFairness ==
  \A t \in Readings : SF_vars(OpenAgain(t)) /\ SF_vars(SubmitAgain(t))

DatabaseFairness ==
  \A t \in Readings :
    LET Attempts == {h \in Handlers : Serves(h, t)}
    IN /\ SF_vars(\E h \in Attempts : JoinTrack(h))
       /\ SF_vars(\E h \in Attempts : JoinReturn(h) \/ JoinMissing(h))
       /\ SF_vars(\E h \in Attempts : JoinCreate(h) \/ JoinCreateLost(h))
       /\ SF_vars(\E h \in Attempts : SubmitCheck(h) \/ SubmitRefused(h))
       /\ SF_vars(\E h \in Attempts : SubmitUpdate(h) \/ SubmitUpdateLost(h))

StaysInTheEnd == <>[][Serving \/ Submits]_vars

FairSpec ==
  Spec /\ HandlerFairness /\ PageFairness /\ DatabaseFairness /\ StaysInTheEnd

(***************************************************************************)
(* A reader who keeps trying gets a verdict stored: no order of failures,  *)
(* lost answers, restarts and messages leaves a claim that can no longer   *)
(* be opened or decided.  Of news with no slug in common: with two under   *)
(* one slug, the look-ups of JOIN_ROOM and of SUBMIT may disagree forever. *)
(***************************************************************************)
EventuallySettled ==
  \A t \in Readings : \A n \in Finds(t[1]) : <>Settled(<<n, t[2]>>)

(***************************************************************************)
(* No handler of a gateway message stays in flight forever.                *)
(***************************************************************************)
HandlersFinish == \A h \in Handlers : job[h] # Idle ~> job[h] = Idle
================================================================================
