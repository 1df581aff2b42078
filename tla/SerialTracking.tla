---------------------------- MODULE SerialTracking -----------------------------
(***************************************************************************)
(* The tracking gateway with pages that never have two SUBMITs for one     *)
(* claim in flight.  Nothing in the server enforces this; the page does,   *)
(* when it sends SUBMIT once and the reader keeps the news open in one     *)
(* page.  Under it the gateway implements ClaimLifecycle; without it the   *)
(* status check of updateStatusUserClaimNews is not enough (SettledOnce).  *)
(* JOIN_ROOMs, failures and restarts stay as free as in ReadTracking.      *)
(***************************************************************************)
EXTENDS ReadTracking

\* The claims a SUBMIT in flight may still decide.
MayDecide(h) ==
  IF job[h].step = "submit_update" THEN {job[h].claim} ELSE Candidates(h)

SerialSubmits ==
  \A g, h \in Handlers :
    Submitting(g) /\ Submitting(h) /\ MayDecide(g) \cap MayDecide(h) # {} => g = h

\* Only the page can break it: a SUBMIT in flight never gets more to decide.
SerialNext == Serving \/ Leaves \/ (Submits /\ SerialSubmits')

SerialSpec == Init /\ [][SerialNext]_vars

(***************************************************************************)
(* A handler about to write its verdict writes it to a pending claim: the  *)
(* status it read before its last await is still the row's.                *)
(***************************************************************************)
UpdateMeetsPending ==
  \A h \in Handlers :
    job[h].step = "submit_update" => StatusIs(job[h].claim, "pending")

(***************************************************************************)
(* The verdict of every RESULT that carried a row is the one in the row,   *)
(* at any later time: the reader is never told what the table denies.      *)
(***************************************************************************)
ReportedVerdictStands ==
  \A k \in ClaimKeys : \A v \in reported[k] : StatusIs(k, v)

--------------------------------------------------------------------------------
\* The table, seen as ClaimLifecycle sees it.
Phase == [k \in ClaimKeys |-> IF Exists(k) THEN user_claim_news[k].status ELSE "none"]

RowIds ==
  [k \in ClaimKeys |-> IF Exists(k) THEN {user_claim_news[k].transaction_id} ELSE {}]

Abstract == INSTANCE ClaimLifecycle
  WITH Claims <- ClaimKeys, Ids <- Nanoids,
       phase <- Phase, transaction_id <- RowIds, announced <- reported

(***************************************************************************)
(* The gateway implements ClaimLifecycle: each step opens or decides one   *)
(* claim, or changes nothing a reader's claim consists of.                 *)
(***************************************************************************)
ImplementsLifecycle == Abstract!Spec
================================================================================
