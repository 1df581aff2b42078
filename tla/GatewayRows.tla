------------------------------ MODULE GatewayRows ------------------------------
(***************************************************************************)
(* What the other handlers may expect of the tracking gateway: how the     *)
(* table user_claim_news changes while pages open news and submit, in any  *)
(* number and in any order, with failures and restarts.  No sockets, no    *)
(* clock, no Map: only the rows, and the verdicts that have passed the     *)
(* status check of updateStatusUserClaimNews and are still to be written.  *)
(*                                                                         *)
(* ReadTracking implements it (ImplementsRows); ClaimToken takes it as the *)
(* surroundings of the HTTP handlers.                                      *)
(***************************************************************************)
EXTENDS NewsService

VARIABLE late   \* <<claim, verdict>> between the check and the update

rowsVars == <<user_claim_news, late>>

RowsTypeOK == TableTypeOK /\ late \subseteq ClaimKeys \X Verdicts

RowsInit == TableInit /\ late = {}

OpenRow(k) ==
  /\ \E id \in Nanoids : InsertRow(k, id)
  /\ UNCHANGED late

\* Mutant of PassCheck: any row will do.
PassCheckAnyStatus(k, v) ==
  /\ Exists(k)
  /\ late' = late \cup {<<k, v>>}
  /\ UNCHANGED user_claim_news

\* The row is pending now; the update comes an await later.
PassCheck(k, v) ==
  /\ StatusIs(k, "pending")
  /\ late' = late \cup {<<k, v>>}
  /\ UNCHANGED user_claim_news

\* The update does not ask again.  Two SUBMITs may have passed with one verdict.
WriteVerdict(k, v) ==
  /\ <<k, v>> \in late
  /\ UpdateStatus(k, v)
  /\ late' \in {late, late \ {<<k, v>>}}

\* Updates that reject, or that a restart ends.
GiveUp ==
  /\ late' \in SUBSET late
  /\ UNCHANGED user_claim_news

RowsNext ==
  \/ \E k \in ClaimKeys : OpenRow(k)
  \/ \E k \in ClaimKeys, v \in Verdicts : PassCheck(k, v) \/ WriteVerdict(k, v)
  \/ GiveUp

RowsSpec == RowsInit /\ [][RowsNext]_rowsVars
================================================================================
