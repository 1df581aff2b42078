--------------------------- MODULE NewsServiceProofs ---------------------------
(***************************************************************************)
(* What the statements of NewsService do to the table user_claim_news, for *)
(* any users, news and transaction ids.  The proofs about the gateway and  *)
(* about the claiming of tokens both rest on these facts.                  *)
(***************************************************************************)
EXTENDS NewsService, TLAPS

(***************************************************************************)
(* A row is never NoRow, so a key exists as soon as a row is stored.       *)
(***************************************************************************)
LEMMA TableRowType ==
  ASSUME TableTypeOK, NEW k \in ClaimKeys
  PROVE  /\ Exists(k) <=> user_claim_news[k] \in Row
         /\ user_claim_news[k] \in Row \cup {NoRow}
  BY NoRowAssumption DEF TableTypeOK, Exists

(***************************************************************************)
(* The create makes a pending row without tokens, where there was none.    *)
(***************************************************************************)
LEMMA TableInsertType ==
  ASSUME TableTypeOK, NEW k \in ClaimKeys, NEW id \in Nanoids, InsertRow(k, id)
  PROVE  /\ TableTypeOK'
         /\ ~Exists(k)
         /\ user_claim_news'[k] =
              [transaction_id |-> id, status |-> "pending", token_earned |-> 0]
         /\ user_claim_news'[k] \in Row
         /\ \A j \in ClaimKeys : j # k => user_claim_news'[j] = user_claim_news[j]
<1>1. [transaction_id |-> id, status |-> "pending", token_earned |-> 0] \in Row
  BY DEF Row, ClaimStatus
<1> QED
  BY <1>1 DEF InsertRow, TableTypeOK

(***************************************************************************)
(* What EXCEPT does to the status of a stored row.                         *)
(***************************************************************************)
LEMMA TableUpdateType ==
  ASSUME TableTypeOK, NEW k \in ClaimKeys, NEW v \in Verdicts, UpdateStatus(k, v)
  PROVE  /\ TableTypeOK'
         /\ Exists(k)
         /\ user_claim_news'[k] = [user_claim_news[k] EXCEPT !.status = v]
         /\ \A j \in ClaimKeys : j # k => user_claim_news'[j] = user_claim_news[j]
<1>1. Exists(k) /\ user_claim_news[k] \in Row
  BY TableRowType DEF UpdateStatus
<1>2. user_claim_news' = [user_claim_news EXCEPT ![k] = [@ EXCEPT !.status = v]]
  BY DEF UpdateStatus
<1>3. [user_claim_news[k] EXCEPT !.status = v] \in Row
  BY <1>1 DEF Row, Verdicts, ClaimStatus
<1> QED
  BY <1>1, <1>2, <1>3 DEF TableTypeOK

(***************************************************************************)
(* Storing what was earned leaves the rest of the row as it was.           *)
(***************************************************************************)
LEMMA TableEarnedType ==
  ASSUME TableTypeOK, NEW k \in ClaimKeys, NEW id, NEW value \in Nat,
         UpdateTokenEarned(k, id, value)
  PROVE  /\ TableTypeOK'
         /\ Exists(k) /\ user_claim_news[k].transaction_id = id
         /\ user_claim_news'[k] = [user_claim_news[k] EXCEPT !.token_earned = value]
         /\ \A j \in ClaimKeys : j # k => user_claim_news'[j] = user_claim_news[j]
<1>1. Exists(k) /\ user_claim_news[k] \in Row
  BY TableRowType DEF UpdateTokenEarned
<1>2. user_claim_news' = [user_claim_news EXCEPT ![k] = [@ EXCEPT !.token_earned = value]]
  BY DEF UpdateTokenEarned
<1>3. [user_claim_news[k] EXCEPT !.token_earned = value] \in Row
  BY <1>1 DEF Row
<1> QED
  BY <1>1, <1>2, <1>3 DEF TableTypeOK, UpdateTokenEarned
================================================================================
