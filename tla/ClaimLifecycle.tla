---------------------------- MODULE ClaimLifecycle -----------------------------
(***************************************************************************)
(* What reading to earn promises about a claim, without sockets, handlers, *)
(* clocks or tables: a claim is opened once, is given one transaction id,  *)
(* is decided once, and nobody is ever told another verdict.               *)
(***************************************************************************)
CONSTANTS Claims, Ids

VARIABLES
  phase,           \* [Claims -> Phases]
  transaction_id,  \* [Claims -> the set of the claim's ids, at most one]
  announced        \* [Claims -> the verdicts anybody was told]

vars == <<phase, transaction_id, announced>>

Verdicts == {"success", "failure"}

Init ==
  /\ phase = [k \in Claims |-> "none"]
  /\ transaction_id = [k \in Claims |-> {}]
  /\ announced = [k \in Claims |-> {}]

Open(k, id) ==
  /\ phase[k] = "none"
  /\ phase' = [phase EXCEPT ![k] = "pending"]
  /\ transaction_id' = [transaction_id EXCEPT ![k] = {id}]
  /\ UNCHANGED announced

\* The verdict may fail to reach the reader, but a wrong one never does.
Settle(k, v) ==
  /\ phase[k] = "pending"
  /\ phase' = [phase EXCEPT ![k] = v]
  /\ \/ announced' = [announced EXCEPT ![k] = @ \cup {v}]
     \/ UNCHANGED announced
  /\ UNCHANGED transaction_id

Next ==
  \E k \in Claims :
    \/ \E id \in Ids : Open(k, id)
    \/ \E v \in Verdicts : Settle(k, v)

Spec == Init /\ [][Next]_vars
================================================================================
