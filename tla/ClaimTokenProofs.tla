--------------------------- MODULE ClaimTokenProofs ----------------------------
(***************************************************************************)
(* Proofs about the claiming of tokens, for any users, news, wallets,      *)
(* requests in flight, token values and either contract (one that takes an *)
(* id again and one that does not).  First what holds whatever the readers *)
(* and the contract do, then what holds of readers who keep to the         *)
(* protocol, as HonestNext spells it out.                                  *)
(***************************************************************************)
EXTENDS ClaimToken, NewsServiceProofs, FiniteSetTheorems

RequestType == LinkRequest \cup FindRequest \cup CountRequest \cup {Idle}

--------------------------------------------------------------------------------
(* Types *)

\* A claim's key names a reader and a news.
LEMMA KeyType ==
  ASSUME NEW k \in ClaimKeys
  PROVE  k[1] \in News /\ k[2] \in Users /\ k = <<k[1], k[2]>>
  BY DEF ClaimKeys

\* A request whose step is known is of the kind that has this step.
LEMMA RequestStepType ==
  ASSUME TypeOK, NEW q \in Requests
  PROVE  /\ request[q].step = "link_store" => request[q] \in LinkRequest
         /\ request[q].step = "claim_find" => request[q] \in FindRequest
         /\ request[q].step = "claim_count" => request[q] \in CountRequest
<1>1. request[q] \in RequestType
  BY DEF TypeOK, RequestType
<1>2. ASSUME request[q] \in LinkRequest PROVE request[q].step = "link_store"
  BY <1>2 DEF LinkRequest
<1>3. ASSUME request[q] \in FindRequest PROVE request[q].step = "claim_find"
  BY <1>3 DEF FindRequest
<1>4. ASSUME request[q] \in CountRequest PROVE request[q].step = "claim_count"
  BY <1>4 DEF CountRequest
<1>5. ASSUME request[q] = Idle PROVE request[q].step = "idle"
  BY <1>5 DEF Idle
<1> QED
  BY <1>1, <1>2, <1>3, <1>4, <1>5 DEF RequestType

\* What the three kinds of requests carry.
LEMMA RequestFields ==
  /\ \A r \in LinkRequest : r.user \in Users /\ r.wallet \in Wallets
  /\ \A r \in FindRequest : r.claim \in ClaimKeys /\ r.from \in Wallets
  /\ \A r \in CountRequest :
       r.claim \in ClaimKeys /\ r.from \in Wallets /\ r.id \in Nanoids
  BY DEF LinkRequest, FindRequest, CountRequest

\* Moving one request on keeps the type of the requests.
LEMMA RequestChange ==
  ASSUME TypeOK, NEW q \in Requests, NEW r \in RequestType,
         request' = [request EXCEPT ![q] = r]
  PROVE  /\ request' \in [Requests -> RequestType]
         /\ request'[q] = r
         /\ \A p \in Requests : p # q => request'[p] = request[p]
  BY DEF TypeOK, RequestType

\* What an answer and an event carry.
LEMMA PaperFields ==
  /\ \A a \in Answer :
       /\ a.permit \in Permit /\ a.permit.from \in Wallets /\ a.permit.news \in News
       /\ a.permit.nonce \in Nat
       /\ a.claim \in ClaimKeys /\ a.id \in Nanoids
  /\ \A rc \in Receipt :
       /\ rc.from \in Wallets /\ rc.news \in News
       /\ rc.claim \in ClaimKeys /\ rc.id \in Nanoids
  BY DEF Answer, Permit, Receipt

\* countUserClaimNews counts rows of finitely many news.
LEMMA CountType ==
  ASSUME NEW u \in Users
  PROVE  countUserClaimNews(u) \in Nat
<1> DEFINE counted == {n \in News : /\ StatusIs(<<n, u>>, "success")
                                    /\ user_claim_news[<<n, u>>].token_earned # 0}
<1>1. IsFiniteSet(counted)
  BY FiniteNewsAssumption, FS_Subset
<1> HIDE DEF counted
<1>2. Cardinality(counted) \in Nat
  BY <1>1, FS_CardinalityType
<1> QED
  BY <1>2 DEF countUserClaimNews, counted

LEMMA TypeStep == TypeOK /\ [Next]_vars => TypeOK'
<1> SUFFICES ASSUME TypeOK, [Next]_vars PROVE TypeOK'
  OBVIOUS
<1> USE DEF rowsVars, contractVars, historyVars, RowsTypeOK
<1>0. Idle \in RequestType
  BY DEF RequestType
<1>1. ASSUME NEW q \in Requests, NEW u \in Users, NEW w \in Wallets,
             LinkAccountOnChain(q, u, w)
      PROVE  TypeOK'
  <2>1. [step |-> "link_store", user |-> u, wallet |-> w] \in RequestType
    BY DEF RequestType, LinkRequest
  <2>2. request' \in [Requests -> RequestType]
    BY <1>1, <2>1, RequestChange DEF LinkAccountOnChain
  <2> QED
    BY <1>1, <2>2 DEF LinkAccountOnChain, TypeOK, TableTypeOK, RequestType
<1>2. ASSUME NEW q \in Requests, LinkAccount(q) PROVE TypeOK'
  <2>1. request[q].user \in Users /\ request[q].wallet \in Wallets
    BY <1>2, RequestStepType, RequestFields DEF LinkAccount
  <2>2. request' \in [Requests -> RequestType]
    BY <1>0, <1>2, RequestChange DEF LinkAccount, Finish
  <2> QED
    BY <1>2, <2>1, <2>2 DEF LinkAccount, TypeOK, TableTypeOK, RequestType
<1>3. ASSUME NEW q \in Requests, NEW k \in ClaimKeys, ClaimToken(q, k) PROVE TypeOK'
  <2>1. wallet_address[k[2]] \in Wallets
    BY <1>3, KeyType DEF ClaimToken, TypeOK
  <2>2. [step |-> "claim_find", claim |-> k, from |-> wallet_address[k[2]]] \in RequestType
    BY <2>1 DEF RequestType, FindRequest
  <2>3. request' \in [Requests -> RequestType]
    BY <1>3, <2>2, RequestChange DEF ClaimToken
  <2> QED
    BY <1>3, <2>3 DEF ClaimToken, TypeOK, TableTypeOK, RequestType
<1>4. ASSUME NEW q \in Requests, ClaimTokenFind(q) PROVE TypeOK'
  <2> DEFINE k == request[q].claim
             r == [step |-> "claim_count", claim |-> k, from |-> request[q].from,
                   id |-> user_claim_news[k].transaction_id]
  <2>1. k \in ClaimKeys /\ request[q].from \in Wallets
    BY <1>4, RequestStepType, RequestFields DEF ClaimTokenFind
  <2>2. ASSUME StatusIs(k, "success") PROVE r \in RequestType
    <3>1. user_claim_news[k] \in Row
      BY <2>1, <2>2, TableRowType DEF StatusIs, TypeOK
    <3> QED
      BY <2>1, <3>1 DEF RequestType, CountRequest, Row
  <2>3. \/ StatusIs(k, "success") /\ request' = [request EXCEPT ![q] = r]
        \/ request' = [request EXCEPT ![q] = Idle]
    BY <1>4 DEF ClaimTokenFind, Finish
  <2>4. request' \in [Requests -> RequestType]
    BY <1>0, <2>2, <2>3, RequestChange
  <2> QED
    BY <1>4, <2>4 DEF ClaimTokenFind, TypeOK, TableTypeOK, RequestType
<1>5. ASSUME NEW q \in Requests, ClaimTokenSign(q) PROVE TypeOK'
  <2> DEFINE k == request[q].claim
             p == [from |-> request[q].from, news |-> k[1],
                   nonce |-> countUserClaimNews(k[2])]
             a == [permit |-> p, claim |-> k, id |-> request[q].id]
  <2>1. k \in ClaimKeys /\ request[q].from \in Wallets /\ request[q].id \in Nanoids
    BY <1>5, RequestStepType, RequestFields DEF ClaimTokenSign
  <2>2. countUserClaimNews(k[2]) \in Nat
    BY <2>1, KeyType, CountType
  <2>3. a \in Answer
    <3>1. p \in Permit
      BY <2>1, <2>2, KeyType DEF Permit
    <3> HIDE DEF p, k
    <3> QED
      BY <2>1, <3>1 DEF Answer, k
  <2>4. request' \in [Requests -> RequestType]
    BY <1>0, <1>5, RequestChange DEF ClaimTokenSign, Finish
  <2>5. signed' = signed \cup {a}
    BY <1>5 DEF ClaimTokenSign
  <2> QED
    BY <1>5, <2>3, <2>4, <2>5 DEF ClaimTokenSign, TypeOK, TableTypeOK, RequestType
<1>6. ASSUME NEW q \in Requests, RequestFail(q) PROVE TypeOK'
  <2>1. request' \in [Requests -> RequestType]
    BY <1>0, <1>6, RequestChange DEF RequestFail, Finish
  <2> QED
    BY <1>6, <2>1 DEF RequestFail, TypeOK, TableTypeOK, RequestType
<1>7. ASSUME NEW a \in signed, NEW k \in ClaimKeys, NEW id \in Nanoids,
             Transfer(a.permit, k, id)
      PROVE  TypeOK'
  <2>1. PICK p \in Permit : p = a.permit
    BY PaperFields DEF TypeOK
  <2>2. p.from \in Wallets /\ p.news \in News
    BY <2>1 DEF Permit
  <2>3. [from |-> p.from, news |-> p.news, claim |-> k, id |-> id] \in Receipt
    BY <2>2 DEF Receipt
  <2>4. nonce[p.from] + 1 \in 0 .. MaxNonce
    BY <1>7, <2>1, <2>2, ClaimTokenAssumption DEF Transfer, TypeOK
  <2>5. nonce' \in [Wallets -> 0 .. MaxNonce]
    BY <1>7, <2>1, <2>2, <2>4 DEF Transfer, TypeOK
  <2> QED
    BY <1>7, <2>1, <2>3, <2>5 DEF Transfer, TypeOK, TableTypeOK
<1>8. ASSUME NEW k \in ClaimKeys, NEW id \in Nanoids, NEW v \in LogValues,
             VerifyTxHash(k, id, v)
      PROVE  TypeOK'
  <2>1. v \in Nat
    BY ClaimTokenAssumption
  <2>2. TableTypeOK'
    BY <1>8, <2>1, TableEarnedType DEF VerifyTxHash, TypeOK
  <2> QED
    BY <1>8, <2>2 DEF VerifyTxHash, TypeOK
<1>9. ASSUME NEW k \in ClaimKeys, OpenClaim(k) PROVE TypeOK'
  <2>1. TableTypeOK'
    BY <1>9, TableInsertType DEF OpenClaim, OpenRow, TypeOK
  <2> QED
    BY <1>9, <2>1 DEF OpenClaim, OpenRow, TypeOK
<1>10. ASSUME NEW k \in ClaimKeys, NEW v \in Verdicts, SubmitChecked(k, v) PROVE TypeOK'
  BY <1>10 DEF SubmitChecked, PassCheck, TypeOK, TableTypeOK
<1>11. ASSUME NEW k \in ClaimKeys, NEW v \in Verdicts, SettleClaim(k, v) PROVE TypeOK'
  <2>1. TableTypeOK'
    BY <1>11, TableUpdateType DEF SettleClaim, WriteVerdict, TypeOK
  <2>2. late' \subseteq ClaimKeys \X Verdicts /\ won' \subseteq ClaimKeys
    BY <1>11 DEF SettleClaim, WriteVerdict, TypeOK
  <2> QED
    BY <1>11, <2>1, <2>2 DEF SettleClaim, TypeOK
<1>12. ASSUME SubmitFail PROVE TypeOK'
  BY <1>12 DEF SubmitFail, GiveUp, TypeOK, TableTypeOK
<1>13. ASSUME Restart PROVE TypeOK'
  BY <1>13 DEF Restart, TypeOK, TableTypeOK
<1>14. ASSUME UNCHANGED vars PROVE TypeOK'
  BY <1>14 DEF vars, TypeOK, TableTypeOK
<1> QED
  BY <1>1, <1>2, <1>3, <1>4, <1>5, <1>6, <1>7, <1>8, <1>9, <1>10, <1>11, <1>12,
     <1>13, <1>14 DEF Next, BackendNext, RequestStep

(***************************************************************************)
(* Every variable stays in its type: an answer always names a linked       *)
(* wallet, a claim of the table and a nonce that is a number.              *)
(***************************************************************************)
THEOREM TypeCorrect == Spec => []TypeOK
<1>1. Init => TypeOK
  BY ClaimTokenAssumption DEF Init, RowsInit, TableInit, TypeOK, RowsTypeOK, TableTypeOK
<1>2. TypeOK /\ [Next]_vars => TypeOK'
  BY TypeStep
<1> QED
  BY <1>1, <1>2, PTL DEF Spec

--------------------------------------------------------------------------------
(* What a step changes *)

\* One step of the backend itself.
OwnStep == BackendNext \/ UNCHANGED vars

(***************************************************************************)
(* The backend changes the table by a create or by a verdict that passed   *)
(* the check; won grows by a verdict only.                                 *)
(***************************************************************************)
LEMMA OwnTableStep ==
  ASSUME OwnStep
  PROVE  \/ user_claim_news' = user_claim_news /\ won' = won
         \/ /\ \E k \in ClaimKeys, id \in Nanoids : InsertRow(k, id)
            /\ won' = won
         \/ \E k \in ClaimKeys, v \in Verdicts :
              /\ <<k, v>> \in late
              /\ UpdateStatus(k, v)
              /\ won' = won \cup {j \in {k} : v = "success"}
<1> USE DEF rowsVars, historyVars
<1>1. ASSUME NEW q \in Requests, RequestStep(q)
      PROVE  user_claim_news' = user_claim_news /\ won' = won
  BY <1>1 DEF RequestStep, LinkAccount, ClaimTokenFind, ClaimTokenSign, RequestFail
<1>2. ASSUME NEW k \in ClaimKeys, NEW v \in Verdicts, SubmitChecked(k, v)
      PROVE  user_claim_news' = user_claim_news /\ won' = won
  BY <1>2 DEF SubmitChecked, PassCheck
<1>3. ASSUME UNCHANGED vars
      PROVE  user_claim_news' = user_claim_news /\ won' = won
  BY <1>3 DEF vars
<1>4. ASSUME NEW k \in ClaimKeys, OpenClaim(k)
      PROVE  (\E id \in Nanoids : InsertRow(k, id)) /\ won' = won
  BY <1>4 DEF OpenClaim, OpenRow
<1>5. ASSUME NEW k \in ClaimKeys, NEW v \in Verdicts, SettleClaim(k, v)
      PROVE  /\ <<k, v>> \in late
             /\ UpdateStatus(k, v)
             /\ won' = won \cup {j \in {k} : v = "success"}
  BY <1>5 DEF SettleClaim, WriteVerdict
<1>6. ASSUME \/ SubmitFail
             \/ Restart
             \/ \E q \in Requests, u \in Users, w \in Wallets : LinkAccountOnChain(q, u, w)
             \/ \E q \in Requests, k \in ClaimKeys : ClaimToken(q, k)
      PROVE  user_claim_news' = user_claim_news /\ won' = won
  BY <1>6 DEF LinkAccountOnChain, ClaimToken, SubmitFail, GiveUp, Restart
<1>7. CASE BackendNext
  BY <1>7, <1>1, <1>2, <1>4, <1>5, <1>6 DEF BackendNext
<1> QED
  BY <1>3, <1>7 DEF OwnStep

\* A request is left alone, ends, begins, or sees its claim as a success.
LEMMA RequestMoves ==
  ASSUME TypeOK, [Next]_vars, NEW q \in Requests
  PROVE  \/ request'[q] = request[q]
         \/ request'[q] = Idle
         \/ \E u \in Users, w \in Wallets : LinkAccountOnChain(q, u, w)
         \/ \E k \in ClaimKeys : ClaimToken(q, k)
         \/ ClaimTokenFind(q) /\ StatusIs(request[q].claim, "success")
<1>1. CASE \E p \in Requests, u \in Users, w \in Wallets : LinkAccountOnChain(p, u, w)
  BY <1>1 DEF LinkAccountOnChain, TypeOK
<1>2. CASE \E p \in Requests, k \in ClaimKeys : ClaimToken(p, k)
  BY <1>2 DEF ClaimToken, TypeOK
<1>3. CASE \E p \in Requests : LinkAccount(p) \/ ClaimTokenSign(p) \/ RequestFail(p)
  BY <1>3 DEF LinkAccount, ClaimTokenSign, RequestFail, Finish, TypeOK
<1>4. CASE \E p \in Requests : ClaimTokenFind(p)
  BY <1>4 DEF ClaimTokenFind, Finish, TypeOK
<1>5. CASE Restart
  BY <1>5 DEF Restart
<1>6. CASE request' = request
  BY <1>6
<1> QED
  BY <1>1, <1>2, <1>3, <1>4, <1>5, <1>6
  DEF Next, BackendNext, vars, RequestStep, Transfer, VerifyTxHash, OpenClaim,
      SubmitChecked, SettleClaim, SubmitFail

\* Wallets are linked and permits signed by one action each.
LEMMA HandsMove ==
  ASSUME [Next]_vars
  PROVE  /\ \/ wallet_address' = wallet_address /\ linked' = linked
            \/ \E q \in Requests : LinkAccount(q)
         /\ \/ signed' = signed
            \/ \E q \in Requests : ClaimTokenSign(q)
<1>1. CASE \E q \in Requests : RequestStep(q)
  BY <1>1 DEF RequestStep, LinkAccount, ClaimTokenFind, ClaimTokenSign, RequestFail, historyVars
<1> QED
  BY <1>1
  DEF Next, BackendNext, vars, historyVars, LinkAccountOnChain, ClaimToken, Transfer,
      VerifyTxHash, OpenClaim, SubmitChecked, SettleClaim, SubmitFail, Restart

(***************************************************************************)
(* What a step does to one row: a stored row keeps its transaction id, and *)
(* only a verdict changes its status, only a log its tokens.               *)
(***************************************************************************)
RowKept(k) == user_claim_news'[k] = user_claim_news[k]

RowOpened(k) ==
  /\ ~Exists(k) /\ user_claim_news'[k] \in Row
  /\ user_claim_news'[k].status = "pending"
  /\ user_claim_news'[k].token_earned = 0

RowDecided(k) ==
  /\ Exists(k) /\ user_claim_news'[k] \in Row
  /\ \E v \in Verdicts :
       /\ <<k, v>> \in late
       /\ user_claim_news'[k] = [user_claim_news[k] EXCEPT !.status = v]
       /\ v = "success" => k \in won'

RowEarns(k) ==
  /\ Exists(k) /\ user_claim_news'[k] \in Row
  /\ \E value \in Nat :
       user_claim_news'[k] = [user_claim_news[k] EXCEPT !.token_earned = value]

LEMMA OwnRowStep ==
  ASSUME TypeOK, OwnStep, NEW k \in ClaimKeys
  PROVE  RowKept(k) \/ RowOpened(k) \/ RowDecided(k)
<1>0. TableTypeOK
  BY DEF TypeOK, RowsTypeOK
<1>1. CASE user_claim_news' = user_claim_news
  BY <1>1 DEF RowKept
<1>2. ASSUME NEW j \in ClaimKeys, NEW id \in Nanoids, InsertRow(j, id)
      PROVE  RowKept(k) \/ RowOpened(k)
  <2>1. CASE j # k
    BY <1>0, <1>2, <2>1, TableInsertType DEF RowKept
  <2>2. CASE j = k
    <3>1. ~Exists(k) /\ user_claim_news'[k] \in Row
      BY <1>0, <1>2, <2>2, TableInsertType
    <3>2. user_claim_news'[k] = [transaction_id |-> id, status |-> "pending", token_earned |-> 0]
      BY <1>0, <1>2, <2>2, TableInsertType
    <3> QED
      BY <3>1, <3>2 DEF RowOpened
  <2> QED
    BY <2>1, <2>2
<1>3. ASSUME NEW j \in ClaimKeys, NEW v \in Verdicts, <<j, v>> \in late, UpdateStatus(j, v),
             won' = won \cup {i \in {j} : v = "success"}
      PROVE  RowKept(k) \/ RowDecided(k)
  <2>1. CASE j # k
    BY <1>0, <1>3, <2>1, TableUpdateType DEF RowKept
  <2>2. CASE j = k
    <3>1. user_claim_news[k] \in Row /\ Exists(k)
      BY <1>0, <1>3, <2>2, TableUpdateType, TableRowType
    <3>2. user_claim_news'[k] = [user_claim_news[k] EXCEPT !.status = v]
      BY <1>0, <1>3, <2>2, TableUpdateType
    <3>3. [user_claim_news[k] EXCEPT !.status = v] \in Row
      BY <3>1 DEF Row, Verdicts, ClaimStatus
    <3> QED
      BY <1>3, <2>2, <3>1, <3>2, <3>3 DEF RowDecided
  <2> QED
    BY <2>1, <2>2
<1> QED
  BY <1>1, <1>2, <1>3, OwnTableStep

LEMMA VerifyRowStep ==
  ASSUME TypeOK, NEW k \in ClaimKeys, NEW j \in ClaimKeys, NEW id \in Nanoids,
         NEW v \in LogValues, VerifyTxHash(j, id, v)
  PROVE  RowKept(k) \/ (j = k /\ RowEarns(k))
<1>0. TableTypeOK /\ v \in Nat /\ UpdateTokenEarned(j, id, v)
  BY ClaimTokenAssumption DEF TypeOK, RowsTypeOK, VerifyTxHash
<1>1. CASE j # k
  BY <1>0, <1>1, TableEarnedType DEF RowKept
<1>2. CASE j = k
  <2>1. Exists(k)
    BY <1>0, <1>2 DEF UpdateTokenEarned
  <2>2. user_claim_news[k] \in Row
    BY <1>0, <2>1, TableRowType
  <2>3. user_claim_news'[k] = [user_claim_news[k] EXCEPT !.token_earned = v]
    BY <1>0, <1>2, TableEarnedType
  <2>4. [user_claim_news[k] EXCEPT !.token_earned = v] \in Row
    BY <1>0, <2>2 DEF Row
  <2> QED
    BY <1>0, <1>2, <2>1, <2>3, <2>4 DEF RowEarns
<1> QED
  BY <1>1, <1>2

LEMMA RowStep ==
  ASSUME TypeOK, [Next]_vars, NEW k \in ClaimKeys
  PROVE  RowKept(k) \/ RowOpened(k) \/ RowDecided(k) \/ RowEarns(k)
<1>1. CASE OwnStep
  BY <1>1, OwnRowStep
<1>2. CASE \E a \in signed, j \in ClaimKeys, id \in Nanoids : Transfer(a.permit, j, id)
  BY <1>2 DEF Transfer, rowsVars, RowKept
<1>3. CASE \E j \in ClaimKeys, id \in Nanoids, v \in LogValues : VerifyTxHash(j, id, v)
  BY <1>3, VerifyRowStep
<1> QED
  BY <1>1, <1>2, <1>3 DEF Next, OwnStep

LEMMA WonGrows ==
  ASSUME [Next]_vars
  PROVE  won \subseteq won'
<1>1. CASE OwnStep
  BY <1>1, OwnTableStep
<1>2. CASE won' = won
  BY <1>2
<1> QED
  BY <1>1, <1>2 DEF Next, OwnStep, Transfer, VerifyTxHash, historyVars

LEMMA LinkedGrows ==
  ASSUME TypeOK, [Next]_vars, NEW u \in Users
  PROVE  linked[u] \subseteq linked'[u]
<1>1. CASE linked' = linked
  BY <1>1
<1>2. ASSUME NEW q \in Requests, LinkAccount(q) PROVE linked[u] \subseteq linked'[u]
  BY <1>2 DEF LinkAccount, TypeOK
<1> QED
  BY <1>1, <1>2, HandsMove

--------------------------------------------------------------------------------
(* What is signed was won *)

\* The reader had linked the wallet, and the claim, with this transaction id,
\* was a success at some time.
Names(k, w, id) ==
  /\ w \in linked[k[2]]
  /\ k \in won
  /\ Exists(k) /\ user_claim_news[k].transaction_id = id

LinkedIsKnown ==
  \A u \in Users : wallet_address[u] # NoWallet => wallet_address[u] \in linked[u]

SuccessIsWon == \A k \in ClaimKeys : StatusIs(k, "success") => k \in won

\* A request for a permit names a linked wallet and, when it has seen the row,
\* a claim that was won.
RequestsNamed ==
  \A q \in Requests :
    /\ request[q].step = "claim_find" => request[q].from \in linked[request[q].claim[2]]
    /\ request[q].step = "claim_count" =>
         Names(request[q].claim, request[q].from, request[q].id)

(***************************************************************************)
(* Strengthens SignedOnlyIfWon: an answer comes from a request that saw    *)
(* the row as a success and the wallet as linked.  Neither is looked at    *)
(* again; it stays true because rows are never deleted and never given     *)
(* another transaction id.                                                 *)
(***************************************************************************)
SignedInv ==
  TypeOK /\ LinkedIsKnown /\ SuccessIsWon /\ RequestsNamed /\ SignedOnlyIfWon

LEMMA NamesKept ==
  ASSUME TypeOK, [Next]_vars, NEW k \in ClaimKeys, NEW w, NEW id, Names(k, w, id)
  PROVE  /\ w \in linked'[k[2]]
         /\ k \in won'
         /\ Exists(k)' /\ user_claim_news'[k].transaction_id = id
<1>1. user_claim_news[k] \in Row
  BY TableRowType DEF Names, TypeOK, RowsTypeOK
<1>2. user_claim_news'[k] \in Row /\ user_claim_news'[k].transaction_id = id
  BY <1>1, RowStep DEF Names, Row, RowKept, RowOpened, RowDecided, RowEarns
<1>3. Exists(k)'
  BY <1>2, NoRowAssumption DEF Exists
<1> QED
  BY <1>2, <1>3, KeyType, WonGrows, LinkedGrows DEF Names

LEMMA LinkedStep ==
  ASSUME TypeOK, LinkedIsKnown, [Next]_vars
  PROVE  LinkedIsKnown'
<1> SUFFICES ASSUME NEW u \in Users, wallet_address'[u] # NoWallet
             PROVE  wallet_address'[u] \in linked'[u]
  BY DEF LinkedIsKnown
<1>1. CASE wallet_address' = wallet_address /\ linked' = linked
  BY <1>1 DEF LinkedIsKnown
<1>2. ASSUME NEW q \in Requests, LinkAccount(q) PROVE wallet_address'[u] \in linked'[u]
  BY <1>2 DEF LinkAccount, LinkedIsKnown, TypeOK
<1> QED
  BY <1>1, <1>2, HandsMove

\* What EXCEPT does to the status of a row.
LEMMA StatusChange ==
  ASSUME TypeOK, NEW k \in ClaimKeys, Exists(k)
  PROVE  /\ \A v \in Verdicts : [user_claim_news[k] EXCEPT !.status = v].status = v
         /\ \A n \in Nat :
              [user_claim_news[k] EXCEPT !.token_earned = n].status = user_claim_news[k].status
<1>1. user_claim_news[k] \in Row
  BY TableRowType DEF TypeOK, RowsTypeOK
<1> QED
  BY <1>1 DEF Row

LEMMA WonStep ==
  ASSUME TypeOK, SuccessIsWon, [Next]_vars
  PROVE  SuccessIsWon'
<1> SUFFICES ASSUME NEW k \in ClaimKeys, user_claim_news'[k].status = "success",
                    user_claim_news'[k] # NoRow
             PROVE  k \in won'
  BY DEF SuccessIsWon, StatusIs, Exists
<1>1. ASSUME Exists(k), user_claim_news[k].status = "success" PROVE k \in won'
  BY <1>1, WonGrows DEF SuccessIsWon, StatusIs
<1>2. CASE RowKept(k)
  BY <1>1, <1>2 DEF Exists, RowKept
<1>3. CASE RowDecided(k)
  BY <1>3, StatusChange DEF RowDecided
<1>4. CASE RowEarns(k)
  BY <1>1, <1>4, StatusChange DEF RowEarns
<1>5. CASE RowOpened(k)
  BY <1>5 DEF RowOpened
<1> QED
  BY <1>2, <1>3, <1>4, <1>5, RowStep

LEMMA NamedStep ==
  ASSUME TypeOK, LinkedIsKnown, SuccessIsWon, RequestsNamed, [Next]_vars
  PROVE  RequestsNamed'
<1>1. ASSUME NEW q \in Requests, request'[q].step = "claim_find"
      PROVE  request'[q].from \in linked'[request'[q].claim[2]]
  <2>1. CASE request'[q] = request[q]
    <3>1. request[q].claim[2] \in Users
      BY <1>1, <2>1, RequestStepType, RequestFields, KeyType
    <3> QED
      BY <1>1, <2>1, <3>1, LinkedGrows DEF RequestsNamed
  <2>2. CASE request'[q] = Idle
    BY <1>1, <2>2 DEF Idle
  <2>3. ASSUME NEW u \in Users, NEW w \in Wallets, LinkAccountOnChain(q, u, w) PROVE FALSE
    BY <1>1, <2>3 DEF LinkAccountOnChain, TypeOK
  <2>4. ASSUME NEW k \in ClaimKeys, ClaimToken(q, k)
        PROVE  request'[q].from \in linked'[request'[q].claim[2]]
    <3>1. request'[q].from = wallet_address[k[2]] /\ request'[q].claim = k
      BY <2>4 DEF ClaimToken, TypeOK
    <3>2. wallet_address[k[2]] \in linked[k[2]] /\ linked' = linked
      BY <2>4, KeyType DEF ClaimToken, LinkedIsKnown, historyVars
    <3> QED
      BY <3>1, <3>2
  <2>5. ASSUME ClaimTokenFind(q), StatusIs(request[q].claim, "success") PROVE FALSE
    BY <1>1, <2>5 DEF ClaimTokenFind, TypeOK
  <2> QED
    BY <2>1, <2>2, <2>3, <2>4, <2>5, RequestMoves
<1>2. ASSUME NEW q \in Requests, request'[q].step = "claim_count"
      PROVE  Names(request[q].claim, request[q].from, request[q].id)'
  <2>1. CASE request'[q] = request[q]
    <3>1. request[q].claim \in ClaimKeys
      BY <1>2, <2>1, RequestStepType, RequestFields
    <3>2. Names(request[q].claim, request[q].from, request[q].id)
      BY <1>2, <2>1 DEF RequestsNamed
    <3> QED
      BY <2>1, <3>1, <3>2, NamesKept DEF Names, Exists
  <2>2. CASE request'[q] = Idle
    BY <1>2, <2>2 DEF Idle
  <2>3. ASSUME NEW u \in Users, NEW w \in Wallets, LinkAccountOnChain(q, u, w) PROVE FALSE
    BY <1>2, <2>3 DEF LinkAccountOnChain, TypeOK
  <2>4. ASSUME NEW k \in ClaimKeys, ClaimToken(q, k) PROVE FALSE
    BY <1>2, <2>4 DEF ClaimToken, TypeOK
  <2>5. ASSUME ClaimTokenFind(q), StatusIs(request[q].claim, "success")
        PROVE  Names(request[q].claim, request[q].from, request[q].id)'
    <3> DEFINE k == request[q].claim
    <3>1. k \in ClaimKeys
      BY <2>5, RequestStepType, RequestFields DEF ClaimTokenFind
    <3>2. request[q].from \in linked[k[2]] /\ k \in won /\ Exists(k)
      BY <2>5, <3>1 DEF ClaimTokenFind, RequestsNamed, SuccessIsWon, StatusIs
    <3>3. /\ request'[q].claim = k /\ request'[q].from = request[q].from
          /\ request'[q].id = user_claim_news[k].transaction_id
          /\ user_claim_news' = user_claim_news /\ won' = won /\ linked' = linked
      BY <2>5 DEF ClaimTokenFind, rowsVars, historyVars, TypeOK
    <3> QED
      BY <3>2, <3>3 DEF Names, Exists
  <2> QED
    BY <2>1, <2>2, <2>3, <2>4, <2>5, RequestMoves
<1> QED
  BY <1>1, <1>2 DEF RequestsNamed

LEMMA SignedStep ==
  ASSUME TypeOK, RequestsNamed, SignedOnlyIfWon, [Next]_vars
  PROVE  SignedOnlyIfWon'
<1> SUFFICES ASSUME NEW a \in signed'
             PROVE  Names(a.claim, a.permit.from, a.id)'
  BY DEF SignedOnlyIfWon, Names
<1>1. CASE a \in signed
  <2>1. a.claim \in ClaimKeys /\ Names(a.claim, a.permit.from, a.id)
    BY <1>1, PaperFields DEF TypeOK, SignedOnlyIfWon, Names
  <2> QED
    BY <2>1, NamesKept DEF Names, Exists
<1>2. ASSUME NEW q \in Requests, ClaimTokenSign(q), a \notin signed
      PROVE  Names(a.claim, a.permit.from, a.id)'
  <2>1. /\ a.claim = request[q].claim /\ a.permit.from = request[q].from
        /\ a.id = request[q].id
    BY <1>2 DEF ClaimTokenSign
  <2>2. a.claim \in ClaimKeys /\ Names(a.claim, a.permit.from, a.id)
    BY <1>2, <2>1, RequestStepType, RequestFields DEF ClaimTokenSign, RequestsNamed
  <2> QED
    BY <2>2, NamesKept DEF Names, Exists
<1> QED
  BY <1>1, <1>2, HandsMove

LEMMA SignedInit == Init => SignedInv
<1> SUFFICES ASSUME Init PROVE SignedInv
  OBVIOUS
<1>1. TypeOK
  BY ClaimTokenAssumption DEF Init, RowsInit, TableInit, TypeOK, RowsTypeOK, TableTypeOK
<1>2. \A k \in ClaimKeys : ~Exists(k)
  BY DEF Init, RowsInit, TableInit, Exists
<1>3. LinkedIsKnown /\ RequestsNamed /\ SignedOnlyIfWon
  BY DEF Init, LinkedIsKnown, RequestsNamed, SignedOnlyIfWon, Idle
<1> QED
  BY <1>1, <1>2, <1>3 DEF SignedInv, SuccessIsWon, StatusIs

LEMMA SignedInvStep == SignedInv /\ [Next]_vars => SignedInv'
  BY TypeStep, LinkedStep, WonStep, NamedStep, SignedStep DEF SignedInv

(***************************************************************************)
(* Whatever is transferred and verified, the backend signs only for claims *)
(* that were won, for wallets their readers had linked, with the id of the *)
(* row: for any number of readers and requests, whatever fails and however *)
(* late a verdict or a wallet is replaced.                                 *)
(***************************************************************************)
THEOREM SignsOnlyIfWon == Spec => []SignedOnlyIfWon
<1>1. SignedInv => SignedOnlyIfWon
  BY DEF SignedInv
<1> QED
  BY <1>1, SignedInit, SignedInvStep, PTL DEF Spec

--------------------------------------------------------------------------------
(* Readers who keep to the protocol *)

\* The contract is given an answer with its own id.
HonestPay == \E a \in signed : HonestTransfer(a)

LEMMA HonestStep ==
  ASSUME SignedInv, receipts \subseteq Receipt, SerialLinks, SerialSubmits, [HonestNext]_vars
  PROVE  /\ [Next]_vars
         /\ SerialLinks' /\ SerialSubmits'
         /\ OwnStep \/ HonestPay \/ \E rc \in receipts : HonestVerify(rc)
<1>1. CASE UNCHANGED vars
  BY <1>1 DEF vars, rowsVars, SerialLinks, SerialSubmits, Linking, OwnStep
<1>2. CASE HonestNext
  <2>1. OwnStep \/ HonestPay \/ \E rc \in receipts : HonestVerify(rc)
    BY <1>2 DEF HonestNext, OwnStep, HonestPay
  <2>2. ASSUME BackendNext PROVE Next
    BY <2>2 DEF Next
  <2>3. ASSUME NEW a \in signed, HonestTransfer(a) PROVE Next
    <3>1. a.claim \in ClaimKeys /\ a.id \in Nanoids
      BY PaperFields DEF SignedInv, TypeOK
    <3> QED
      BY <2>3, <3>1 DEF HonestTransfer, Next
  <2>4. ASSUME NEW rc \in receipts, HonestVerify(rc) PROVE Next
    <3>1. rc.claim \in ClaimKeys /\ rc.id \in Nanoids /\ TokenValue[rc.news] \in LogValues
      BY PaperFields, ClaimTokenAssumption
    <3> QED
      BY <2>4, <3>1 DEF HonestVerify, Next
  <2> QED
    BY <1>2, <2>1, <2>2, <2>3, <2>4 DEF HonestNext, HonestPay
<1> QED
  BY <1>1, <1>2

\* The events of the contract change only when a reader transfers.
LEMMA ReceiptsMove ==
  ASSUME OwnStep \/ HonestPay \/ \E rc \in receipts : HonestVerify(rc)
  PROVE  UNCHANGED contractVars \/ HonestPay
<1>1. CASE \E q \in Requests : RequestStep(q)
  BY <1>1 DEF RequestStep, LinkAccount, ClaimTokenFind, ClaimTokenSign, RequestFail, contractVars
<1> QED
  BY <1>1
  DEF OwnStep, BackendNext, vars, contractVars, LinkAccountOnChain, ClaimToken,
      HonestVerify, VerifyTxHash, OpenClaim, SubmitChecked, SettleClaim, SubmitFail, Restart

\* What is paid was won, and what is stored was paid.
ReceiptsWon == \A rc \in receipts : rc.claim \in won

EarnedIsPaid ==
  \A k \in ClaimKeys : Earned(k) => \E rc \in receipts : rc.claim = k

(***************************************************************************)
(* The assumptions on the readers are on every state; the rest is what the *)
(* events of the contract have to do with the rows.                        *)
(***************************************************************************)
HonestInv ==
  SignedInv /\ SerialLinks /\ SerialSubmits /\ ReceiptsWon /\ EarnedIsPaid

LEMMA HonestMoves ==
  ASSUME HonestInv, [HonestNext]_vars
  PROVE  /\ [Next]_vars
         /\ SerialLinks' /\ SerialSubmits'
         /\ OwnStep \/ HonestPay \/ \E rc \in receipts : HonestVerify(rc)
         /\ UNCHANGED contractVars \/ HonestPay
  BY HonestStep, ReceiptsMove DEF HonestInv, SignedInv, TypeOK

LEMMA ReceiptsWonStep ==
  ASSUME HonestInv, [HonestNext]_vars
  PROVE  ReceiptsWon'
<1> SUFFICES ASSUME NEW rc \in receipts' PROVE rc.claim \in won'
  BY DEF ReceiptsWon
<1>1. CASE rc \in receipts
  BY <1>1, HonestMoves, WonGrows DEF HonestInv, ReceiptsWon
<1>2. ASSUME NEW a \in signed, HonestTransfer(a), rc \notin receipts PROVE rc.claim \in won'
  <2>1. rc.claim = a.claim
    BY <1>2 DEF HonestTransfer, Transfer
  <2> QED
    BY <2>1, HonestMoves, WonGrows DEF HonestInv, SignedInv, SignedOnlyIfWon
<1> QED
  BY <1>1, <1>2, HonestMoves DEF HonestPay, contractVars

LEMMA EarnedIsPaidStep ==
  ASSUME HonestInv, [HonestNext]_vars
  PROVE  EarnedIsPaid'
<1> SUFFICES ASSUME NEW k \in ClaimKeys, user_claim_news'[k] # NoRow,
                    user_claim_news'[k].token_earned # 0
             PROVE  \E rc \in receipts' : rc.claim = k
  BY DEF EarnedIsPaid, Earned, Exists
<1>0. TypeOK
  BY DEF HonestInv, SignedInv
<1>1. receipts \subseteq receipts'
  BY HonestMoves DEF contractVars, HonestPay, HonestTransfer, Transfer
<1>2. ASSUME Earned(k) PROVE \E rc \in receipts' : rc.claim = k
  BY <1>1, <1>2 DEF HonestInv, EarnedIsPaid
<1>3. CASE RowKept(k)
  BY <1>2, <1>3 DEF Earned, Exists, RowKept
<1>4. CASE RowOpened(k)
  BY <1>4 DEF RowOpened
<1>5. CASE RowDecided(k)
  <2>1. Exists(k)
    BY <1>5 DEF RowDecided
  <2>2. user_claim_news[k] \in Row
    BY <1>0, <2>1, TableRowType DEF TypeOK, RowsTypeOK
  <2>3. user_claim_news'[k].token_earned = user_claim_news[k].token_earned
    BY <1>5, <2>2 DEF Row, RowDecided
  <2> QED
    BY <1>2, <2>1, <2>3 DEF Earned
<1>6. CASE OwnStep
  BY <1>0, <1>3, <1>4, <1>5, <1>6, OwnRowStep
<1>7. CASE HonestPay
  BY <1>3, <1>7 DEF HonestPay, HonestTransfer, Transfer, rowsVars, RowKept
<1>8. ASSUME NEW rc \in receipts, HonestVerify(rc)
      PROVE  \E r \in receipts' : r.claim = k
  <2>1. rc.claim \in ClaimKeys /\ rc.id \in Nanoids /\ TokenValue[rc.news] \in LogValues
    BY <1>0, PaperFields, ClaimTokenAssumption DEF TypeOK
  <2>2. RowKept(k) \/ rc.claim = k
    BY <1>0, <1>8, <2>1, VerifyRowStep DEF HonestVerify
  <2> QED
    BY <1>1, <1>3, <2>2
<1> QED
  BY <1>6, <1>7, <1>8, HonestMoves

LEMMA HonestInit == Init => HonestInv
<1> SUFFICES ASSUME Init PROVE HonestInv
  OBVIOUS
<1>1. \A k \in ClaimKeys : ~Exists(k)
  BY DEF Init, RowsInit, TableInit, Exists
<1>2. SerialLinks /\ SerialSubmits /\ ReceiptsWon
  BY DEF Init, RowsInit, SerialLinks, SerialSubmits, Linking, Idle, ReceiptsWon
<1> QED
  BY <1>1, <1>2, SignedInit DEF HonestInv, EarnedIsPaid, Earned

LEMMA HonestInvStep == HonestInv /\ [HonestNext]_vars => HonestInv'
  BY HonestMoves, SignedInvStep, ReceiptsWonStep, EarnedIsPaidStep DEF HonestInv

--------------------------------------------------------------------------------
(* One link-account request at a time: wallets stay linked *)

\* Who is about to store a wallet has none.
LinkOpen ==
  \A q \in Requests :
    request[q].step = "link_store" => wallet_address[request[q].user] = NoWallet

\* The wallet a permit is asked for, signed for or paid to stays the wallet of
\* the claim's reader; another user may have linked the same.
OneWallet ==
  /\ \A q \in Requests :
       request[q].step \in {"claim_find", "claim_count"}
         => request[q].from = wallet_address[request[q].claim[2]]
  /\ \A a \in signed : a.permit.from = wallet_address[a.claim[2]]
  /\ \A rc \in receipts : rc.from = wallet_address[rc.claim[2]]

LinksInv == HonestInv /\ LinkOpen /\ OneWallet

LEMMA LinkKept ==
  ASSUME TypeOK, LinkOpen, [Next]_vars, NEW u \in Users, wallet_address[u] # NoWallet
  PROVE  wallet_address'[u] = wallet_address[u]
<1>1. CASE wallet_address' = wallet_address
  BY <1>1
<1>2. ASSUME NEW q \in Requests, LinkAccount(q)
      PROVE  wallet_address'[u] = wallet_address[u]
  <2>1. request[q].user # u
    BY <1>2 DEF LinkAccount, LinkOpen
  <2> QED
    BY <1>2, <2>1 DEF LinkAccount, TypeOK
<1> QED
  BY <1>1, <1>2, HandsMove

LEMMA LinkOpenStep ==
  ASSUME TypeOK, SerialLinks, LinkOpen, [Next]_vars
  PROVE  LinkOpen'
<1> SUFFICES ASSUME NEW q \in Requests, request'[q].step = "link_store"
             PROVE  wallet_address'[request'[q].user] = NoWallet
  BY DEF LinkOpen
<1>1. CASE request'[q] = request[q]
  <2>1. request[q].user \in Users /\ wallet_address[request[q].user] = NoWallet
    BY <1>1, RequestStepType, RequestFields DEF LinkOpen
  <2>2. ASSUME NEW p \in Requests, LinkAccount(p)
        PROVE  wallet_address'[request[q].user] = NoWallet
    <3>1. p # q
      BY <1>1, <2>2 DEF LinkAccount, Finish, Idle, TypeOK
    <3>2. request[p].user # request[q].user
      BY <1>1, <2>1, <2>2, <3>1 DEF LinkAccount, SerialLinks, Linking
    <3> QED
      BY <2>1, <2>2, <3>2 DEF LinkAccount, TypeOK
  <2> QED
    BY <1>1, <2>1, <2>2, HandsMove
<1>2. CASE request'[q] = Idle
  BY <1>2 DEF Idle
<1>3. ASSUME NEW u \in Users, NEW w \in Wallets, LinkAccountOnChain(q, u, w)
      PROVE  wallet_address'[request'[q].user] = NoWallet
  BY <1>3 DEF LinkAccountOnChain, TypeOK
<1>4. ASSUME NEW k \in ClaimKeys, ClaimToken(q, k) PROVE FALSE
  BY <1>4 DEF ClaimToken, TypeOK
<1>5. ASSUME ClaimTokenFind(q), StatusIs(request[q].claim, "success") PROVE FALSE
  BY <1>5 DEF ClaimTokenFind, TypeOK
<1> QED
  BY <1>1, <1>2, <1>3, <1>4, <1>5, RequestMoves

LEMMA OneWalletStep ==
  ASSUME LinksInv, [HonestNext]_vars
  PROVE  OneWallet'
<1>0. TypeOK /\ LinkOpen /\ OneWallet /\ [Next]_vars
  BY HonestMoves DEF LinksInv, HonestInv, SignedInv
<1>1. ASSUME NEW k \in ClaimKeys, NEW w \in Wallets, w = wallet_address[k[2]]
      PROVE  w = wallet_address'[k[2]]
  BY <1>0, <1>1, LinkKept, KeyType, ClaimTokenAssumption
<1>2. ASSUME NEW q \in Requests, request'[q].step \in {"claim_find", "claim_count"}
      PROVE  request'[q].from = wallet_address'[request'[q].claim[2]]
  <2>1. CASE request'[q] = request[q]
    <3>1. request[q].claim \in ClaimKeys /\ request[q].from \in Wallets
      BY <1>0, <1>2, <2>1, RequestStepType, RequestFields
    <3> QED
      BY <1>0, <1>1, <1>2, <2>1, <3>1 DEF OneWallet
  <2>2. CASE request'[q] = Idle
    BY <1>2, <2>2 DEF Idle
  <2>3. ASSUME NEW u \in Users, NEW w \in Wallets, LinkAccountOnChain(q, u, w) PROVE FALSE
    BY <1>0, <1>2, <2>3 DEF LinkAccountOnChain, TypeOK
  <2>4. ASSUME NEW k \in ClaimKeys, ClaimToken(q, k)
        PROVE  request'[q].from = wallet_address'[request'[q].claim[2]]
    BY <1>0, <2>4 DEF ClaimToken, TypeOK
  <2>5. ASSUME ClaimTokenFind(q), StatusIs(request[q].claim, "success")
        PROVE  request'[q].from = wallet_address'[request'[q].claim[2]]
    BY <1>0, <2>5 DEF ClaimTokenFind, OneWallet, TypeOK
  <2> QED
    BY <1>0, <2>1, <2>2, <2>3, <2>4, <2>5, RequestMoves
<1>3. ASSUME NEW a \in signed' PROVE a.permit.from = wallet_address'[a.claim[2]]
  <2>1. CASE a \in signed
    <3>1. a.claim \in ClaimKeys /\ a.permit.from \in Wallets
      BY <1>0, <2>1, PaperFields DEF TypeOK
    <3> QED
      BY <1>0, <1>1, <2>1, <3>1 DEF OneWallet
  <2>2. ASSUME NEW q \in Requests, ClaimTokenSign(q), a \notin signed
        PROVE  a.permit.from = wallet_address'[a.claim[2]]
    BY <1>0, <2>2 DEF ClaimTokenSign, OneWallet
  <2> QED
    BY <1>0, <2>1, <2>2, HandsMove
<1>4. ASSUME NEW rc \in receipts' PROVE rc.from = wallet_address'[rc.claim[2]]
  <2>1. CASE rc \in receipts
    <3>1. rc.claim \in ClaimKeys /\ rc.from \in Wallets
      BY <1>0, <2>1, PaperFields DEF TypeOK
    <3> QED
      BY <1>0, <1>1, <2>1, <3>1 DEF OneWallet
  <2>2. ASSUME NEW a \in signed, HonestTransfer(a), rc \notin receipts
        PROVE  rc.from = wallet_address'[rc.claim[2]]
    <3>1. rc.from = a.permit.from /\ rc.claim = a.claim /\ wallet_address' = wallet_address
      BY <2>2 DEF HonestTransfer, Transfer
    <3> QED
      BY <1>0, <3>1 DEF OneWallet
  <2> QED
    BY <2>1, <2>2, HonestMoves DEF LinksInv, HonestPay, contractVars
<1> QED
  BY <1>2, <1>3, <1>4 DEF OneWallet

LEMMA LinksInit == Init => LinksInv
  BY HonestInit DEF Init, Idle, LinksInv, LinkOpen, OneWallet

LEMMA LinksStep == LinksInv /\ [HonestNext]_vars => LinksInv'
<1> SUFFICES ASSUME LinksInv, [HonestNext]_vars PROVE LinksInv'
  OBVIOUS
<1>1. TypeOK /\ SerialLinks /\ LinkOpen /\ [Next]_vars
  BY HonestMoves DEF LinksInv, HonestInv, SignedInv
<1> QED
  BY <1>1, HonestInvStep, LinkOpenStep, OneWalletStep DEF LinksInv

LEMMA LinksInvariant == HonestSpec => []LinksInv
  BY LinksInit, LinksStep, PTL DEF HonestSpec

(***************************************************************************)
(* 'You had linked wallet address' is true while no user has two           *)
(* link-account requests in flight: a linked wallet is never replaced.     *)
(* With two requests it is not, as the run under Spec shows.               *)
(***************************************************************************)
THEOREM SerialLinksLinkOnce == HonestSpec => LinkedOnce
<1>1. LinksInv /\ [HonestNext]_vars =>
        [\A u \in Users :
           wallet_address[u] # NoWallet => wallet_address'[u] = wallet_address[u]]_vars
  BY HonestMoves, LinkKept DEF LinksInv, HonestInv, SignedInv
<1> QED
  BY <1>1, LinksInvariant, PTL DEF HonestSpec, LinkedOnce

--------------------------------------------------------------------------------
(* One SUBMIT of a claim at a time: what was won stays a success *)

\* A verdict still to be written meets a pending claim, or changes nothing.
LateFits ==
  \A x \in late : StatusIs(x[1], "pending") \/ StatusIs(x[1], x[2])

WonIsSuccess == \A k \in won : StatusIs(k, "success")

SubmitsInv == HonestInv /\ LateFits /\ WonIsSuccess

\* A verdict enters late while its claim is pending.
LEMMA LateStep ==
  ASSUME [Next]_vars
  PROVE  \A x \in late' :
           x \in late \/ (StatusIs(x[1], "pending") /\ user_claim_news' = user_claim_news)
<1>1. ASSUME NEW k \in ClaimKeys, NEW v \in Verdicts, SubmitChecked(k, v)
      PROVE  \A x \in late' :
               x \in late \/ (StatusIs(x[1], "pending") /\ user_claim_news' = user_claim_news)
  BY <1>1 DEF SubmitChecked, PassCheck
<1>2. ASSUME NEW k \in ClaimKeys, NEW v \in Verdicts, SettleClaim(k, v)
      PROVE  late' \subseteq late
  BY <1>2 DEF SettleClaim, WriteVerdict
<1>3. ASSUME SubmitFail PROVE late' \subseteq late
  BY <1>3 DEF SubmitFail, GiveUp
<1>4. ASSUME NEW q \in Requests, RequestStep(q) PROVE late' = late
  BY <1>4 DEF RequestStep, LinkAccount, ClaimTokenFind, ClaimTokenSign, RequestFail, rowsVars
<1>5. CASE late' = late
  BY <1>5
<1> QED
  BY <1>1, <1>2, <1>3, <1>4, <1>5
  DEF Next, BackendNext, vars, rowsVars, LinkAccountOnChain, ClaimToken, Transfer,
      VerifyTxHash, OpenClaim, OpenRow, Restart

\* A step takes a row on which a verdict fits to one on which it still fits.
LEMMA FitStep ==
  ASSUME TypeOK, SerialSubmits, [Next]_vars, NEW k \in ClaimKeys, NEW s \in Verdicts,
         <<k, s>> \in late, StatusIs(k, "pending") \/ StatusIs(k, s)
  PROVE  user_claim_news'[k] # NoRow /\ user_claim_news'[k].status \in {"pending", s}
<1>1. Exists(k) /\ user_claim_news[k].status \in {"pending", s}
  BY DEF StatusIs
<1>2. CASE RowKept(k)
  BY <1>1, <1>2 DEF Exists, RowKept
<1>3. CASE RowDecided(k)
  <2>1. PICK v \in Verdicts :
          <<k, v>> \in late /\ user_claim_news'[k] = [user_claim_news[k] EXCEPT !.status = v]
    BY <1>3 DEF RowDecided
  <2>2. v = s
    BY <2>1 DEF SerialSubmits
  <2> QED
    BY <1>1, <1>3, <2>1, <2>2, StatusChange, NoRowAssumption DEF RowDecided
<1>4. CASE RowEarns(k)
  BY <1>1, <1>4, StatusChange, NoRowAssumption DEF RowEarns
<1> QED
  BY <1>1, <1>2, <1>3, <1>4, RowStep DEF RowOpened

LEMMA LateFitsStep ==
  ASSUME TypeOK, SerialSubmits, LateFits, [Next]_vars
  PROVE  LateFits'
<1> SUFFICES ASSUME NEW x \in late'
             PROVE  user_claim_news'[x[1]] # NoRow /\
                    user_claim_news'[x[1]].status \in {"pending", x[2]}
  BY DEF LateFits, StatusIs, Exists
<1>1. CASE x \in late
  <2>1. x[1] \in ClaimKeys /\ x[2] \in Verdicts /\ x = <<x[1], x[2]>>
    BY <1>1 DEF TypeOK, RowsTypeOK
  <2> QED
    BY <1>1, <2>1, FitStep DEF LateFits
<1>2. CASE StatusIs(x[1], "pending") /\ user_claim_news' = user_claim_news
  BY <1>2 DEF StatusIs, Exists
<1> QED
  BY <1>1, <1>2, LateStep

LEMMA WonIsSuccessStep ==
  ASSUME TypeOK, LateFits, WonIsSuccess, [Next]_vars
  PROVE  WonIsSuccess'
<1> SUFFICES ASSUME NEW k \in won'
             PROVE  user_claim_news'[k] # NoRow /\ user_claim_news'[k].status = "success"
  BY DEF WonIsSuccess, StatusIs, Exists
<1>1. CASE k \in won
  <2>1. k \in ClaimKeys /\ Exists(k) /\ user_claim_news[k].status = "success"
    BY <1>1 DEF TypeOK, WonIsSuccess, StatusIs
  <2>2. CASE RowKept(k)
    BY <2>1, <2>2 DEF Exists, RowKept
  <2>3. CASE RowDecided(k)
    <3>1. PICK v \in Verdicts :
            <<k, v>> \in late /\ user_claim_news'[k] = [user_claim_news[k] EXCEPT !.status = v]
      BY <2>3 DEF RowDecided
    <3>2. v = "success"
      BY <2>1, <3>1 DEF LateFits, StatusIs
    <3> QED
      BY <2>1, <2>3, <3>1, <3>2, StatusChange, NoRowAssumption DEF RowDecided
  <2>4. CASE RowEarns(k)
    BY <2>1, <2>4, StatusChange, NoRowAssumption DEF RowEarns
  <2> QED
    BY <2>1, <2>2, <2>3, <2>4, RowStep DEF RowOpened
<1>2. ASSUME NEW j \in ClaimKeys, NEW v \in Verdicts, UpdateStatus(j, v),
             k \in {i \in {j} : v = "success"}
      PROVE  user_claim_news'[k] # NoRow /\ user_claim_news'[k].status = "success"
  <2>1. k = j /\ v = "success"
    BY <1>2
  <2>2. TableTypeOK' /\ Exists(k) /\
        user_claim_news'[k] = [user_claim_news[k] EXCEPT !.status = v]
    BY <1>2, <2>1, TableUpdateType DEF TypeOK, RowsTypeOK
  <2>3. user_claim_news'[k].status = "success"
    BY <1>2, <2>1, <2>2, StatusChange
  <2>4. user_claim_news[k] \in Row
    BY <1>2, <2>1, <2>2, TableRowType DEF TypeOK, RowsTypeOK
  <2>5. [user_claim_news[k] EXCEPT !.status = v] \in Row
    BY <1>2, <2>4 DEF Row, Verdicts, ClaimStatus
  <2> QED
    BY <2>2, <2>3, <2>5, NoRowAssumption
<1>3. won' = won \/ OwnStep
  BY DEF Next, OwnStep, Transfer, VerifyTxHash, historyVars
<1> QED
  BY <1>1, <1>2, <1>3, OwnTableStep

LEMMA SubmitsInvariant == HonestSpec => []SubmitsInv
<1>1. Init => SubmitsInv
  BY HonestInit DEF SubmitsInv, Init, RowsInit, LateFits, WonIsSuccess
<1>2. ASSUME SubmitsInv, [HonestNext]_vars PROVE SubmitsInv'
  <2>1. TypeOK /\ SerialSubmits /\ LateFits /\ WonIsSuccess /\ [Next]_vars
    BY <1>2, HonestMoves DEF SubmitsInv, HonestInv, SignedInv
  <2> QED
    BY <1>2, <2>1, HonestInvStep, LateFitsStep, WonIsSuccessStep DEF SubmitsInv
<1> QED
  BY <1>1, <1>2, PTL DEF HonestSpec

(***************************************************************************)
(* While only the contract's events are verified, permits go with their    *)
(* own ids and no claim has two SUBMITs between the check and the update,  *)
(* a claim with tokens is a success, so countUserClaimNews counts it.      *)
(***************************************************************************)
THEOREM EarnedStaysSuccess == HonestSpec => []EarnedIsSuccess
<1>1. SubmitsInv => EarnedIsSuccess
  BY DEF SubmitsInv, HonestInv, ReceiptsWon, EarnedIsPaid, EarnedIsSuccess, WonIsSuccess
<1> QED
  BY <1>1, SubmitsInvariant, PTL

--------------------------------------------------------------------------------
(* No permit is ahead of the contract *)

\* The news whose tokens the contract paid to the user's wallet w.
PaidNews(u, w) == {n \in News : \E rc \in receipts : rc.claim = <<n, u>> /\ rc.from = w}

\* The contract counts each news it paid for.  It may count more: the repeated
\* payments of a claim, and claims of another user with the same wallet.
PaidIsCounted ==
  \A u \in Users, w \in Wallets : Cardinality(PaidNews(u, w)) <= nonce[w]

PermitsInv == LinksInv /\ PaidIsCounted /\ PermitNotAhead

LEMMA PaidNewsFinite ==
  ASSUME NEW u \in Users, NEW w \in Wallets
  PROVE  IsFiniteSet(PaidNews(u, w)) /\ Cardinality(PaidNews(u, w)) \in Nat
<1>1. PaidNews(u, w) \in SUBSET News
  BY DEF PaidNews
<1>2. IsFiniteSet(PaidNews(u, w))
  BY <1>1, FiniteNewsAssumption, FS_Subset
<1> QED
  BY <1>2, FS_CardinalityType

\* What countUserClaimNews finds was paid to the wallet of the user.
LEMMA CountPaid ==
  ASSUME LinksInv, NEW u \in Users, wallet_address[u] \in Wallets
  PROVE  countUserClaimNews(u) <= Cardinality(PaidNews(u, wallet_address[u]))
<1> DEFINE counted == {n \in News : /\ StatusIs(<<n, u>>, "success")
                                    /\ user_claim_news[<<n, u>>].token_earned # 0}
           paid == PaidNews(u, wallet_address[u])
<1>1. ASSUME NEW n \in counted PROVE n \in paid
  <2>1. <<n, u>> \in ClaimKeys /\ Earned(<<n, u>>)
    BY DEF ClaimKeys, Earned, StatusIs
  <2>2. PICK rc \in receipts : rc.claim = <<n, u>>
    BY <2>1 DEF LinksInv, HonestInv, EarnedIsPaid
  <2>3. rc.from = wallet_address[u]
    BY <2>2 DEF LinksInv, OneWallet
  <2> QED
    BY <2>2, <2>3 DEF PaidNews
<1>2. counted \in SUBSET paid
  BY <1>1
<1>3. IsFiniteSet(paid)
  BY PaidNewsFinite
<1> HIDE DEF counted, paid
<1>4. Cardinality(counted) <= Cardinality(paid)
  BY <1>2, <1>3, FS_Subset
<1> QED
  BY <1>4 DEF countUserClaimNews, counted, paid

LEMMA PaidIsCountedStep ==
  ASSUME LinksInv, PaidIsCounted, [HonestNext]_vars
  PROVE  PaidIsCounted'
<1>0. TypeOK
  BY DEF LinksInv, HonestInv, SignedInv
<1> SUFFICES ASSUME NEW u \in Users, NEW w \in Wallets
             PROVE  Cardinality(PaidNews(u, w)') <= nonce'[w]
  BY DEF PaidIsCounted
<1> DEFINE paid == PaidNews(u, w)
<1>1. IsFiniteSet(paid) /\ Cardinality(paid) \in Nat /\ Cardinality(paid) <= nonce[w]
  BY PaidNewsFinite DEF PaidIsCounted
<1>2. nonce[w] \in Nat
  BY <1>0, ClaimTokenAssumption DEF TypeOK
<1>3. CASE UNCHANGED contractVars
  BY <1>1, <1>3 DEF contractVars, PaidNews
<1>4. ASSUME NEW a \in signed, HonestTransfer(a)
      PROVE  Cardinality(PaidNews(u, w)') <= nonce'[w]
  <2> DEFINE p == a.permit
  <2>1. p.from \in Wallets
    BY <1>0, PaperFields DEF TypeOK
  <2>2. CASE p.from = w
    <3> DEFINE n == a.claim[1]
    <3>1. nonce'[w] = nonce[w] + 1
      BY <1>0, <1>4, <2>1, <2>2 DEF HonestTransfer, Transfer, TypeOK
    <3>2. PaidNews(u, w)' \in SUBSET (paid \cup {n})
      BY <1>4 DEF HonestTransfer, Transfer, PaidNews
    <3> HIDE DEF paid, n
    <3>3. /\ IsFiniteSet(paid \cup {n})
          /\ Cardinality(paid \cup {n}) =
               IF n \in paid THEN Cardinality(paid) ELSE Cardinality(paid) + 1
      BY <1>1, FS_AddElement
    <3>4. /\ Cardinality(PaidNews(u, w)') <= Cardinality(paid \cup {n})
          /\ IsFiniteSet(PaidNews(u, w)')
      BY <3>2, <3>3, FS_Subset
    <3>5. Cardinality(PaidNews(u, w)') \in Nat
      BY <3>4, FS_CardinalityType
    <3> QED
      BY <1>1, <1>2, <3>1, <3>3, <3>4, <3>5
  <2>3. CASE p.from # w
    <3>1. nonce'[w] = nonce[w]
      BY <1>0, <1>4, <2>1, <2>3 DEF HonestTransfer, Transfer, TypeOK
    <3>2. PaidNews(u, w)' = paid
      BY <1>4, <2>3 DEF HonestTransfer, Transfer, PaidNews
    <3> QED
      BY <1>1, <3>1, <3>2
  <2> QED
    BY <2>2, <2>3
<1> QED
  BY <1>3, <1>4, HonestMoves DEF LinksInv, HonestPay

LEMMA NotAheadStep ==
  ASSUME LinksInv, PaidIsCounted, PermitNotAhead, [HonestNext]_vars
  PROVE  PermitNotAhead'
<1>0. TypeOK /\ OneWallet /\ [Next]_vars
  BY HonestMoves DEF LinksInv, HonestInv, SignedInv
<1>1. \A w \in Wallets : nonce[w] \in Nat /\ nonce'[w] \in Nat /\ nonce[w] <= nonce'[w]
  <2>1. CASE UNCHANGED contractVars
    BY <1>0, <2>1, ClaimTokenAssumption DEF contractVars, TypeOK
  <2>2. ASSUME NEW a \in signed, HonestTransfer(a)
        PROVE  \A w \in Wallets : nonce[w] \in Nat /\ nonce'[w] \in Nat /\ nonce[w] <= nonce'[w]
    BY <1>0, <2>2, ClaimTokenAssumption DEF HonestTransfer, Transfer, TypeOK
  <2> QED
    BY <2>1, <2>2, HonestMoves DEF LinksInv, HonestPay
<1>2. SUFFICES ASSUME NEW a \in signed' PROVE a.permit.nonce <= nonce'[a.permit.from]
  BY DEF PermitNotAhead
<1>3. CASE a \in signed
  <2>1. /\ a.permit.nonce \in Nat /\ a.permit.from \in Wallets
        /\ a.permit.nonce <= nonce[a.permit.from]
    BY <1>0, <1>3, PaperFields DEF TypeOK, PermitNotAhead
  <2> QED
    BY <1>1, <2>1
<1>4. ASSUME NEW q \in Requests, ClaimTokenSign(q), a \notin signed
      PROVE  a.permit.nonce <= nonce'[a.permit.from]
  <2> DEFINE u == request[q].claim[2]
  <2>1. a.permit.from = request[q].from /\ a.permit.nonce = countUserClaimNews(u)
    BY <1>4 DEF ClaimTokenSign
  <2>2. u \in Users /\ request[q].from \in Wallets /\ request[q].from = wallet_address[u]
    BY <1>0, <1>4, RequestStepType, RequestFields, KeyType DEF ClaimTokenSign, OneWallet
  <2> HIDE DEF u
  <2>3. countUserClaimNews(u) \in Nat
    BY <2>2, CountType
  <2>4. countUserClaimNews(u) <= Cardinality(PaidNews(u, wallet_address[u]))
    BY <2>2, CountPaid
  <2>5. /\ Cardinality(PaidNews(u, wallet_address[u])) \in Nat
        /\ Cardinality(PaidNews(u, wallet_address[u])) <= nonce[wallet_address[u]]
    BY <2>2, PaidNewsFinite DEF PaidIsCounted
  <2> QED
    BY <1>1, <2>1, <2>2, <2>3, <2>4, <2>5
<1> QED
  BY <1>0, <1>3, <1>4, HandsMove

(***************************************************************************)
(* For readers who keep to the protocol no permit is ahead of the          *)
(* contract, also where users share a wallet or ids are paid for twice: a  *)
(* nonce is the number of the reader's news verified, each of them was     *)
(* paid to the one wallet the reader ever has, and the contract has        *)
(* counted each payment.                                                   *)
(***************************************************************************)
THEOREM PermitsNotAhead == HonestSpec => []PermitNotAhead
<1>1. Init => PermitsInv
  <2>1. ASSUME Init, NEW u \in Users, NEW w \in Wallets
        PROVE  Cardinality(PaidNews(u, w)) <= nonce[w]
    <3>1. PaidNews(u, w) = {} /\ nonce[w] = 0
      BY <2>1 DEF Init, PaidNews
    <3> QED
      BY <3>1, FS_EmptySet
  <2>2. Init => PermitNotAhead
    BY DEF Init, PermitNotAhead
  <2> QED
    BY <2>1, <2>2, LinksInit DEF PermitsInv, PaidIsCounted
<1>2. PermitsInv /\ [HonestNext]_vars => PermitsInv'
  BY LinksStep, PaidIsCountedStep, NotAheadStep DEF PermitsInv
<1>3. PermitsInv => PermitNotAhead
  BY DEF PermitsInv
<1> QED
  BY <1>1, <1>2, <1>3, PTL DEF HonestSpec
================================================================================
