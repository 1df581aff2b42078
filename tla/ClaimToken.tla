------------------------------ MODULE ClaimToken -------------------------------
(***************************************************************************)
(* From a successful claim to tokens in the reader's wallet: the reader    *)
(* links a wallet (link-account), asks for a signed permit (PUT            *)
(* managed-claim), hands it to the contract, and shows the transaction to  *)
(* the backend (managed-claim/verify), which stores what was earned.       *)
(*                                                                         *)
(* What is signed is a wallet, a token, a nonce and a value.  The claim's  *)
(* transaction id is in the answer, but not in what is signed; the         *)
(* contract takes the id that comes with the permit, whatever it is, and   *)
(* managed-claim/verify takes the id in the last log of any transaction.   *)
(* What holds all the same is SignedOnlyIfWon, of what the backend signs.  *)
(* The rest is about readers who keep to the protocol (HonestSpec).        *)
(*                                                                         *)
(* The contract keeps the next nonce of each wallet; the backend keeps     *)
(* none and COUNTS the reader's verified claims.  The contract is not in   *)
(* the repository.  What is modelled of it is what the message and the     *)
(* events in the source fix: it accepts a permit with the wallet's next    *)
(* nonce, and emits ClaimToken with a transaction id.                      *)
(*                                                                         *)
(* Claims are opened and decided as GatewayRows says: a late verdict may   *)
(* change a claim that is already decided, even one that is already paid.  *)
(***************************************************************************)
EXTENDS GatewayRows, FiniteSets

CONSTANTS
  Wallets,       \* addresses
  NoWallet,      \* wallet_address is null
  Requests,      \* places for HTTP requests in flight
  TokenValue,    \* [News -> Nat], tokenValue of the contract's events on a news
  LogValues,     \* tokenValue of any log that reads as a ClaimToken event
  RepeatPays,    \* does the contract take an id that it has paid for?
  MaxNonce       \* the contract stops here: bounds the transfers

VARIABLES
  wallet_address,  \* the column of table user
  request,         \* requests in flight
  signed,          \* the answers of claimToken, in the readers' hands
  nonce,           \* the contract: next nonce of each wallet
  receipts,        \* the contract's ClaimToken events, found by their txhash
  won,             \* history: the claims that were a success at some time
  linked           \* history: the wallets each user has linked

contractVars == <<nonce, receipts>>
historyVars  == <<won, linked>>
vars == <<rowsVars, wallet_address, request, signed, contractVars, historyVars>>

\* What is signed.  The value, total_supply, is the news's.
Permit == [from: Wallets, news: News, nonce: Nat]

\* The transaction id, here the claim and the random part, is not signed.
Answer == [permit: Permit, claim: ClaimKeys, id: Nanoids]

\* A ClaimToken event, with the transaction id that came with the permit.
Receipt == [from: Wallets, news: News, claim: ClaimKeys, id: Nanoids]

Idle == [step |-> "idle"]
LinkRequest == [step: {"link_store"}, user: Users, wallet: Wallets]
FindRequest == [step: {"claim_find"}, claim: ClaimKeys, from: Wallets]
CountRequest == [step: {"claim_count"}, claim: ClaimKeys, from: Wallets, id: Nanoids]

\* The table of news is finite, so countUserClaimNews is a number.
ASSUME FiniteNewsAssumption == IsFiniteSet(News)

ASSUME ClaimTokenAssumption ==
  /\ NoWallet \notin Wallets
  /\ LogValues \subseteq Nat
  /\ TokenValue \in [News -> LogValues]
  /\ RepeatPays \in BOOLEAN
  /\ MaxNonce \in Nat

Init ==
  /\ RowsInit
  /\ wallet_address = [u \in Users |-> NoWallet]
  /\ request = [q \in Requests |-> Idle]
  /\ signed = {}
  /\ nonce = [w \in Wallets |-> 0]
  /\ receipts = {}
  /\ won = {}
  /\ linked = [u \in Users |-> {}]

Finish(q) == request' = [request EXCEPT ![q] = Idle]

--------------------------------------------------------------------------------
(* POST user/link-account *)

(***************************************************************************)
(* The guard has read the user; linkAccountOnChain sees no wallet in what  *)
(* it read and awaits the check of the signature.  Several users may link  *)
(* one wallet: the column is not unique.                                   *)
(***************************************************************************)
LinkAccountOnChain(q, u, w) ==
  /\ request[q] = Idle
  /\ wallet_address[u] = NoWallet
  /\ request' = [request EXCEPT ![q] = [step |-> "link_store", user |-> u, wallet |-> w]]
  /\ UNCHANGED <<rowsVars, wallet_address, signed, contractVars, historyVars>>

\* linkAccount: an update by the user's id.
LinkAccount(q) ==
  /\ request[q].step = "link_store"
  /\ wallet_address' = [wallet_address EXCEPT ![request[q].user] = request[q].wallet]
  /\ linked' = [linked EXCEPT ![request[q].user] = @ \cup {request[q].wallet}]
  /\ Finish(q)
  /\ UNCHANGED <<rowsVars, signed, contractVars, won>>

--------------------------------------------------------------------------------
(* PUT news/managed-claim *)

\* Mutant of ClaimToken: 'Please link wallet!' is not asked.
ClaimTokenUnlinked(q, k) ==
  /\ request[q] = Idle
  /\ request' = [request EXCEPT ![q] =
       [step |-> "claim_find", claim |-> k, from |-> wallet_address[k[2]]]]
  /\ UNCHANGED <<rowsVars, wallet_address, signed, contractVars, historyVars>>

\* The guard has read the user, who has a wallet; await the news and the row.
ClaimToken(q, k) ==
  /\ request[q] = Idle
  /\ wallet_address[k[2]] # NoWallet
  /\ request' = [request EXCEPT ![q] =
       [step |-> "claim_find", claim |-> k, from |-> wallet_address[k[2]]]]
  /\ UNCHANGED <<rowsVars, wallet_address, signed, contractVars, historyVars>>

\* Mutant of ClaimTokenFind: only a failure is turned away.
ClaimTokenFindNoFailure(q) ==
  /\ request[q].step = "claim_find"
  /\ LET k == request[q].claim
     IN IF Exists(k) /\ ~StatusIs(k, "failure")
        THEN request' = [request EXCEPT ![q] =
               [step |-> "claim_count", claim |-> k, from |-> request[q].from,
                id |-> user_claim_news[k].transaction_id]]
        ELSE Finish(q)
  /\ UNCHANGED <<rowsVars, wallet_address, signed, contractVars, historyVars>>

(***************************************************************************)
(* The row is a success: await countUserClaimNews.  token_earned is not    *)
(* looked at (the TODO of claimToken).  Anything else is 'You not claim    *)
(* token here!'.                                                           *)
(***************************************************************************)
ClaimTokenFind(q) ==
  /\ request[q].step = "claim_find"
  /\ LET k == request[q].claim
     IN IF StatusIs(k, "success")
        THEN request' = [request EXCEPT ![q] =
               [step |-> "claim_count", claim |-> k, from |-> request[q].from,
                id |-> user_claim_news[k].transaction_id]]
        ELSE Finish(q)
  /\ UNCHANGED <<rowsVars, wallet_address, signed, contractVars, historyVars>>

\* Mutant of countUserClaimNews: claims not verified yet count too.
countSuccesses(u) == Cardinality({n \in News : StatusIs(<<n, u>>, "success")})

\* Mutant of countUserClaimNews: the column nonce_for_earn, which nobody writes.
nonceForEarn(u) == 0

countUserClaimNews(u) ==
  Cardinality({n \in News : /\ StatusIs(<<n, u>>, "success")
                            /\ user_claim_news[<<n, u>>].token_earned # 0})

\* The count is the nonce; sign and answer.
ClaimTokenSign(q) ==
  /\ request[q].step = "claim_count"
  /\ LET k == request[q].claim
     IN signed' = signed \cup
          {[permit |-> [from |-> request[q].from, news |-> k[1],
                        nonce |-> countUserClaimNews(k[2])],
            claim |-> k, id |-> request[q].id]}
  /\ Finish(q)
  /\ UNCHANGED <<rowsVars, wallet_address, contractVars, historyVars>>

\* An await of a request rejects.
RequestFail(q) ==
  /\ request[q] # Idle
  /\ Finish(q)
  /\ UNCHANGED <<rowsVars, wallet_address, signed, contractVars, historyVars>>

Restart ==
  /\ request' = [q \in Requests |-> Idle]
  /\ UNCHANGED <<rowsVars, wallet_address, signed, contractVars, historyVars>>

--------------------------------------------------------------------------------
(* The contract, and GET news/managed-claim/verify/:txhash *)

\* Somebody hands a permit to the contract, with a transaction id.
Transfer(p, k, id) ==
  /\ p.nonce = nonce[p.from]
  /\ nonce[p.from] < MaxNonce
  /\ RepeatPays \/ ~\E rc \in receipts : rc.claim = k /\ rc.id = id
  /\ nonce' = [nonce EXCEPT ![p.from] = @ + 1]
  /\ receipts' = receipts \cup {[from |-> p.from, news |-> p.news, claim |-> k, id |-> id]}
  /\ UNCHANGED <<rowsVars, wallet_address, request, signed, historyVars>>

(***************************************************************************)
(* decodeTxHash takes the last log of the transaction that txhash names    *)
(* for a ClaimToken event: the address that emitted it, the status of the  *)
(* transaction and the reader who asks are not looked at, nor does the row *)
(* have to be a success.  updateTokenEarned stores the value.              *)
(***************************************************************************)
VerifyTxHash(k, id, value) ==
  /\ UpdateTokenEarned(k, id, value)
  /\ UNCHANGED <<late, wallet_address, request, signed, contractVars, historyVars>>

--------------------------------------------------------------------------------
(* The tracking gateway, as GatewayRows *)

OpenClaim(k) ==
  /\ OpenRow(k)
  /\ UNCHANGED <<wallet_address, request, signed, contractVars, historyVars>>

SubmitChecked(k, v) ==
  /\ PassCheck(k, v)
  /\ UNCHANGED <<wallet_address, request, signed, contractVars, historyVars>>

SettleClaim(k, v) ==
  /\ WriteVerdict(k, v)
  /\ won' = won \cup {j \in {k} : v = "success"}
  /\ UNCHANGED <<wallet_address, request, signed, contractVars, linked>>

SubmitFail ==
  /\ GiveUp
  /\ UNCHANGED <<wallet_address, request, signed, contractVars, historyVars>>

--------------------------------------------------------------------------------
RequestStep(q) ==
  LinkAccount(q) \/ ClaimTokenFind(q) \/ ClaimTokenSign(q) \/ RequestFail(q)

BackendNext ==
  \/ \E q \in Requests, u \in Users, w \in Wallets : LinkAccountOnChain(q, u, w)
  \/ \E q \in Requests, k \in ClaimKeys : ClaimToken(q, k)
  \/ \E q \in Requests : RequestStep(q)
  \/ \E k \in ClaimKeys : OpenClaim(k)
  \/ \E k \in ClaimKeys, v \in Verdicts : SubmitChecked(k, v) \/ SettleClaim(k, v)
  \/ SubmitFail
  \/ Restart

\* Any id with any permit; any log that reads as a ClaimToken event.
Next ==
  \/ BackendNext
  \/ \E a \in signed, k \in ClaimKeys, id \in Nanoids : Transfer(a.permit, k, id)
  \/ \E k \in ClaimKeys, id \in Nanoids, v \in LogValues : VerifyTxHash(k, id, v)

Spec == Init /\ [][Next]_vars

--------------------------------------------------------------------------------
(* Readers who keep to the protocol *)

Linking(u) == {q \in Requests : request[q].step = "link_store" /\ request[q].user = u}

\* No user has two link-account requests in flight.
SerialLinks == \A u \in Users : \A q, r \in Linking(u) : q = r

\* No claim has two SUBMITs between the check and the update.
SerialSubmits == \A x, y \in late : x[1] = y[1] => x = y

\* A permit goes to the contract with the id it was answered with.
HonestTransfer(a) == Transfer(a.permit, a.claim, a.id)

\* Only events of the contract are verified.
HonestVerify(rc) == VerifyTxHash(rc.claim, rc.id, TokenValue[rc.news])

(***************************************************************************)
(* None of this is enforced by the backend: the ids that come with the     *)
(* permits are their own, the transactions verified are the contract's,    *)
(* and nobody links or submits twice at once.                              *)
(***************************************************************************)
HonestNext ==
  /\ \/ BackendNext
     \/ \E a \in signed : HonestTransfer(a)
     \/ \E rc \in receipts : HonestVerify(rc)
  /\ SerialLinks'
  /\ SerialSubmits'

HonestSpec == Init /\ [][HonestNext]_vars

--------------------------------------------------------------------------------
(* Properties *)

\* Every variable stays in its type: an answer always names a linked wallet.
TypeOK ==
  /\ RowsTypeOK
  /\ wallet_address \in [Users -> Wallets \cup {NoWallet}]
  /\ request \in [Requests -> LinkRequest \cup FindRequest \cup CountRequest \cup {Idle}]
  /\ signed \subseteq Answer
  /\ nonce \in [Wallets -> 0 .. MaxNonce]
  /\ receipts \subseteq Receipt
  /\ won \subseteq ClaimKeys
  /\ linked \in [Users -> SUBSET Wallets]

(***************************************************************************)
(* Whatever transactions are verified and whatever the contract is given:  *)
(* the backend signs only for a claim that was a success at some time, for *)
(* a wallet that the claim's reader had linked at some time, and with the  *)
(* row's transaction id.  Guard, status check, count and signature are     *)
(* awaits apart, and none of them looks again at what the ones before saw; *)
(* meanwhile verdicts and wallets may be replaced.                         *)
(***************************************************************************)
SignedOnlyIfWon ==
  \A a \in signed :
    /\ a.claim \in won
    /\ a.permit.from \in linked[a.claim[2]]
    /\ Exists(a.claim) /\ user_claim_news[a.claim].transaction_id = a.id

(***************************************************************************)
(* 'You had linked wallet address': a wallet, once linked, is kept.  The   *)
(* check is on the user read by the guard, the update comes an await later *)
(* and does not ask, so two requests can both link.                        *)
(***************************************************************************)
LinkedOnce ==
  [][\A u \in Users :
       wallet_address[u] # NoWallet => wallet_address'[u] = wallet_address[u]]_vars

(***************************************************************************)
(* Of HonestSpec: no permit is ahead of the contract.  What claimToken     *)
(* signs can be used at once or never, so the order in which a reader's    *)
(* permits are signed, transferred and verified cannot make an old permit  *)
(* valid again, also when the wallet is shared with another user.          *)
(***************************************************************************)
PermitNotAhead == \A a \in signed : a.permit.nonce <= nonce[a.permit.from]

Earned(k) == Exists(k) /\ user_claim_news[k].token_earned # 0

(***************************************************************************)
(* Of HonestSpec: a claim with tokens is a success, so countUserClaimNews  *)
(* counts it.  A second SUBMIT that passed the status check while the      *)
(* claim was pending could still turn it into a failure, and the reader's  *)
(* nonce would fall behind the contract's for good.                        *)
(***************************************************************************)
EarnedIsSuccess == \A k \in ClaimKeys : Earned(k) => StatusIs(k, "success")

--------------------------------------------------------------------------------
(* Progress *)

(***************************************************************************)
(* The reader keeps trying: links, asks for permits, hands the newest to   *)
(* the contract, verifies; and the requests do not fail forever.           *)
(***************************************************************************)
ReaderFairness ==
  /\ \A u \in Users :
       /\ SF_vars(\E q \in Requests, w \in Wallets : LinkAccountOnChain(q, u, w))
       /\ SF_vars(\E q \in Linking(u) : LinkAccount(q))
  /\ \A k \in ClaimKeys :
       LET Asking == {q \in Requests : /\ request[q].step \in {"claim_find", "claim_count"}
                                       /\ request[q].claim = k}
       IN /\ SF_vars(\E q \in Requests : ClaimToken(q, k))
          /\ SF_vars(\E q \in Asking : ClaimTokenFind(q))
          /\ SF_vars(\E q \in Asking : ClaimTokenSign(q))
          /\ SF_vars(\E a \in signed : a.claim = k /\ HonestTransfer(a))
          /\ SF_vars(\E rc \in receipts : rc.claim = k /\ HonestVerify(rc))

RequestFairness == \A q \in Requests : WF_vars(RequestStep(q))

FairSpec == HonestSpec /\ RequestFairness /\ ReaderFairness

\* Another user has linked the same wallet: the two counts share one nonce.
Shared(w) == \E u, v \in Users : u # v /\ wallet_address[u] = w /\ wallet_address[v] = w

\* The contract has paid for one id twice (the TODO of claimToken).
PaidTwice(w) == Cardinality({rc \in receipts : rc.from = w}) < nonce[w]

NonceLost(w) == w # NoWallet /\ (Shared(w) \/ PaidTwice(w))

(***************************************************************************)
(* A successful claim is paid and recorded in the end, also when several   *)
(* claims of one reader ask for permits with the same nonce and only one   *)
(* of them can be used.  Where the wallet is shared or was paid twice for  *)
(* one claim the count stays behind the nonce, and nothing is promised.    *)
(***************************************************************************)
SuccessIsEarned ==
  \A k \in ClaimKeys :
    StatusIs(k, "success") ~>
      Earned(k) \/ NonceLost(wallet_address[k[2]])
================================================================================
