------------------------------ MODULE NewsService ------------------------------
(***************************************************************************)
(* The table user_claim_news, as prisma/schema.prisma declares it and as   *)
(* news.service.ts reads and writes it.  A row is one reader's claim on    *)
(* one news; its primary key is the pair (news_id, user_id).               *)
(*                                                                         *)
(* Each operator below is ONE statement sent to PostgreSQL, hence atomic.  *)
(* The methods of NewsService that await several of them are actions of    *)
(* the modules that EXTEND this one, split at every await.                 *)
(***************************************************************************)
EXTENDS Naturals

CONSTANTS
  Users,    \* user ids
  News,     \* news ids
  Nanoids,  \* the values generateRandom() draws for transaction ids
  NoRow     \* "no row with this key", Prisma's null

VARIABLE
  user_claim_news   \* the table: [ClaimKeys -> Row \cup {NoRow}]

ClaimStatus == {"pending", "success", "failure"}

\* What a SUBMIT may decide.
Verdicts == {"success", "failure"}

ClaimKeys == News \X Users

(***************************************************************************)
(* transaction_id is `transaction#${user.id}_${news.id}_${generateRandom()}`. *)
(* The row's key already tells user and news, so only the random part is   *)
(* kept.  token_earned is a decimal string in the code, a number here.     *)
(***************************************************************************)
Row == [transaction_id: Nanoids, status: ClaimStatus, token_earned: Nat]

ASSUME NoRowAssumption == NoRow \notin Row

TableTypeOK == user_claim_news \in [ClaimKeys -> Row \cup {NoRow}]

TableInit == user_claim_news = [k \in ClaimKeys |-> NoRow]

\* findUserClaimNewsById returns a row.
Exists(k) == user_claim_news[k] # NoRow

StatusIs(k, s) == Exists(k) /\ user_claim_news[k].status = s

Settled(k) == StatusIs(k, "success") \/ StatusIs(k, "failure")

\* Mutant of InsertRow: an upsert, which makes a new row over an old one.
UpsertRow(k, id) ==
  user_claim_news' =
    [user_claim_news EXCEPT ![k] =
       [transaction_id |-> id, status |-> "pending", token_earned |-> 0]]

(***************************************************************************)
(* The create at the end of createUserClaimNews.  The primary key makes    *)
(* the statement fail when the row is there.                               *)
(***************************************************************************)
InsertRow(k, id) ==
  /\ ~Exists(k)
  /\ user_claim_news' =
       [user_claim_news EXCEPT ![k] =
          [transaction_id |-> id, status |-> "pending", token_earned |-> 0]]

(***************************************************************************)
(* The update at the end of updateStatusUserClaimNews.  Its WHERE clause   *)
(* names the primary key only: it does not ask for the status it expects.  *)
(***************************************************************************)
UpdateStatus(k, s) ==
  /\ Exists(k)
  /\ user_claim_news' = [user_claim_news EXCEPT ![k].status = s]

\* updateTokenEarned: one update that finds the row by its transaction id.
UpdateTokenEarned(k, id, value) ==
  /\ Exists(k) /\ user_claim_news[k].transaction_id = id
  /\ user_claim_news' = [user_claim_news EXCEPT ![k].token_earned = value]

================================================================================
