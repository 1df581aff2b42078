---------------------------- MODULE NewsCacheProofs ----------------------------
(***************************************************************************)
(* Proofs about the cache of the news, for any slugs, cids and calls in    *)
(* flight, whichever slugs two news share and whichever are also asked     *)
(* for as wallet addresses.                                                *)
(***************************************************************************)
EXTENDS NewsCache, TLAPS

FetchCall == [step: {"fetch"}, slug: Slugs, stored: BOOLEAN]
SetCall == [step: {"set"}, slug: Slugs, stored: BOOLEAN, value: Fetched]
CallType == FetchCall \cup SetCall \cup {Idle}
AnswerType == [value: Found \cup {NoEntry}, stored: BOOLEAN]

TypeOK ==
  /\ news \subseteq Cids
  /\ cache \in [Slugs -> Found \cup {NoEntry}]
  /\ lookup \in [Lookups -> CallType]
  /\ answer \in [Slugs -> AnswerType]

(***************************************************************************)
(* The reader is given a news with the slug of the request, or none, or a  *)
(* nonce, the latter only if a sign-in message was asked for the slug.     *)
(***************************************************************************)
AnswerIsStored ==
  \A s \in Slugs : answer[s].value \in WithSlug(s) \cup {Null, NoEntry} \cup NonceUnder(s)

(***************************************************************************)
(* Inductive because no row is ever deleted or given another slug: a value *)
(* read once is right when it is put into the cache, and stays right for   *)
(* as long as it is there.                                                 *)
(***************************************************************************)
CacheInv == TypeOK /\ EntryIsStored /\ AnswerIsStored

\* A call whose step is known is of the kind that has this step.
LEMMA CallStep ==
  ASSUME TypeOK, NEW q \in Lookups
  PROVE  /\ lookup[q].step = "fetch" => lookup[q] \in FetchCall
         /\ lookup[q].step = "set" => lookup[q] \in SetCall
<1>1. lookup[q] \in FetchCall \cup SetCall \cup {Idle}
  BY DEF TypeOK, CallType
<1>2. ASSUME lookup[q] \in FetchCall PROVE lookup[q].step = "fetch"
  BY <1>2 DEF FetchCall
<1>3. ASSUME lookup[q] \in SetCall PROVE lookup[q].step = "set"
  BY <1>3 DEF SetCall
<1>4. ASSUME lookup[q] = Idle PROVE lookup[q].step = "idle"
  BY <1>4 DEF Idle
<1> QED
  BY <1>1, <1>2, <1>3, <1>4

\* What findFirst may give is a row with the slug, or null.
LEMMA FetchStep ==
  ASSUME TypeOK, NEW q \in Lookups, Fetch(q)
  PROVE  \E v \in WithSlug(lookup[q].slug) \cup {Null} :
           /\ v \in Fetched
           /\ [step |-> "set", slug |-> lookup[q].slug,
               stored |-> lookup[q].stored, value |-> v] \in SetCall
           /\ lookup' = [lookup EXCEPT ![q] =
                [step |-> "set", slug |-> lookup[q].slug,
                 stored |-> lookup[q].stored, value |-> v]]
<1>1. lookup[q] \in FetchCall
  BY CallStep DEF Fetch, FetchAmong
<1>2. PICK v \in WithSlug(lookup[q].slug) \cup {Null} :
        lookup' = [lookup EXCEPT ![q] =
          [step |-> "set", slug |-> lookup[q].slug, stored |-> lookup[q].stored, value |-> v]]
  BY DEF Fetch, FetchAmong, TypeOK
<1>3. v \in Fetched
  BY DEF WithSlug, Fetched, TypeOK
<1>4. [step |-> "set", slug |-> lookup[q].slug,
       stored |-> lookup[q].stored, value |-> v] \in SetCall
  BY <1>1, <1>3 DEF FetchCall, SetCall
<1> QED
  BY <1>2, <1>3, <1>4

LEMMA TypeStep ==
  ASSUME TypeOK, [Next]_vars
  PROVE  TypeOK'
<1>0. Idle \in CallType
  BY DEF CallType
<1>1. ASSUME NEW c \in Cids, CreateNews(c) PROVE TypeOK'
  BY <1>1 DEF CreateNews, TypeOK
<1>2. ASSUME NEW s \in Slugs, LookupHit(s) PROVE TypeOK'
  <2>1. [value |-> cache[s], stored |-> Stored(s)] \in AnswerType
    BY DEF TypeOK, AnswerType, Stored
  <2> QED
    BY <1>2, <2>1 DEF LookupHit, TypeOK
<1>3. ASSUME NEW q \in Lookups, NEW s \in Slugs, LookupMiss(q, s) PROVE TypeOK'
  <2>1. [step |-> "fetch", slug |-> s, stored |-> Stored(s)] \in CallType
    BY DEF CallType, FetchCall, Stored
  <2> QED
    BY <1>3, <2>1 DEF LookupMiss, TypeOK
<1>4. ASSUME NEW q \in Lookups, Fetch(q) PROVE TypeOK'
  BY <1>4, FetchStep DEF Fetch, FetchAmong, TypeOK, CallType
<1>5. ASSUME NEW q \in Lookups, SetCache(q) PROVE TypeOK'
  <2>1. lookup[q] \in SetCall
    BY <1>5, CallStep DEF SetCache
  <2>2. /\ lookup[q].slug \in Slugs /\ lookup[q].value \in Fetched
        /\ [value |-> lookup[q].value, stored |-> lookup[q].stored] \in AnswerType
    BY <2>1 DEF SetCall, AnswerType, Found
  <2> QED
    BY <1>0, <1>5, <2>2 DEF SetCache, TypeOK, Found
<1>6. ASSUME NEW q \in Lookups, FetchFail(q) PROVE TypeOK'
  BY <1>0, <1>6 DEF FetchFail, TypeOK
<1>7. ASSUME NEW s \in Slugs, Expire(s) PROVE TypeOK'
  BY <1>7 DEF Expire, TypeOK
<1>8. ASSUME Restart PROVE TypeOK'
  BY <1>0, <1>8 DEF Restart, TypeOK
<1>9. ASSUME UNCHANGED vars PROVE TypeOK'
  BY <1>9 DEF vars, TypeOK
<1>10. ASSUME NEW s \in NonceKeys, SigninMessage(s) PROVE TypeOK'
  BY <1>10 DEF SigninMessage, TypeOK, Found
<1>11. ASSUME NEW s \in Slugs, Evict(s) PROVE TypeOK'
  BY <1>11 DEF Evict, TypeOK
<1> QED
  BY <1>1, <1>2, <1>3, <1>4, <1>5, <1>6, <1>7, <1>8, <1>9, <1>10, <1>11
  DEF Next, LookupStep

LEMMA StoredStep ==
  ASSUME CacheInv, [Next]_vars
  PROVE  EntryIsStored' /\ AnswerIsStored'
<1>0. TypeOK /\ EntryIsStored /\ AnswerIsStored
  BY DEF CacheInv
<1>1. ASSUME NEW c \in Cids, CreateNews(c) PROVE EntryIsStored' /\ AnswerIsStored'
  BY <1>0, <1>1 DEF CreateNews, EntryIsStored, AnswerIsStored, WithSlug
<1>2. ASSUME NEW s \in Slugs, LookupHit(s) PROVE EntryIsStored' /\ AnswerIsStored'
  BY <1>0, <1>2 DEF LookupHit, EntryIsStored, AnswerIsStored, WithSlug, TypeOK
<1>3. ASSUME NEW q \in Lookups, NEW s \in Slugs, LookupMiss(q, s)
      PROVE  EntryIsStored' /\ AnswerIsStored'
  <2>1. lookup'[q].step = "fetch" /\ \A p \in Lookups : p # q => lookup'[p] = lookup[p]
    BY <1>0, <1>3 DEF LookupMiss, TypeOK
  <2> QED
    BY <1>0, <1>3, <2>1 DEF LookupMiss, EntryIsStored, AnswerIsStored, WithSlug
<1>4. ASSUME NEW q \in Lookups, Fetch(q) PROVE EntryIsStored' /\ AnswerIsStored'
  <2>1. PICK v \in WithSlug(lookup[q].slug) \cup {Null} :
          lookup' = [lookup EXCEPT ![q] =
            [step |-> "set", slug |-> lookup[q].slug, stored |-> lookup[q].stored, value |-> v]]
    BY <1>0, <1>4, FetchStep
  <2>2. /\ lookup'[q].slug = lookup[q].slug /\ lookup'[q].value = v
        /\ \A p \in Lookups : p # q => lookup'[p] = lookup[p]
    BY <1>0, <2>1 DEF TypeOK
  <2>3. UNCHANGED <<news, cache, answer>>
    BY <1>4 DEF Fetch, FetchAmong
  <2> QED
    BY <1>0, <2>2, <2>3 DEF EntryIsStored, AnswerIsStored, WithSlug
<1>5. ASSUME NEW q \in Lookups, SetCache(q) PROVE EntryIsStored' /\ AnswerIsStored'
  <2>1. lookup'[q].step = "idle" /\ \A p \in Lookups : p # q => lookup'[p] = lookup[p]
    BY <1>0, <1>5 DEF SetCache, Idle, TypeOK
  <2>2. lookup[q].value \in WithSlug(lookup[q].slug) \cup {Null}
    BY <1>0, <1>5 DEF SetCache, EntryIsStored
  <2> QED
    BY <1>0, <1>5, <2>1, <2>2 DEF SetCache, EntryIsStored, AnswerIsStored, WithSlug, TypeOK
<1>6. ASSUME NEW q \in Lookups, FetchFail(q) PROVE EntryIsStored' /\ AnswerIsStored'
  <2>1. lookup'[q].step = "idle" /\ \A p \in Lookups : p # q => lookup'[p] = lookup[p]
    BY <1>0, <1>6 DEF FetchFail, Idle, TypeOK
  <2> QED
    BY <1>0, <1>6, <2>1 DEF FetchFail, EntryIsStored, AnswerIsStored, WithSlug
<1>7. ASSUME NEW s \in Slugs, Expire(s) PROVE EntryIsStored' /\ AnswerIsStored'
  BY <1>0, <1>7 DEF Expire, EntryIsStored, AnswerIsStored, WithSlug, TypeOK
<1>8. ASSUME Restart PROVE EntryIsStored' /\ AnswerIsStored'
  BY <1>0, <1>8 DEF Restart, EntryIsStored, AnswerIsStored, WithSlug, Idle
<1>9. ASSUME UNCHANGED vars PROVE EntryIsStored' /\ AnswerIsStored'
  BY <1>0, <1>9 DEF vars, EntryIsStored, AnswerIsStored, WithSlug
<1>10. ASSUME NEW s \in NonceKeys, SigninMessage(s) PROVE EntryIsStored' /\ AnswerIsStored'
  <2>1. NonceUnder(s) = {Nonce} /\ cache' = [cache EXCEPT ![s] = Nonce]
    BY <1>10 DEF SigninMessage, NonceUnder
  <2> QED
    BY <1>0, <1>10, <2>1 DEF SigninMessage, EntryIsStored, AnswerIsStored, WithSlug, TypeOK
<1>11. ASSUME NEW s \in Slugs, Evict(s) PROVE EntryIsStored' /\ AnswerIsStored'
  BY <1>0, <1>11 DEF Evict, EntryIsStored, AnswerIsStored, WithSlug, TypeOK
<1> QED
  BY <1>1, <1>2, <1>3, <1>4, <1>5, <1>6, <1>7, <1>8, <1>9, <1>10, <1>11
  DEF Next, LookupStep

LEMMA CacheInvariant == Spec => []CacheInv
<1>1. Init => CacheInv
  BY DEF Init, CacheInv, TypeOK, EntryIsStored, AnswerIsStored, AnswerType, CallType, Idle,
    Found
<1>2. CacheInv /\ [Next]_vars => CacheInv'
  BY TypeStep, StoredStep DEF CacheInv
<1> QED
  BY <1>1, <1>2, PTL DEF Spec

(***************************************************************************)
(* A look-up is about to cache, under the slug it was asked for, only a    *)
(* news stored with it or "nothing there"; the cache holds one of these,   *)
(* or a nonce if a sign-in message was asked for the slug.                 *)
(***************************************************************************)
THEOREM CacheHoldsStored == Spec => []EntryIsStored
<1>1. CacheInv => EntryIsStored
  BY DEF CacheInv
<1> QED
  BY <1>1, CacheInvariant, PTL

(***************************************************************************)
(* GET news/:slug gives nobody the news of another slug, nor a nonce of    *)
(* another key, whichever calls, entries, evictions and restarts come      *)
(* between the question and the answer.                                    *)
(***************************************************************************)
THEOREM AnswersAreStored == Spec => []AnswerIsStored
<1>1. CacheInv => AnswerIsStored
  BY DEF CacheInv
<1> QED
  BY <1>1, CacheInvariant, PTL
================================================================================
