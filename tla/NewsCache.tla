------------------------------- MODULE NewsCache -------------------------------
(***************************************************************************)
(* News by slug: createNews stores a row, findNewsBySlug reads it through  *)
(* the in-memory cache (fetchCacheable).  Nothing tells the cache of a new *)
(* row.  Two calls for one slug are not joined: each that finds no entry   *)
(* asks the database and stores what it got.  Prisma's null is a value     *)
(* like any other and is cached too.                                       *)
(*                                                                         *)
(* The cache is the one of the whole application.  signin-message of the   *)
(* authentication keeps its nonces in it, under whatever its header        *)
(* x-wallet-address says, a slug included, and without an end.             *)
(*                                                                         *)
(* Time is left out: an entry of wrap may go at any moment, its ttl being  *)
(* over; any entry may go when the store, bounded to 100 keys, needs the   *)
(* place.                                                                  *)
(***************************************************************************)
EXTENDS Naturals

CONSTANTS
  Slugs,
  Cids,
  EventSlug,   \* [Cids -> Slugs], slug of the CreateNews event sent with the cid
  NonceKeys,   \* the slugs that signin-message is asked for as well
  Lookups,     \* places for findNewsBySlug calls in flight
  Nonce,       \* a nonce, which is a string
  Null,        \* findFirst finds nothing
  NoEntry      \* the cache has no entry

VARIABLES
  news,     \* the table, as the set of cids stored (cid is unique)
  cache,    \* [Slugs -> Found \cup {NoEntry}]
  lookup,   \* calls in flight
  answer    \* history: the last answer of GET news/:slug, and whether a news
            \* with the slug was stored when the request came

vars == <<news, cache, lookup, answer>>

\* What fetchCacheable caches, and what it may find there.
Fetched == Cids \cup {Null}
Found == Fetched \cup {Nonce}

Idle == [step |-> "idle"]
WithSlug(s) == {c \in news : EventSlug[c] = s}

Stored(s) == WithSlug(s) # {}

ASSUME NewsCacheAssumption ==
  /\ EventSlug \in [Cids -> Slugs]
  /\ NonceKeys \subseteq Slugs
  /\ Null \notin Cids /\ Nonce \notin Fetched /\ NoEntry \notin Found

Init ==
  /\ news = {}
  /\ cache = [s \in Slugs |-> NoEntry]
  /\ lookup = [q \in Lookups |-> Idle]
  /\ answer = [s \in Slugs |-> [value |-> NoEntry, stored |-> FALSE]]

(***************************************************************************)
(* POST managed-news, once the file of the cid and the event of the        *)
(* transaction are there: neither is kept in the backend.  A second create *)
(* with the cid fails on the unique column.                                *)
(***************************************************************************)
CreateNews(c) ==
  /\ c \notin news
  /\ news' = news \cup {c}
  /\ UNCHANGED <<cache, lookup, answer>>

\* GET metmask/signin-message with the slug in place of an address.
SigninMessage(s) ==
  /\ cache' = [cache EXCEPT ![s] = Nonce]
  /\ UNCHANGED <<news, lookup, answer>>

\* wrap finds an entry.
LookupHit(s) ==
  /\ cache[s] # NoEntry
  /\ answer' = [answer EXCEPT ![s] = [value |-> cache[s], stored |-> Stored(s)]]
  /\ UNCHANGED <<news, cache, lookup>>

\* wrap finds none: await the database.
LookupMiss(q, s) ==
  /\ lookup[q] = Idle
  /\ cache[s] = NoEntry
  /\ lookup' = [lookup EXCEPT ![q] =
       [step |-> "fetch", slug |-> s, stored |-> Stored(s)]]
  /\ UNCHANGED <<news, cache, answer>>

FetchAmong(q, rows) ==
  /\ lookup[q].step = "fetch"
  /\ \E v \in IF rows = {} THEN {Null} ELSE rows :
       lookup' = [lookup EXCEPT ![q] =
         [step |-> "set", slug |-> @.slug, stored |-> @.stored, value |-> v]]
  /\ UNCHANGED <<news, cache, answer>>

\* Mutant of Fetch: slug is undefined, and Prisma drops the filter.
FetchUnfiltered(q) == FetchAmong(q, news)

\* findFirst, unordered: any of the rows with the slug; await the cache.
Fetch(q) == FetchAmong(q, WithSlug(lookup[q].slug))

SetCache(q) ==
  /\ lookup[q].step = "set"
  /\ LET call == lookup[q]
     IN /\ cache' = [cache EXCEPT ![call.slug] = call.value]
        /\ answer' = [answer EXCEPT ![call.slug] =
                        [value |-> call.value, stored |-> call.stored]]
  /\ lookup' = [lookup EXCEPT ![q] = Idle]
  /\ UNCHANGED news

\* The database rejects: nothing is cached, the call rejects.
FetchFail(q) ==
  /\ lookup[q].step = "fetch"
  /\ lookup' = [lookup EXCEPT ![q] = Idle]
  /\ UNCHANGED <<news, cache, answer>>

\* Mutant of Expire: the cache keeps "nothing there" for good (ttl 0).
ExpireFound(s) ==
  /\ cache[s] \in Cids
  /\ cache' = [cache EXCEPT ![s] = NoEntry]
  /\ UNCHANGED <<news, lookup, answer>>

\* The five minutes of wrap are over; a nonce was set with ttl 0.
Expire(s) ==
  /\ cache[s] \in Fetched
  /\ cache' = [cache EXCEPT ![s] = NoEntry]
  /\ UNCHANGED <<news, lookup, answer>>

\* The store needs the place.
Evict(s) ==
  /\ cache[s] # NoEntry
  /\ cache' = [cache EXCEPT ![s] = NoEntry]
  /\ UNCHANGED <<news, lookup, answer>>

Restart ==
  /\ cache' = [s \in Slugs |-> NoEntry]
  /\ lookup' = [q \in Lookups |-> Idle]
  /\ UNCHANGED <<news, answer>>

LookupStep(q) == Fetch(q) \/ SetCache(q) \/ FetchFail(q)

Next ==
  \/ \E c \in Cids : CreateNews(c)
  \/ \E s \in NonceKeys : SigninMessage(s)
  \/ \E s \in Slugs : LookupHit(s)
  \/ \E q \in Lookups, s \in Slugs : LookupMiss(q, s)
  \/ \E q \in Lookups : LookupStep(q)
  \/ \E s \in Slugs : Expire(s) \/ Evict(s)
  \/ Restart

Spec == Init /\ [][Next]_vars

(***************************************************************************)
(* An await ends, and so does the ttl of wrap's entries, five minutes and  *)
(* not renewed by hits.  Nothing makes the store need a place.             *)
(***************************************************************************)
FairSpec ==
  /\ Spec
  /\ \A q \in Lookups : WF_vars(LookupStep(q))
  /\ \A s \in Slugs : WF_vars(Expire(s))

--------------------------------------------------------------------------------
(* Properties *)

NonceUnder(s) == IF s \in NonceKeys THEN {Nonce} ELSE {}

(***************************************************************************)
(* What findNewsBySlug is about to cache for a slug is a news stored with  *)
(* that slug, or "nothing there", also when the row was read long before   *)
(* and two news share the slug.  What it finds in the cache is that, or a  *)
(* nonce that was put under the same slug: one left under another key, or  *)
(* the news of another slug, never.                                        *)
(***************************************************************************)
EntryIsStored ==
  /\ \A s \in Slugs : cache[s] \in WithSlug(s) \cup {Null, NoEntry} \cup NonceUnder(s)
  /\ \A q \in Lookups :
       lookup[q].step = "set" =>
         lookup[q].value \in WithSlug(lookup[q].slug) \cup {Null}

(***************************************************************************)
(* 'News not found!' about a stored news comes to an end, for good: the    *)
(* entries that say so, also those which calls that read the database      *)
(* before createNews put into the cache after it, all go.  What is served  *)
(* then is the news; or, for as long as the store keeps it, a nonce that   *)
(* was put under the slug, which no time limit removes.                    *)
(***************************************************************************)
NotFoundEnds ==
  \A s \in Slugs : Stored(s) ~> [](cache[s] # Null)

(***************************************************************************)
(* 'News not found!' is never the answer to a request that came when a     *)
(* news with the slug was already stored.                                  *)
(***************************************************************************)
NotFoundIsTrue ==
  \A s \in Slugs : answer[s].value = Null => ~answer[s].stored
================================================================================
