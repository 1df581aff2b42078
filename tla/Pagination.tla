------------------------------ MODULE Pagination -------------------------------
(***************************************************************************)
(* GET news/managed-news, page by page: a reader starts at some page and   *)
(* follows `next` until it is null, while writers publish.                 *)
(*                                                                         *)
(* createPaginator sends count and findMany at once; they are two          *)
(* statements without a transaction, carried out in either order, and the  *)
(* table may grow between them and between two pages.  The order is        *)
(* created_at desc with nothing to break ties: news of one instant come in *)
(* an order that may differ from one query to the next.                    *)
(***************************************************************************)
EXTENDS Integers, FiniteSets, SequencesExt

CONSTANTS
  News,
  Matching,   \* the published news with the keyword in their title
  Absent,     \* no such parameter in the query, or not a number
  Starts,     \* the page parameters a walk may start with
  PerPages,   \* the perPage parameters of the walks
  MaxTime,    \* the clock stops here
  MaxShown,   \* a news shown more often counts as shown so often
  None

VARIABLES
  created_at, \* the column of table news, None before the insert
  now,
  walk,       \* the reader's walk
  request     \* the answers of count and findMany so far

vars == <<created_at, now, walk, request>>

ASSUME PaginationAssumption ==
  /\ Matching \subseteq News
  /\ Starts \subseteq Int \cup {Absent}
  /\ PerPages \subseteq Nat \cup {Absent}
  /\ Absent \notin Int
  /\ MaxTime \in Nat /\ MaxShown \in Nat \ {0}
  /\ None \notin Int /\ \A S \in SUBSET News : S # None

Stored == {n \in News : created_at[n] # None}

Listed == Stored \cap Matching

(***************************************************************************)
(* Number(value) || default.  The string '0' is 0, and falsy once it is a  *)
(* number.  A perPage below zero is not modelled.                          *)
(***************************************************************************)
OrDefault(value, default) == IF value \in Int \ {0} THEN value ELSE default

Page == OrDefault(walk.page, 1)

PerPage == OrDefault(walk.perPage, 10)

Idle == [total |-> None, data |-> None]

Init ==
  /\ created_at = [n \in News |-> None]
  /\ now = 0
  /\ walk = [step |-> "end", start |-> Absent, page |-> Absent, perPage |-> Absent,
             shown |-> [n \in News |-> 0], before |-> {}, between |-> {}]
  /\ request = Idle

--------------------------------------------------------------------------------
(* The reader.  shown, before and between are history: how often each news  *)
(* came, which were listed when the walk started, and which were created   *)
(* between the count and the findMany of the request.                      *)

Start(v, w) ==
  /\ walk.step = "end"
  /\ walk' = [step |-> "ask", start |-> v, page |-> v, perPage |-> w,
              shown |-> [n \in News |-> 0], before |-> Listed, between |-> {}]
  /\ UNCHANGED <<created_at, now, request>>

GetNewsAll ==
  /\ walk.step = "ask"
  /\ walk' = [walk EXCEPT !.step = "wait", !.between = {}]
  /\ UNCHANGED <<created_at, now, request>>

--------------------------------------------------------------------------------
(* createPaginator *)

Count ==
  /\ walk.step = "wait" /\ request.total = None
  /\ request' = [request EXCEPT !.total = Cardinality(Listed)]
  /\ UNCHANGED <<created_at, now, walk>>

\* Every order in which findMany may see the listed news.
Listings ==
  {s \in SetToSeqs(Listed) :
     \A i, j \in DOMAIN s : i < j => created_at[s[i]] >= created_at[s[j]]}

\* Mutant of Skip: pages are counted from zero.
SkipFromZero == IF Page > 0 THEN PerPage * Page ELSE 0

\* Mutant of Skip: the page is taken for the row.
SkipRows == IF Page > 0 THEN Page - 1 ELSE 0

Skip == IF Page > 0 THEN PerPage * (Page - 1) ELSE 0

\* The rows from Skip on, PerPage of them; their order on the page is left out.
FindMany ==
  /\ walk.step = "wait" /\ request.data = None
  /\ \E s \in Listings :
       request' = [request EXCEPT !.data =
         {s[i] : i \in {j \in DOMAIN s : Skip < j /\ j <= Skip + PerPage}}]
  /\ UNCHANGED <<created_at, now, walk>>

\* Math.ceil(total / perPage)
LastPage == (request.total + PerPage - 1) \div PerPage

NextPage == IF Page < LastPage THEN Page + 1 ELSE None

\* Mutant of Answer: a page without news is never answered.
AnswerSome ==
  /\ request.total # None /\ request.data \notin {None, {}}
  /\ walk' = [walk EXCEPT !.step = IF NextPage = None THEN "end" ELSE "ask",
                          !.page = IF NextPage = None THEN @ ELSE NextPage]
  /\ request' = Idle
  /\ UNCHANGED <<created_at, now>>

\* Both are there: the reader sees the data and follows next, unless null.
Answer ==
  /\ request.total # None /\ request.data # None
  /\ walk' = [walk EXCEPT !.step = IF NextPage = None THEN "end" ELSE "ask",
                          !.page = IF NextPage = None THEN @ ELSE NextPage,
                          !.shown = [n \in News |->
                            IF n \in request.data /\ @[n] < MaxShown
                            THEN @[n] + 1 ELSE @[n]]]
  /\ request' = Idle
  /\ UNCHANGED <<created_at, now>>

\* A statement or the answer fails; the reader asks for the page again.
Fail ==
  /\ walk.step = "wait"
  /\ walk' = [walk EXCEPT !.step = "ask"]
  /\ request' = Idle
  /\ UNCHANGED <<created_at, now>>

--------------------------------------------------------------------------------
(* The writers *)

(***************************************************************************)
(* created_at is taken before the insert is carried out: a news may come   *)
(* in behind one that is there already.                                    *)
(***************************************************************************)
CreateNews(n) ==
  /\ created_at[n] = None
  /\ \E t \in {now, now - 1} \cap Nat : created_at' = [created_at EXCEPT ![n] = t]
  /\ walk' = [walk EXCEPT !.between =
       IF request.total # None /\ request.data = None THEN @ \cup ({n} \cap Matching) ELSE @]
  /\ UNCHANGED <<now, request>>

Tick ==
  /\ now < MaxTime
  /\ now' = now + 1
  /\ UNCHANGED <<created_at, walk, request>>

--------------------------------------------------------------------------------
Working ==
  \/ \E v \in Starts, w \in PerPages : Start(v, w)
  \/ GetNewsAll
  \/ Count \/ FindMany \/ Answer
  \/ \E n \in News : CreateNews(n)
  \/ Tick

Next == Working \/ Fail

Spec == Init /\ [][Next]_vars

(***************************************************************************)
(* The reader goes on, both statements end, and there is a last failure.   *)
(***************************************************************************)
FairSpec ==
  /\ Spec
  /\ WF_vars(GetNewsAll) /\ WF_vars(Count) /\ WF_vars(FindMany) /\ WF_vars(Answer)
  /\ <>[][Working]_vars

--------------------------------------------------------------------------------
(* Properties *)

\* The listed news that share their instant with no other.
Untied ==
  {n \in Listed : \A m \in Listed \ {n} : created_at[m] # created_at[n]}

WalkedFromStart == walk.step = "end" /\ OrDefault(walk.start, 1) <= 1

(***************************************************************************)
(* A reader who follows next from the first page to the last has seen all  *)
(* that was there at the start, however much is published meanwhile, but   *)
(* for one news per creation between count and findMany of the last page,  *)
(* and for news of one instant, which may change places.                   *)
(***************************************************************************)
MissedByCountOnly ==
  WalkedFromStart =>
    Cardinality({n \in walk.before \cap Untied : walk.shown[n] = 0})
      <= Cardinality(walk.between)

(***************************************************************************)
(* A reader is shown a news again only because a creation moved it to the  *)
(* next page, one for one.                                                 *)
(***************************************************************************)
RepeatsByCreationOnly ==
  OrDefault(walk.start, 1) = 1 =>
    Cardinality({r \in Untied \X (2 .. MaxShown) : r[2] <= walk.shown[r[1]]})
      <= Cardinality(Listed \ walk.before)

\* Every walk comes to a page without next.
WalkEnds == walk.step # "end" ~> walk.step = "end"
================================================================================
