------------------------------ MODULE Publishing -------------------------------
(***************************************************************************)
(* A writer publishes: writes a markdown file, uploads it to nft.storage   *)
(* (POST nft-storage/news), has the contract emit CreateNews, and sends    *)
(* the cid and the transaction to the backend (POST news/managed-news),    *)
(* which fetches the file back, counts its words, and stores the news.     *)
(*                                                                         *)
(* createNews awaits three services one after the other and writes once,   *)
(* at the end; any await may reject, an answer may be lost, the writer     *)
(* sends the request again, also while an earlier one is in flight.  A cid *)
(* is the hash of the file: here it is the file.                           *)
(***************************************************************************)
EXTENDS ReadTime

CONSTANTS
  Requests,    \* places for HTTP requests in flight
  Files        \* the files the writer may upload

VARIABLES
  storage,     \* the files in nft.storage
  mined,       \* the cids whose CreateNews transaction has a receipt
  news,        \* the table: cid and reading time of each row, by id
  request      \* requests in flight

vars == <<storage, mined, news, request>>

ASSUME PublishingAssumption == Files \subseteq Seq(Kinds)

Idle == [step |-> "idle"]

Init ==
  /\ storage = {}
  /\ mined = {}
  /\ news = <<>>
  /\ request = [q \in Requests |-> Idle]

Goto(q, state) == request' = [request EXCEPT ![q] = state]

Finish(q) == Goto(q, Idle)

--------------------------------------------------------------------------------
(* The contract *)

\* Until then the provider has null for the receipt.
Mine(cid) ==
  /\ mined' = mined \cup {cid}
  /\ UNCHANGED <<storage, news, request>>

--------------------------------------------------------------------------------
(* POST nft-storage/news *)

\* The interceptor has let the file pass: it is named .md or .mdx.
UploadBlogContent(q, file) ==
  /\ request[q] = Idle
  /\ Goto(q, [step |-> "store", cid |-> file])
  /\ UNCHANGED <<storage, mined, news>>

\* The answer is the cid, unless it is lost; the file is stored anyway.
StoreMarkdownFile(q) ==
  /\ request[q].step = "store"
  /\ storage' = storage \cup {request[q].cid}
  /\ Finish(q)
  /\ UNCHANGED <<mined, news>>

--------------------------------------------------------------------------------
(* POST news/managed-news *)

CreateNews(q, cid) ==
  /\ request[q] = Idle
  /\ Goto(q, [step |-> "check", cid |-> cid])
  /\ UNCHANGED <<storage, mined, news>>

CheckCid(q) ==
  /\ request[q].step = "check"
  /\ Goto(q, [request[q] EXCEPT !.step = "get"])
  /\ UNCHANGED <<storage, mined, news>>

Decode(q, content) ==
  Goto(q, [step |-> "decode", cid |-> request[q].cid, content |-> content])

\* Mutant of GetContent: a failed get counts as an empty file, not refused.
GetContentOrEmpty(q) ==
  /\ request[q].step = "get"
  /\ Decode(q, request[q].cid) \/ Decode(q, <<>>)
  /\ UNCHANGED <<storage, mined, news>>

\* Mutant of GetContent: a file without words is refused.
GetContentWithWords(q) ==
  /\ request[q].step = "get"
  /\ IF wordCount(request[q].cid) = 0 THEN Finish(q) ELSE Decode(q, request[q].cid)
  /\ UNCHANGED <<storage, mined, news>>

\* 'CID not found' also when the file is there and empty.
GetContent(q) ==
  /\ request[q].step = "get"
  /\ IF request[q].cid = <<>> THEN Finish(q) ELSE Decode(q, request[q].cid)
  /\ UNCHANGED <<storage, mined, news>>

\* The logs of a receipt that is null are an error.
DecodeTxHash(q) ==
  /\ request[q].step = "decode"
  /\ IF request[q].cid \in mined
     THEN Goto(q, [request[q] EXCEPT !.step = "insert"])
     ELSE Finish(q)
  /\ UNCHANGED <<storage, mined, news>>

Row(q) == [cid |-> request[q].cid, words |-> wordCount(request[q].content)]

\* The answer is the row, unless it is lost.  cid is unique.
InsertNews(q) ==
  /\ request[q].step = "insert"
  /\ \A row \in ToSet(news) : row.cid # request[q].cid
  /\ news' = Append(news, Row(q))
  /\ Finish(q)
  /\ UNCHANGED <<storage, mined>>

InsertRefused(q) ==
  /\ request[q].step = "insert"
  /\ \E row \in ToSet(news) : row.cid = request[q].cid
  /\ Finish(q)
  /\ UNCHANGED <<storage, mined, news>>

\* An await rejects: getMarkdownFile turns it into undefined, 'CID not found'.
RequestFail(q) ==
  /\ request[q] # Idle
  /\ Finish(q)
  /\ UNCHANGED <<storage, mined, news>>

Restart ==
  /\ request' = [q \in Requests |-> Idle]
  /\ UNCHANGED <<storage, mined, news>>

--------------------------------------------------------------------------------
RequestStep(q) ==
  \/ StoreMarkdownFile(q)
  \/ CheckCid(q) \/ GetContent(q) \/ DecodeTxHash(q) \/ InsertNews(q) \/ InsertRefused(q)

Failure == Restart \/ \E q \in Requests : RequestFail(q)

Working ==
  \/ \E cid \in storage : Mine(cid)
  \/ \E q \in Requests : RequestStep(q)
  \/ \E q \in Requests, file \in Files : UploadBlogContent(q, file)
  \/ \E q \in Requests, cid \in storage : CreateNews(q, cid)

Next == Working \/ Failure

Spec == Init /\ [][Next]_vars

(***************************************************************************)
(* Requests go on, transactions are mined, the writer sends createNews for *)
(* every uploaded file again and again, and there is a last failure.       *)
(***************************************************************************)
FairSpec ==
  /\ Spec
  /\ \A q \in Requests : WF_vars(RequestStep(q))
  /\ \A cid \in Files :
       /\ WF_vars(cid \in storage /\ Mine(cid))
       /\ SF_vars(\E q \in Requests : cid \in storage /\ CreateNews(q, cid))
  /\ <>[][Working]_vars

--------------------------------------------------------------------------------
(* Properties *)

(***************************************************************************)
(* The reading time of a stored news is that of the file its cid names, to *)
(* the nearest second, whatever fails on the way from the one to the other.*)
(***************************************************************************)
ReadTimeOfFile ==
  \A row \in ToSet(news) :
    /\ row.words = Cardinality(WordStarts(row.cid))
    /\ IsNearest(Seconds(row.words), row.words)

(***************************************************************************)
(* Every uploaded file that is not empty is published in the end: the      *)
(* fetch, the count and the insert turn no other file away for good.       *)
(* Here a file is text: one that is also JSON, which the HTTP client would *)
(* parse, is not in the model.                                             *)
(***************************************************************************)
Published(cid) == \E row \in ToSet(news) : row.cid = cid

PublishedInTheEnd ==
  \A cid \in Files \ {<<>>} : cid \in storage ~> Published(cid)
================================================================================
