--------------------------- MODULE MCRetryingReader ----------------------------
(***************************************************************************)
(* Instance of RetryingReader: one news that takes one second to read, one *)
(* room, opened with the token of its reader.                              *)
(***************************************************************************)
EXTENDS RetryingReader

CONSTANTS u1, u2, n1, slug1

OwnToken   == [slug |-> slug1, user_id |-> u1, reader_token |-> u1, is_scroll |-> TRUE]

MCUsers  == {u1, u2}
MCNews   == {n1}
MCSlugs  == {slug1}
OwnOnly  == {OwnToken}
NewsSlug == [n \in MCNews |-> slug1]
OneSecond == [n \in MCNews |-> 1]
================================================================================
