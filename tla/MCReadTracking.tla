---------------------------- MODULE MCReadTracking -----------------------------
(***************************************************************************)
(* Instances of ReadTracking.  OwnToken opens the room of u1 with u1's     *)
(* token; OtherToken opens the same room with u2's token, as when a page   *)
(* is left open and another user signs in.  The news takes one second to   *)
(* read.                                                                   *)
(***************************************************************************)
EXTENDS ReadTracking, TLC

CONSTANTS u1, u2, n1, slug1

OwnToken   == [slug |-> slug1, user_id |-> u1, reader_token |-> u1, is_scroll |-> TRUE]
OtherToken == [slug |-> slug1, user_id |-> u1, reader_token |-> u2, is_scroll |-> FALSE]

MCUsers  == {u1, u2}
MCSlugs  == {slug1}
MCNews  == {n1}
OwnOnly  == {OwnToken}
BothTokens == {OwnToken, OtherToken}
NewsSlug == [n \in MCNews |-> slug1]
OneSecond == [n \in MCNews |-> 1]
Symmetry == Permutations(Handlers) \cup Permutations(Nanoids)
================================================================================
