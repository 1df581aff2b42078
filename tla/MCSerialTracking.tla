--------------------------- MODULE MCSerialTracking ----------------------------
(***************************************************************************)
(* Instance of SerialTracking: one reader and a slug that two news share,  *)
(* of which n1 takes one second to read and n2 two.                        *)
(***************************************************************************)
EXTENDS SerialTracking, TLC

CONSTANTS u1, n1, n2, slug1

OwnToken == [slug |-> slug1, user_id |-> u1, reader_token |-> u1, is_scroll |-> TRUE]

MCNews   == {n1, n2}
MCSlugs  == {slug1}
OwnOnly  == {OwnToken}
SharedSlug == [n \in MCNews |-> slug1]
OneOrTwo == [n \in MCNews |-> IF n = n1 THEN 1 ELSE 2]
Symmetry == Permutations(Handlers) \cup Permutations(Nanoids)
================================================================================
