------------------------------ MODULE MCNewsCache ------------------------------
(***************************************************************************)
(* Instances of NewsCache: c1 and c2 are two stories published under one   *)
(* slug, c3 has a slug of its own.                                         *)
(***************************************************************************)
EXTENDS NewsCache

CONSTANTS c1, c2, c3, s1, s2

OneSlug == {s1}
TwoSlugs == {s1, s2}
TwoCids == {c1, c2}
ThreeCids == {c1, c2, c3}
SameSlug == [c \in TwoCids |-> s1]
SharedSlug == [c \in ThreeCids |-> IF c = c3 THEN s2 ELSE s1]
================================================================================
