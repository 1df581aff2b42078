----------------------------- MODULE MCClaimToken ------------------------------
(***************************************************************************)
(* Instances of ClaimToken: one reader with two news, or two readers with  *)
(* one news and two wallets, which either may link.                        *)
(***************************************************************************)
EXTENDS ClaimToken, TLC

CONSTANTS u1, u2, n1, n2, w1, w2

OneReader  == {u1}
TwoReaders == {u1, u2}
OneNews    == {n1}
TwoNews    == {n1, n2}
OneWallet  == {w1}
TwoWallets == {w1, w2}
MCTokenValue == [n \in News |-> 1]

\* Nothing tells readers, wallets, ids and requests apart.
Symmetry == Permutations(Requests) \cup Permutations(Users) \cup Permutations(Wallets)
            \cup Permutations(Nanoids)
================================================================================
