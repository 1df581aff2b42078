------------------------------ MODULE MCSessions -------------------------------
(***************************************************************************)
(* An instance of Sessions: the email m1, which signs in with Google and   *)
(* with a password, and the wallet address w1, on two pages.               *)
(***************************************************************************)
EXTENDS Sessions

CONSTANTS m1, w1

Email == {m1}
Address == {w1}
================================================================================
