----------------------------- MODULE MCPagination ------------------------------
(***************************************************************************)
(* An instance of Pagination: three news, up to three pages.               *)
(***************************************************************************)
EXTENDS Pagination

CONSTANTS n1, n2, n3

ThreeNews == {n1, n2, n3}
SomeStarts == {Absent, -1}
================================================================================
