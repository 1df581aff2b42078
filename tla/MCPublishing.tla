----------------------------- MODULE MCPublishing ------------------------------
(***************************************************************************)
(* An instance of Publishing: an empty file, a file of ideographs only,    *)
(* and one whose words an ideograph and a space part.                      *)
(***************************************************************************)
EXTENDS Publishing

ASSUME WordCountIsReference == CountsWordStarts

ThreeFiles ==
  {<<>>, <<"ideo">>, <<"word", "ideo", "word", "other", "word">>}
================================================================================
