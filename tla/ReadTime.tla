------------------------------- MODULE ReadTime --------------------------------
(***************************************************************************)
(* wordsReadTime of util.service.ts, as createNews uses it, and the        *)
(* rounding to seconds in joinRoom.  A text is a sequence of the three     *)
(* kinds of character the two patterns tell apart:                         *)
(*   "word"   what \w matches: ASCII letters, digits, underscore           *)
(*   "ideo"   what the pattern of otherLanguageReadTime matches            *)
(*   "other"  everything else, letters with accents and Hangul included    *)
(***************************************************************************)
EXTENDS Integers, FiniteSets, SequencesExt

CONSTANTS
  WordsPerMin,  \* WORDS_PER_MIN, 275
  MaxText       \* the count is compared with the reference on texts so long

ASSUME ReadTimeAssumption == WordsPerMin \in Nat \ {0} /\ MaxText \in Nat

Kinds == {"word", "ideo", "other"}

\* What is left of the text up to each place; removal joins what stood on
\* both sides.
Kept(text) ==
  LET kept[n \in 0 .. Len(text)] ==
        IF n = 0 THEN <<>>
        ELSE IF text[n] = "ideo" THEN kept[n - 1] ELSE Append(kept[n - 1], text[n])
  IN kept

formattedString(text) == Kept(text)[Len(text)]

\* The matches of /\w+/g, leftmost and longest, that begin up to each place.
Matches(text) ==
  LET matches[n \in 0 .. Len(text)] ==
        IF n = 0 THEN 0
        ELSE IF text[n] = "word" /\ (n = 1 \/ text[n - 1] # "word")
             THEN matches[n - 1] + 1 ELSE matches[n - 1]
  IN matches

totalWordCount(text) == Matches(text)[Len(text)]

(***************************************************************************)
(* wordTime is wordCount / WordsPerMin minutes; the count stands for it.   *)
(* The time of the ideographs is computed too, and createNews drops it.    *)
(***************************************************************************)
wordCount(text) == totalWordCount(formattedString(text))

(***************************************************************************)
(* Number((min_read * 60).toFixed()): to the nearest second, the later one *)
(* of two.  With 275 words a minute no two are equally near.               *)
(***************************************************************************)
Seconds(words) == (120 * words + WordsPerMin) \div (2 * WordsPerMin)

--------------------------------------------------------------------------------
(* The reference *)

\* The word characters with no word character before them, ideographs skipped.
WordStarts(text) ==
  {i \in DOMAIN text :
     /\ text[i] = "word"
     /\ \A j \in 1 .. i - 1 :
          (\A l \in j + 1 .. i - 1 : text[l] = "ideo") => text[j] # "word"}

Texts == UNION {[1 .. n -> Kinds] : n \in 0 .. MaxText}

(***************************************************************************)
(* Removing and matching counts the word starts, on every short text.      *)
(***************************************************************************)
CountsWordStarts ==
  \A text \in Texts : wordCount(text) = Cardinality(WordStarts(text))

\* s is as near to the time of so many words as a whole second can be.
IsNearest(s, words) ==
  /\ 2 * (s * WordsPerMin - 60 * words) <= WordsPerMin
  /\ 2 * (60 * words - s * WordsPerMin) <= WordsPerMin
================================================================================
