------------------------------ MODULE MCStrings ------------------------------
(* Strings with short lines of two letters, and longer ones of one.        *)
EXTENDS Strings

MCTexts == SeqOf({32, 97, 98}, 3) \cup [1 .. 5 -> {9, 97}]
=============================================================================
