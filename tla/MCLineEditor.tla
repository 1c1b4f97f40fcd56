---------------------------- MODULE MCLineEditor ----------------------------
(* LineEditor with two letters, both arrows, and lines of two characters.  *)
EXTENDS LineEditor

a == 97
b == 98

MCChars == {CR, BS, TAB, a, b, UpArrow, DownArrow}

MCcommands == << <<a, b>>, <<b, a>> >>

MCOutputs == { <<>>, <<a, NL>> }

MCPrompts == { <<36>> }
=============================================================================
