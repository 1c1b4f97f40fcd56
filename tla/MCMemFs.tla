------------------------------ MODULE MCMemFs ------------------------------
(* MemFs with two files, and bytes of three values.                        *)
EXTENDS MemFs

MCchildren == <<"f", "g">>

MCBuffers == { <<>>, <<1>>, <<2, 1>> }

MCOffsets == { 0, 3, 9, Word - 1 }

(* Past a sum that wraps around nothing is promised, and nothing explored. *)
Undamaged == ~ wrapped
=============================================================================
