--------------------------- MODULE ScancodeTable ---------------------------
(***************************************************************************)
(* The scancode translation table of kernel/interrupts.c: scancode set 1,  *)
(* unshifted, as ASCII codes; 0 stands for a key without a character.      *)
(***************************************************************************)
EXTENDS Integers

(* The 58 entries the table spells out before its tail of zeros.           *)
LOCAL Row ==
  << 0, 0, 49, 50, 51, 52, 53, 54, 55, 56, 57, 48, 45, 61, 8,
     9, 113, 119, 101, 114, 116, 121, 117, 105, 111, 112, 91, 93, 13,
     0, 97, 115, 100, 102, 103, 104, 106, 107, 108, 59, 39, 96, 0,
     92, 122, 120, 99, 118, 98, 110, 109, 44, 46, 47, 0, 42, 0, 32 >>

(* sizeof(scancode_to_ascii) *)
TableSize == 146

KeyTable == [s \in 0 .. TableSize - 1 |-> IF s < 58 THEN Row[s + 1] ELSE 0]
=============================================================================
