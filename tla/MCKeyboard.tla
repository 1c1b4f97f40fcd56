----------------------------- MODULE MCKeyboard -----------------------------
(* Keyboard with the kernel's own scancode table.                          *)
EXTENDS Keyboard, ScancodeTable
=============================================================================
