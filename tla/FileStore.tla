------------------------------ MODULE FileStore ------------------------------
(***************************************************************************)
(* What a file system promises of its plain files: each is a sequence of   *)
(* bytes; a write puts its bytes where it says and nowhere else, the file  *)
(* grows to hold them, and bytes that nobody wrote are 0; a read returns   *)
(* what is there.  Once it is damaged it promises nothing.                 *)
(***************************************************************************)
EXTENDS Integers, Sequences

CONSTANTS Files, Buffers, Offsets, Sizes

VARIABLES
  content,  \* the bytes of each file
  data,     \* what the last call has read
  damaged

Init ==
  /\ content = [f \in Files |-> <<>>]
  /\ data = <<>>
  /\ damaged = FALSE

(* bytes, with those of buffer from position offset on.                    *)
Overwritten(bytes, offset, buffer) ==
  LET end == offset + Len(buffer)
  IN  [k \in 1 .. IF end > Len(bytes) THEN end ELSE Len(bytes) |->
         CASE k \in offset + 1 .. end -> buffer[k - offset]
           [] k \notin offset + 1 .. end /\ k <= Len(bytes) -> bytes[k]
           [] OTHER -> 0]

Write(f, offset, buffer) ==
  /\ content' = [content EXCEPT ![f] = Overwritten(@, offset, buffer)]
  /\ data' = <<>>
  /\ UNCHANGED damaged

Read(f, offset, size) ==
  LET end == IF offset + size > Len(content[f]) THEN Len(content[f]) ELSE offset + size
  IN  /\ data' = SubSeq(content[f], offset + 1, end)
      /\ UNCHANGED <<content, damaged>>

(* A call that concerns no file's bytes.                                   *)
Other ==
  /\ data' = <<>>
  /\ UNCHANGED <<content, damaged>>

Store ==
  \E f \in Files, offset \in Offsets :
    \/ \E buffer \in Buffers : Write(f, offset, buffer)
    \/ \E size \in Sizes : Read(f, offset, size)

Next == Store \/ Other \/ damaged'

Spec == Init /\ [][Next]_<<content, data, damaged>>
=============================================================================
