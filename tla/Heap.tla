-------------------------------- MODULE Heap --------------------------------
(***************************************************************************)
(* The kernel heap of kernel/memory.c: kmalloc hands out the array heap    *)
(* from the front, kfree compares with the end and gives nothing back.     *)
(* An address is an index into heap.                                       *)
(***************************************************************************)
EXTENDS Allocator, Sequences

CONSTANTS
  Sizes,       \* the sizes that callers ask for
  MaxRequests  \* bound: how many requests are granted in a behaviour

ASSUME SizesAssumption == Sizes \subseteq 0 .. Word - 1
ASSUME MaxRequestsAssumption == MaxRequests \in Nat

VARIABLES
  heap_pos,   \* static uint32_t
  blocks,     \* history: every block granted, in order
  freed,      \* history: which of them were freed, by index
  wrapped     \* history: was a request granted whose test wrapped around?

vars == <<heap_pos, blocks, freed, wrapped>>

Init ==
  /\ heap_pos = 0
  /\ blocks = <<>>
  /\ freed = {}
  /\ wrapped = FALSE

-----------------------------------------------------------------------------
(* The request fits: the caller gets the bytes at heap_pos.                *)
Grant(size) ==
  /\ Fits(heap_pos, size)
  /\ Len(blocks) < MaxRequests
  /\ heap_pos' = Bump(heap_pos, size)
  /\ blocks' = Append(blocks, [ptr |-> heap_pos, size |-> size])
  /\ wrapped' = (wrapped \/ Wraps(heap_pos, size))
  /\ UNCHANGED freed

(* It does not: the caller gets NULL.                                      *)
Refuse(size) ==
  /\ ~ Fits(heap_pos, size)
  /\ UNCHANGED vars

kmalloc(size) == Grant(size) \/ Refuse(size)

(* &heap[heap_pos - 1]: one before the array when the heap is empty.       *)
LastByte == heap_pos - 1

(* A plausible bug: the heap is cut back to whatever block is freed. *)
kfree_Resets(k) ==
  /\ k \notin freed
  /\ heap_pos' = blocks[k].ptr
  /\ freed' = freed \cup {k}
  /\ UNCHANGED <<blocks, wrapped>>

(* A caller frees what kmalloc gave it (kernel.c:141, memfs.c:161), once.  *)
kfree(k) ==
  /\ k \notin freed
  /\ heap_pos' = IF blocks[k].ptr = LastByte THEN blocks[k].ptr ELSE heap_pos
  /\ freed' = freed \cup {k}
  /\ UNCHANGED <<blocks, wrapped>>

Next ==
  \/ \E size \in Sizes : kmalloc(size)
  \/ \E k \in DOMAIN blocks : kfree(k)

Spec == Init /\ [][Next]_vars

-----------------------------------------------------------------------------
Block == [ptr : 0 .. Word - 1, size : Sizes]

TypeOK ==
  /\ heap_pos \in 0 .. Word - 1
  /\ blocks \in Seq(Block)
  /\ freed \subseteq DOMAIN blocks
  /\ wrapped \in BOOLEAN

End(b) == b.ptr + b.size

(* The blocks in use. *)
Live == DOMAIN blocks \ freed

(***************************************************************************)
(* What every user of kmalloc (lines 24-31) relies on, whatever is freed   *)
(* (33-37) in whatever order: until a request is so large that the 32-bit  *)
(* sum of line 25 wraps, each block in use lies inside the heap, starts on *)
(* a 4-byte boundary, and shares no byte with any other block in use.      *)
(***************************************************************************)
BlocksDisjoint ==
  ~ wrapped =>
    /\ \A k \in Live : blocks[k].ptr % 4 = 0 /\ End(blocks[k]) <= HEAP_SIZE
    /\ \A j, k \in Live :
         j < k => \/ End(blocks[j]) <= blocks[k].ptr
                  \/ End(blocks[k]) <= blocks[j].ptr
=============================================================================
