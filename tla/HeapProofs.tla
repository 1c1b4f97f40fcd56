----------------------------- MODULE HeapProofs -----------------------------
(***************************************************************************)
(* Proofs of the invariants of Heap, for every heap size, word width and   *)
(* set of request sizes.  The lemmas about its arithmetic come first: they *)
(* speak of no state, and the heap's other users rest on them too.         *)
(***************************************************************************)
EXTENDS Heap, TLAPS

-----------------------------------------------------------------------------
(* Multiples of 4: sums of them, and the distance between two of them.     *)
LEMMA Multiples ==
  \A x, y \in Nat :
    x % 4 = 0 /\ y % 4 = 0 => (x + y) % 4 = 0 /\ (x < y => x + 4 <= y)
  OBVIOUS

(* The remainder of a number that the word holds. *)
LEMMA Unwrapped == \A x \in Nat : x < Word => x % Word = x
  BY WordAssumption

(***************************************************************************)
(* What the rounding of memory.c:29 computes, when the sum does not wrap:  *)
(* the least multiple of 4 that is at least size.                          *)
(***************************************************************************)
LEMMA AlignRoundsUp ==
  ASSUME NEW size \in Nat, size + 3 < Word
  PROVE  /\ Align4(size) \in Nat
         /\ Align4(size) % 4 = 0
         /\ Align4(size) - size \in 0 .. 3
<1>1. (size + 3) % Word = size + 3
  BY WordAssumption
<1> DEFINE r == (size + 3) % 4
<1>2. r \in 0 .. 3 /\ (size + 3 - r) % 4 = 0
  OBVIOUS
<1>3. Align4(size) = size + 3 - r
  BY <1>1 DEF Align4
<1> QED
  BY <1>2, <1>3

(* Rounding never leaves the word, wrapped or not.                         *)
LEMMA BumpType ==
  ASSUME NEW pos \in 0 .. Word - 1, NEW size \in 0 .. Word - 1
  PROVE  Bump(pos, size) \in 0 .. Word - 1
<1>1. Align4(size) \in Int
  BY WordAssumption DEF Align4
<1> QED
  BY <1>1, WordAssumption DEF Bump

(* Far from a wrap-around, heap_pos lands at most 3 bytes past the block.  *)
LEMMA BumpNear ==
  ASSUME NEW pos \in Nat, NEW size \in Nat, pos + size + 3 < Word
  PROVE  Bump(pos, size) \in Nat /\ Bump(pos, size) - (pos + size) \in 0 .. 3
<1>1. Align4(size) \in Nat /\ Align4(size) - size \in 0 .. 3
  <2>1. size + 3 < Word
    BY WordAssumption
  <2> QED
    BY <2>1, AlignRoundsUp
<1>2. pos + Align4(size) \in Nat /\ pos + Align4(size) < Word
  BY <1>1, WordAssumption
<1>3. Bump(pos, size) = pos + Align4(size)
  BY <1>2, Unwrapped DEF Bump
<1> QED
  BY <1>1, <1>3

(***************************************************************************)
(* A request that fits without wrapping: the new heap_pos is aligned,      *)
(* still inside the heap, and at most 3 bytes past the block.              *)
(***************************************************************************)
LEMMA BumpExact ==
  ASSUME NEW pos \in 0 .. HEAP_SIZE, NEW size \in 0 .. Word - 1,
         pos % 4 = 0, Fits(pos, size), ~ Wraps(pos, size)
  PROVE  /\ pos + size <= HEAP_SIZE
         /\ Bump(pos, size) \in 0 .. HEAP_SIZE
         /\ Bump(pos, size) % 4 = 0
         /\ Bump(pos, size) - (pos + size) \in 0 .. 3
<1> USE HeapSizeAssumption, WordAssumption
<1>1. pos + size <= HEAP_SIZE
  BY DEF Fits, Wraps
<1>2. /\ Align4(size) \in Nat /\ Align4(size) % 4 = 0
      /\ Align4(size) - size \in 0 .. 3
  BY <1>1, AlignRoundsUp
<1>3. (pos + Align4(size)) % 4 = 0 /\ pos + Align4(size) \in Nat
  BY <1>2, Multiples
<1>4. pos + Align4(size) <= HEAP_SIZE
  <2>1. pos + Align4(size) <= HEAP_SIZE + 3
    BY <1>1, <1>2
  <2>2. HEAP_SIZE < pos + Align4(size) => HEAP_SIZE + 4 <= pos + Align4(size)
    BY <1>3, Multiples
  <2> QED
    BY <1>2, <2>1, <2>2
<1>5. Bump(pos, size) = pos + Align4(size)
  <2>1. pos + Align4(size) < Word
    BY <1>3, <1>4
  <2> QED
    BY <1>3, <2>1, Unwrapped DEF Bump
<1>6. pos + Align4(size) - (pos + size) = Align4(size) - size
  <2>1. \A p, a, z \in Int : p + a - (p + z) = a - z
    OBVIOUS
  <2>2. pos \in Int /\ size \in Int /\ Align4(size) \in Int
    BY <1>2
  <2> QED
    BY <2>1, <2>2
<1> QED
  BY <1>1, <1>2, <1>3, <1>4, <1>5, <1>6

-----------------------------------------------------------------------------
(***************************************************************************)
(* The inductive invariant is stronger than BlocksDisjoint in two ways.    *)
(* The code gives nothing back, so the blocks stand in the order in which  *)
(* they were granted, those that were freed included (Ordered); and they   *)
(* all end before heap_pos, from which the next one is cut (Packed).       *)
(***************************************************************************)
Ordered ==
  ~ wrapped =>
    /\ \A k \in DOMAIN blocks :
         blocks[k].ptr % 4 = 0 /\ End(blocks[k]) <= HEAP_SIZE
    /\ \A j, k \in DOMAIN blocks : j < k => End(blocks[j]) <= blocks[k].ptr

Packed ==
  ~ wrapped =>
    /\ heap_pos <= HEAP_SIZE /\ heap_pos % 4 = 0
    /\ \A k \in DOMAIN blocks : End(blocks[k]) <= heap_pos

IInv == TypeOK /\ Ordered /\ Packed

(* Every block is a record of a pointer and a size.                        *)
LEMMA BlockType ==
  ASSUME TypeOK, NEW k \in DOMAIN blocks
  PROVE  /\ blocks[k].ptr \in 0 .. Word - 1
         /\ blocks[k].size \in 0 .. Word - 1
         /\ End(blocks[k]) = blocks[k].ptr + blocks[k].size
<1>1. blocks[k] \in Block
  BY DEF TypeOK
<1> QED
  BY <1>1, SizesAssumption DEF Block, End

LEMMA InitIInv == Init => IInv
<1> SUFFICES ASSUME Init PROVE IInv
  OBVIOUS
<1>1. TypeOK
  <2>1. blocks \in Seq(Block) /\ freed \subseteq DOMAIN blocks
    BY DEF Init
  <2>2. heap_pos \in 0 .. Word - 1
    BY WordAssumption, HeapSizeAssumption DEF Init
  <2> QED
    BY <2>1, <2>2 DEF Init, TypeOK
<1>2. Ordered /\ Packed
  BY HeapSizeAssumption DEF Init, Ordered, Packed
<1> QED
  BY <1>1, <1>2 DEF IInv

(* Granting a block keeps the invariant: it is cut between the last block  *)
(* and the end of the heap.                                                *)
LEMMA GrantKeepsIInv ==
  ASSUME IInv, NEW size \in Sizes, Grant(size) PROVE IInv'
<1> DEFINE b == [ptr |-> heap_pos, size |-> size]
<1>0. PICK n \in Nat : n = Len(blocks)
  BY DEF IInv, TypeOK
<1>1. /\ n \in Nat /\ Len(blocks') = n + 1 /\ blocks' \in Seq(Block)
      /\ DOMAIN blocks = 1 .. n /\ DOMAIN blocks' = 1 .. n + 1
      /\ blocks'[n + 1] = b
      /\ \A k \in 1 .. n : blocks'[k] = blocks[k]
  BY <1>0 DEF Grant, IInv, TypeOK, Block
<1>2. size \in 0 .. Word - 1 /\ heap_pos \in 0 .. Word - 1
  BY SizesAssumption DEF IInv, TypeOK
<1>3. TypeOK'
  <2>1. heap_pos' \in 0 .. Word - 1
    BY <1>2, BumpType DEF Grant
  <2>2. freed' \subseteq DOMAIN blocks'
    BY <1>1 DEF Grant, IInv, TypeOK
  <2>3. wrapped' \in BOOLEAN
    BY DEF Grant, IInv, TypeOK
  <2> QED
    BY <1>1, <2>1, <2>2, <2>3 DEF TypeOK
<1> SUFFICES ASSUME ~ wrapped' PROVE Ordered' /\ Packed'
  BY <1>3 DEF IInv, Ordered, Packed
<1>4. ~ wrapped /\ ~ Wraps(heap_pos, size) /\ Fits(heap_pos, size)
  BY DEF Grant, IInv, TypeOK
<1>5. heap_pos \in 0 .. HEAP_SIZE /\ heap_pos % 4 = 0
  BY <1>2, <1>4, HeapSizeAssumption DEF IInv, Packed
<1>6. /\ heap_pos + size <= HEAP_SIZE
      /\ heap_pos' \in 0 .. HEAP_SIZE /\ heap_pos' % 4 = 0
      /\ heap_pos' - (heap_pos + size) \in 0 .. 3
  BY <1>2, <1>4, <1>5, BumpExact DEF Grant
<1>6a. heap_pos' <= HEAP_SIZE /\ heap_pos + size <= heap_pos'
  <2>1. \A h, p, z, q \in Int :
          q \in 0 .. h /\ q - (p + z) \in 0 .. 3 => q <= h /\ p + z <= q
    OBVIOUS
  <2>2. heap_pos \in Int /\ size \in Int /\ heap_pos' \in Int /\ HEAP_SIZE \in Int
    BY <1>2, <1>6, HeapSizeAssumption
  <2> QED
    BY <1>6, <2>1, <2>2
<1>7. blocks'[n + 1].ptr = heap_pos /\ End(blocks'[n + 1]) = heap_pos + size
  BY <1>1 DEF End
<1>8. \A k \in 1 .. n : End(blocks'[k]) = End(blocks[k]) /\ End(blocks[k]) \in Int
  <2>1. \A k \in 1 .. n : End(blocks'[k]) = End(blocks[k])
    BY <1>1 DEF End
  <2>2. TypeOK
    BY DEF IInv
  <2>3. \A k \in 1 .. n : End(blocks[k]) \in Int
    BY <1>1, <2>2, BlockType
  <2> QED
    BY <2>1, <2>3
<1>9. \A k \in 1 .. n : /\ End(blocks[k]) <= heap_pos
                        /\ blocks[k].ptr % 4 = 0 /\ End(blocks[k]) <= HEAP_SIZE
  BY <1>1, <1>4 DEF IInv, Packed, Ordered
<1>10. Packed'
  <2>1. ASSUME NEW k \in 1 .. n PROVE End(blocks'[k]) <= heap_pos'
    <3>1. \A e, h, z, q \in Int : e <= h /\ h + z <= q /\ 0 <= z => e <= q
      OBVIOUS
    <3>2. heap_pos \in Int /\ heap_pos' \in Int /\ size \in Int /\ 0 <= size
      BY <1>2, <1>6, HeapSizeAssumption
    <3>3. End(blocks[k]) \in Int /\ End(blocks[k]) <= heap_pos
      BY <1>8, <1>9
    <3>4. End(blocks[k]) <= heap_pos'
      BY <1>6a, <3>1, <3>2, <3>3
    <3> QED
      BY <1>8, <3>4
  <2>2. End(blocks'[n + 1]) <= heap_pos'
    BY <1>6a, <1>7
  <2>3. \A k \in 1 .. n + 1 : End(blocks'[k]) <= heap_pos'
    BY <2>1, <2>2
  <2>4. heap_pos' <= HEAP_SIZE /\ heap_pos' % 4 = 0
    BY <1>6, <1>6a
  <2>5. DOMAIN blocks' = 1 .. n + 1
    BY <1>1
  <2> QED
    BY <2>3, <2>4, <2>5 DEF Packed
<1>11. Ordered'
  <2>1. \A k \in 1 .. n + 1 :
          blocks'[k].ptr % 4 = 0 /\ End(blocks'[k]) <= HEAP_SIZE
    BY <1>1, <1>5, <1>6, <1>7, <1>8, <1>9
  <2>2. \A j, k \in 1 .. n : j < k => End(blocks'[j]) <= blocks'[k].ptr
    BY <1>1, <1>4, <1>8 DEF IInv, Ordered
  <2>3. \A j \in 1 .. n : End(blocks'[j]) <= blocks'[n + 1].ptr
    BY <1>1, <1>8, <1>9
  <2>4. \A j, k \in 1 .. n + 1 : j < k => End(blocks'[j]) <= blocks'[k].ptr
    BY <1>1, <2>2, <2>3
  <2> QED
    BY <1>1, <2>1, <2>4 DEF Ordered
<1> QED
  BY <1>10, <1>11

(* kfree keeps it, because in fact it does nothing: a block starts on a    *)
(* multiple of 4, and the byte before heap_pos is not one.                 *)
LEMMA FreeKeepsIInv ==
  ASSUME IInv, NEW k \in DOMAIN blocks, kfree(k) PROVE IInv'
<1>1. blocks' = blocks /\ wrapped' = wrapped /\ freed' = freed \cup {k}
  BY DEF kfree
<1>2. blocks[k].ptr \in 0 .. Word - 1 /\ heap_pos \in 0 .. Word - 1
  BY BlockType DEF IInv, TypeOK
<1>3. heap_pos' \in 0 .. Word - 1
  BY <1>2 DEF kfree
<1>4. TypeOK'
  BY <1>1, <1>3 DEF IInv, TypeOK
<1> SUFFICES ASSUME ~ wrapped PROVE heap_pos' = heap_pos
  BY <1>1, <1>4 DEF IInv, Ordered, Packed, End
<1>5. blocks[k].ptr % 4 = 0 /\ heap_pos % 4 = 0
  BY DEF IInv, Ordered, Packed
<1>6. blocks[k].ptr # LastByte
  BY <1>2, <1>5 DEF LastByte
<1> QED
  BY <1>6 DEF kfree

LEMMA NextIInv == IInv /\ [Next]_vars => IInv'
<1> SUFFICES ASSUME IInv, [Next]_vars PROVE IInv'
  OBVIOUS
<1>1. CASE UNCHANGED vars
  BY <1>1 DEF vars, IInv, TypeOK, Ordered, Packed, End
<1>2. ASSUME NEW size \in Sizes, kmalloc(size) PROVE IInv'
  BY <1>1, <1>2, GrantKeepsIInv DEF kmalloc, Refuse
<1>3. ASSUME NEW k \in DOMAIN blocks, kfree(k) PROVE IInv'
  BY <1>3, FreeKeepsIInv
<1> QED
  BY <1>1, <1>2, <1>3 DEF Next

(***************************************************************************)
(* The allocator's state keeps its types, the wrap-around of heap_pos      *)
(* included, for every behaviour of its callers.                           *)
(***************************************************************************)
THEOREM TypeCorrect == Spec => []TypeOK
<1>1. IInv => TypeOK
  BY DEF IInv
<1> QED
  BY <1>1, InitIInv, NextIInv, PTL DEF Spec

(***************************************************************************)
(* The blocks that kmalloc has granted and that are in use never overlap.  *)
(***************************************************************************)
THEOREM AllocatorCorrect == Spec => []BlocksDisjoint
<1>1. IInv => BlocksDisjoint
  BY DEF IInv, Ordered, BlocksDisjoint, Live
<1> QED
  BY <1>1, InitIInv, NextIInv, PTL DEF Spec
=============================================================================
