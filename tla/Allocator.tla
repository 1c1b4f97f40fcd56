----------------------------- MODULE Allocator -----------------------------
(***************************************************************************)
(* The arithmetic of the kernel heap (kernel/memory.c).  heap_pos and      *)
(* size_t are unsigned and Word values wide, so every sum wraps.           *)
(***************************************************************************)
EXTENDS Integers

CONSTANTS
  HEAP_SIZE,  \* bytes in the heap array, 0x10000 in the code
  Word        \* how many values a uint32_t has, 2^32 in the code

ASSUME HeapSizeAssumption == HEAP_SIZE \in Nat \ {0} /\ HEAP_SIZE % 4 = 0
ASSUME WordAssumption == Word \in Nat /\ Word % 4 = 0 /\ HEAP_SIZE + 3 < Word

(* A plausible bug: size & ~3. *)
Align4_RoundsDown(size) == size - (size % 4)

(* (size + 3) & ~3 *)
Align4(size) ==
  LET sum == (size + 3) % Word IN sum - (sum % 4)

(* A plausible bug: the test leaves the size out. *)
Fits_IgnoresSize(pos, size) == pos <= HEAP_SIZE

(* Does kmalloc find room for size bytes when heap_pos is pos?             *)
Fits(pos, size) == (pos + size) % Word <= HEAP_SIZE

(* A plausible bug: the sum kept in a wider type. *)
Bump_Wide(pos, size) == pos + Align4(size)

(* heap_pos after a request that fits.                                     *)
Bump(pos, size) == (pos + Align4(size)) % Word

(* The sum heap_pos + size of the test wraps around.                       *)
Wraps(pos, size) == pos + size >= Word
=============================================================================
