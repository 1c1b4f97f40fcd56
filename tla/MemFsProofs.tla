---------------------------- MODULE MemFsProofs ----------------------------
(***************************************************************************)
(* Proofs about MemFs, for every heap, word width, set of files, and every *)
(* set of buffers, positions and sizes that clients come with.             *)
(***************************************************************************)
EXTENDS MemFs, SequenceTheorems, TLAPS

(***************************************************************************)
(* The lemmas of HeapProofs about the heap's arithmetic.  They mention     *)
(* none of its variables, for which any values will do.                    *)
(***************************************************************************)
H == INSTANCE HeapProofs WITH Sizes <- {}, MaxRequests <- 0, blocks <- <<>>,
                              freed <- {}, wrapped <- FALSE

LEMMA HeapAssumptions ==
  /\ H!HeapSizeAssumption /\ H!WordAssumption
  /\ H!SizesAssumption /\ H!MaxRequestsAssumption
BY HeapSizeAssumption, WordAssumption
   DEF H!HeapSizeAssumption, H!WordAssumption, H!SizesAssumption, H!MaxRequestsAssumption

(***************************************************************************)
(* The inductive invariant.  What a file holds is found through its data   *)
(* pointer: it stays what it is because blocks are Apart and WithinHeap;   *)
(* a new block starts at heap_pos, so it is apart from them, and its holes *)
(* read as zero because all from there on is Clean.                        *)
(***************************************************************************)
EndOf(f) == inode[f].data + inode[f].size

WithinHeap ==
  \A f \in Files : inode[f].data # NULL => EndOf(f) <= heap_pos /\ EndOf(f) <= HEAP_SIZE

Apart ==
  \A f, g \in Files :
    f # g /\ inode[f].data # NULL /\ inode[g].data # NULL =>
      EndOf(f) <= inode[g].data \/ EndOf(g) <= inode[f].data

Clean == \A a \in Address : heap_pos <= a => heap[a] = 0

Kept == ~ lost => \A f \in Files : inode[f].size # 0 => inode[f].data # NULL

Layout == heap_pos <= HEAP_SIZE + 3 /\ WithinHeap /\ Apart /\ Clean /\ Kept

IInv == TypeOK /\ LengthNeverAhead /\ (~ wrapped /\ ~ struck => Layout)

-----------------------------------------------------------------------------
(* Remainders of numbers that miss the word by less than its width. *)
LEMMA Remainder ==
  \A x \in Int : /\ 0 <= x /\ x < Word => x % Word = x
                 /\ x < 0 /\ -Word <= x => x % Word = x + Word
BY WordAssumption

(* What kmalloc does for a request that fits, far from a wrap-around.      *)
LEMMA Room ==
  ASSUME NEW pos \in 0 .. HEAP_SIZE + 3, NEW size \in Nat,
         Fits(pos, size), ~ Wraps(pos, size)
  PROVE  /\ pos + size <= HEAP_SIZE /\ Bump(pos, size) \in Nat
         /\ pos + size <= Bump(pos, size) /\ Bump(pos, size) <= HEAP_SIZE + 3
<1>1. pos \in Nat /\ pos + size \in Nat /\ pos + size < Word
  BY HeapSizeAssumption, WordAssumption DEF Wraps
<1>2. pos + size <= HEAP_SIZE
  BY <1>1, Remainder DEF Fits
<1>3. pos + size + 3 < Word
  BY <1>1, <1>2, HeapSizeAssumption, WordAssumption
<1>4. Bump(pos, size) \in Nat /\ Bump(pos, size) - (pos + size) \in 0 .. 3
  BY <1>1, <1>3, HeapAssumptions, H!BumpNear DEF Bump, Align4, H!Bump, H!Align4
<1> QED
  BY <1>1, <1>2, <1>4, HeapSizeAssumption

LEMMA BumpType ==
  ASSUME NEW pos \in 0 .. Word - 1, NEW size \in 0 .. Word - 1
  PROVE  Bump(pos, size) \in 0 .. Word - 1
BY HeapAssumptions, H!BumpType DEF Bump, Align4, H!Bump, H!Align4

(* A sum that the word holds. *)
LEMMA PlainEnd ==
  ASSUME NEW offset \in Nat, NEW size \in Nat, offset + size < Word
  PROVE  End(offset, size) = offset + size
BY Remainder DEF End

(* What memfs_write stores, in a block that is inside the heap.            *)
LEMMA PlainStore ==
  ASSUME NEW mem, NEW to \in Nat, NEW buffer \in Seq(Byte),
         to + Len(buffer) <= HEAP_SIZE, NEW a \in Address
  PROVE  Stored(mem, to, buffer)[a] =
           IF to <= a /\ a < to + Len(buffer) THEN buffer[a - to + 1] ELSE mem[a]
<1> DEFINE k == (a - to) % Word
<1>1. Stored(mem, to, buffer)[a] = IF k < Len(buffer) THEN buffer[k + 1] ELSE mem[a]
  BY DEF Stored
<1>2. Len(buffer) \in Nat /\ a \in Nat /\ a < HEAP_SIZE /\ HEAP_SIZE < Word /\ Word \in Nat
      /\ HEAP_SIZE \in Nat
  BY HeapSizeAssumption, WordAssumption DEF Address
<1>3. CASE to <= a
  <2>1. a - to \in Int /\ 0 <= a - to /\ a - to < Word
    BY <1>2, <1>3
  <2>2. k = a - to
    BY <2>1, Remainder
  <2> HIDE DEF k
  <2> QED
    BY <1>1, <1>2, <1>3, <2>2
<1>4. CASE a < to
  <2>1. a - to \in Int /\ a - to < 0 /\ -Word <= a - to
    BY <1>2, <1>4
  <2>2. k = a - to + Word
    BY <2>1, Remainder
  <2> HIDE DEF k
  <2> QED
    BY <1>1, <1>2, <1>4, <2>2
<1> QED
  BY <1>2, <1>3, <1>4

-----------------------------------------------------------------------------
LEMMA FileType ==
  ASSUME TypeOK, NEW f \in Files
  PROVE  /\ inode[f] = [size |-> inode[f].size, data |-> inode[f].data]
         /\ inode[f].size \in 0 .. Word - 1 /\ inode[f].size \in Nat
         /\ inode[f].data # NULL => inode[f].data \in 0 .. Word - 1 /\ inode[f].data \in Nat
<1>1. inode[f] \in [size : 0 .. Word - 1, data : (0 .. Word - 1) \cup {NULL}]
  BY DEF TypeOK
<1> QED
  BY <1>1, WordAssumption

LEMMA ByteOfType == ASSUME TypeOK, NEW f, NEW i PROVE ByteOf(f, i) \in Byte
BY ByteAssumption DEF TypeOK, ByteOf

(* A call has a position, and a size or a buffer, that the word holds.     *)
LEMMA ArgumentTypes ==
  /\ \A offset \in Offsets : offset \in 0 .. Word - 1 /\ offset \in Nat
  /\ \A size \in Sizes : size \in 0 .. Word - 1 /\ size \in Nat
  /\ \A buffer \in Buffers : buffer \in Seq(Byte) /\ Len(buffer) \in Nat
                               /\ \A k \in 1 .. Len(buffer) : buffer[k] \in Byte
<1>1. \A buffer \in Buffers : buffer \in Seq(Byte)
  BY ByteAssumption
<1> QED
  BY <1>1, OffsetsAssumption, WordAssumption

LEMMA EndType == ASSUME NEW x \in Nat, NEW y \in Nat PROVE End(x, y) \in 0 .. Word - 1
BY HeapSizeAssumption, WordAssumption DEF End

-----------------------------------------------------------------------------
LEMMA FinddirType == ASSUME TypeOK, NEW name \in Files, memfs_finddir(name) PROVE TypeOK'
<1>1. heap_pos' \in 0 .. Word - 1
  <2>1. NodeSize \in 0 .. Word - 1 /\ heap_pos \in 0 .. Word - 1
    BY NodeSizeAssumption, HeapSizeAssumption, WordAssumption DEF TypeOK
  <2> QED
    BY <2>1, BumpType DEF memfs_finddir
<1>2. nodes' \subseteq [file : Files, length : 0 .. Word - 1]
  BY FileType DEF memfs_finddir, TypeOK
<1>3. data' \in Seq(Byte)
  BY DEF memfs_finddir
<1> QED
  BY <1>1, <1>2, <1>3 DEF memfs_finddir, TypeOK

LEMMA ReadType ==
  ASSUME TypeOK, NEW f \in Files, NEW offset \in Offsets, NEW size \in Sizes,
         memfs_read(f, offset, size)
  PROVE  TypeOK'
<1> DEFINE n == CASE offset >= inode[f].size -> 0
                  [] offset < inode[f].size /\ End(offset, size) > inode[f].size ->
                       inode[f].size - offset
                  [] OTHER -> size
<1>1. n \in Nat
  <2>1. inode[f].size \in Nat /\ offset \in Nat /\ size \in Nat
    BY FileType, ArgumentTypes
  <2>2. offset < inode[f].size => inode[f].size - offset \in Nat
    BY <2>1
  <2> QED
    BY <2>1, <2>2
<1>2. data' = [k \in 1 .. n |-> ByteOf(f, offset + k - 1)]
  BY DEF memfs_read
<1> HIDE DEF n
<1>3. data' \in Seq(Byte)
  BY <1>1, <1>2, ByteOfType
<1>4. wrapped' \in BOOLEAN
  BY DEF memfs_read, TypeOK
<1> QED
  BY <1>3, <1>4 DEF memfs_read, TypeOK

(* What memfs_write leaves in the heap are bytes. *)
LEMMA StoredType ==
  ASSUME NEW mem \in [Address -> Byte], NEW to, to \in Int, NEW buffer \in Seq(Byte)
  PROVE  Stored(mem, to, buffer) \in [Address -> Byte]
<1> SUFFICES ASSUME NEW a \in Address
             PROVE  (LET k == (a - to) % Word
                     IN  IF k < Len(buffer) THEN buffer[k + 1] ELSE mem[a]) \in Byte
  BY DEF Stored
<1> DEFINE k == (a - to) % Word
<1>1. k \in Nat
  BY WordAssumption, HeapSizeAssumption DEF Address
<1> HIDE DEF k
<1>2. k < Len(buffer) => buffer[k + 1] \in Byte
  BY <1>1
<1> QED
  BY <1>2 DEF k

LEMMA MovedType ==
  ASSUME TypeOK, NEW f \in Files, NEW to PROVE Moved(f, to) \in [Address -> Byte]
BY ByteOfType DEF Moved, TypeOK

LEMMA WriteType ==
  ASSUME TypeOK, NEW f \in Files, NEW offset \in Offsets, NEW buffer \in Buffers,
         memfs_write(f, offset, buffer)
  PROVE  TypeOK'
<1> DEFINE size  == Len(buffer)
           end   == End(offset, size)
           grows == Grows(f, end)
           room  == Fits(heap_pos, Wanted(offset, size))
           block == CASE grows /\ room   -> heap_pos
                      [] grows /\ ~ room -> NULL
                      [] OTHER           -> inode[f].data
           mem   == IF grows THEN Moved(f, Index(block)) ELSE heap
<1>1. /\ offset \in Nat /\ size \in Nat /\ buffer \in Seq(Byte)
      /\ heap_pos \in 0 .. Word - 1 /\ heap \in [Address -> Byte]
  BY ArgumentTypes DEF TypeOK
<1>2. end \in 0 .. Word - 1 /\ Wanted(offset, size) = end
  BY <1>1, EndType DEF Wanted
<1>3. block \in (0 .. Word - 1) \cup {NULL}
  BY <1>1, FileType
<1>4. mem \in [Address -> Byte]
  BY <1>1, MovedType
<1>5. /\ inode' = [inode EXCEPT ![f] = [size |-> IF grows THEN end ELSE inode[f].size,
                                        data |-> block]]
      /\ heap_pos' = IF grows /\ room THEN Bump(heap_pos, end) ELSE heap_pos
      /\ heap' = Stored(mem, Index(block) + offset, buffer)
      /\ lost' \in BOOLEAN /\ wrapped' \in BOOLEAN /\ struck' \in BOOLEAN
      /\ data' = <<>> /\ nodes' = nodes
  <2> USE <1>2
  <2> QED
    BY DEF memfs_write, TypeOK
<1>6. inode' \in [Files -> [size : 0 .. Word - 1, data : (0 .. Word - 1) \cup {NULL}]]
  <2>1. [size |-> IF grows THEN end ELSE inode[f].size, data |-> block] \in
          [size : 0 .. Word - 1, data : (0 .. Word - 1) \cup {NULL}]
    BY <1>2, <1>3, FileType
  <2> HIDE DEF end, grows, block
  <2> QED
    BY <1>5, <2>1 DEF TypeOK
<1>7. heap_pos' \in 0 .. Word - 1
  BY <1>1, <1>2, <1>5, BumpType
<1>8. heap' \in [Address -> Byte]
  <2>1. Index(block) + offset \in Int
    BY <1>1, <1>3, ImageAssumption, WordAssumption DEF Index
  <2> HIDE DEF block, mem
  <2> QED
    BY <1>1, <1>4, <1>5, <2>1, StoredType
<1> QED
  BY <1>5, <1>6, <1>7, <1>8 DEF TypeOK

-----------------------------------------------------------------------------
(***************************************************************************)
(* memfs_write, as long as no sum wraps around, does one of four things.   *)
(***************************************************************************)
NewBlock(f, offset, buffer) ==
  LET end == offset + Len(buffer)
  IN  /\ end > inode[f].size /\ Fits(heap_pos, end) /\ ~ Wraps(heap_pos, end)
      /\ inode' = [inode EXCEPT ![f] = [size |-> end, data |-> heap_pos]]
      /\ heap_pos' = Bump(heap_pos, end)
      /\ heap' = Stored(Moved(f, heap_pos), heap_pos + offset, buffer)
      /\ lost' = lost

NoRoom(f, offset, buffer) ==
  LET end == offset + Len(buffer)
  IN  /\ end > inode[f].size
      /\ inode' = [inode EXCEPT ![f] = [size |-> end, data |-> NULL]]
      /\ lost' = TRUE
      /\ UNCHANGED <<heap_pos, heap>>

InPlace(f, offset, buffer) ==
  /\ offset + Len(buffer) <= inode[f].size /\ inode[f].data # NULL
  /\ heap' = Stored(heap, inode[f].data + offset, buffer)
  /\ UNCHANGED <<heap_pos, inode, lost>>

Nowhere(f, offset, buffer) ==
  /\ offset + Len(buffer) <= inode[f].size /\ inode[f].data = NULL
  /\ UNCHANGED <<heap_pos, heap, inode, lost>>

(* Copies to NULL that end in front of the kernel miss its heap.           *)
LEMMA StaysLow ==
  ASSUME TypeOK, NEW f \in Files, NEW grows \in BOOLEAN, NEW offset \in Nat,
         NEW buffer \in Seq(Byte), ~ Strikes(f, grows, offset, Len(buffer))
  PROVE  Stored(IF grows THEN Moved(f, -Base) ELSE heap, -Base + offset, buffer) = heap
<1> DEFINE n    == inode[f].size
           size == Len(buffer)
           mem  == IF grows THEN Moved(f, -Base) ELSE heap
<1>1. /\ Image \in Nat /\ Base \in Nat /\ Image <= Base /\ Base + HEAP_SIZE <= Word
      /\ Word \in Nat /\ HEAP_SIZE \in Nat /\ n \in Nat /\ size \in Nat
  <2>1. n \in Nat
    BY FileType
  <2>2. size \in Nat
    OBVIOUS
  <2> QED
    BY <2>1, <2>2, ImageAssumption, WordAssumption, HeapSizeAssumption
<1>2. /\ grows /\ inode[f].data # NULL => n <= Image
      /\ size > 0 => offset + size <= Image
  BY <1>1 DEF Strikes
<1>3. heap = [a \in Address |-> heap[a]]
  BY DEF TypeOK
<1>4. mem = heap
  <2>1. CASE grows /\ inode[f].data # NULL
    <3>1. ASSUME NEW a \in Address PROVE a - (-Base) \notin 0 .. n - 1
      <4> HIDE DEF n
      <4> QED
        BY <1>1, <1>2, <2>1 DEF Address
    <3> QED
      BY <1>3, <2>1, <3>1 DEF Moved
  <2>2. CASE ~ (grows /\ inode[f].data # NULL)
    BY <2>2 DEF Moved
  <2> QED
    BY <2>1, <2>2
<1>5. ASSUME NEW a \in Address PROVE ~ ((a - (-Base + offset)) % Word < size)
  <2> DEFINE x == a - (-Base + offset)
             r == x % Word
  <2>1. a \in Nat /\ a < HEAP_SIZE /\ x \in Int /\ x = a + Base - offset
    BY <1>1 DEF Address
  <2>2. CASE size = 0
    <3>1. r \in Int /\ r >= 0
      <4>1. \A z \in Int : z % Word \in Int /\ z % Word >= 0
        BY WordAssumption, HeapSizeAssumption
      <4> HIDE DEF x
      <4> QED
        BY <2>1, <4>1
    <3> HIDE DEF r, size
    <3>2. ~ (r < size)
      BY <2>2, <3>1
    <3> QED
      BY <3>2 DEF r
  <2>3. CASE size > 0
    <3>1. 0 <= x /\ x < Word /\ size <= x
      BY <1>1, <1>2, <2>1, <2>3
    <3>2. r = x
      BY <2>1, <3>1, Remainder
    <3> HIDE DEF r, x, size
    <3>3. ~ (r < size)
      BY <1>1, <2>1, <3>1, <3>2
    <3> QED
      BY <3>3 DEF r, x
  <2> HIDE DEF r, x, size
  <2> QED
    BY <1>1, <2>2, <2>3
<1> HIDE DEF mem
<1>6. Stored(mem, -Base + offset, buffer) = [a \in Address |-> mem[a]]
  BY <1>5 DEF Stored
<1> QED
  BY <1>3, <1>4, <1>6 DEF mem

LEMMA WriteCases ==
  ASSUME TypeOK, NEW f \in Files, NEW offset \in Offsets, NEW buffer \in Buffers,
         memfs_write(f, offset, buffer), ~ wrapped', ~ struck'
  PROVE  /\ ~ wrapped /\ ~ struck /\ data' = <<>> /\ nodes' = nodes
         /\ offset \in Nat /\ buffer \in Seq(Byte) /\ Len(buffer) \in Nat
         /\ \/ NewBlock(f, offset, buffer) \/ NoRoom(f, offset, buffer)
            \/ InPlace(f, offset, buffer) \/ Nowhere(f, offset, buffer)
<1> DEFINE size  == Len(buffer)
           end   == offset + size
           grows == end > inode[f].size
           room  == Fits(heap_pos, end)
           block == CASE grows /\ room   -> heap_pos
                      [] grows /\ ~ room -> NULL
                      [] OTHER           -> inode[f].data
<1>1. offset \in Nat /\ buffer \in Seq(Byte) /\ size \in Nat /\ end \in Nat
  BY ArgumentTypes
<1>2. /\ ~ wrapped /\ ~ struck /\ end < Word /\ data' = <<>> /\ nodes' = nodes
      /\ ~ (Grows(f, End(offset, size)) /\ Wraps(heap_pos, Wanted(offset, size)))
  <2>1. /\ ~ (wrapped \/ end >= Word
               \/ (Grows(f, End(offset, size)) /\ Wraps(heap_pos, Wanted(offset, size))))
        /\ ~ struck /\ data' = <<>> /\ nodes' = nodes
    BY DEF memfs_write
  <2>2. ~ (end >= Word) => end < Word
    BY <1>1, WordAssumption
  <2> HIDE DEF end, size
  <2> QED
    BY <2>1, <2>2
<1>3. End(offset, size) = end /\ Wanted(offset, size) = end
  BY <1>1, <1>2, PlainEnd DEF Wanted
<1>4. ~ (grows /\ Wraps(heap_pos, end))
  BY <1>2, <1>3 DEF Grows
<1>5. /\ inode' = [inode EXCEPT ![f] = [size |-> IF grows THEN end ELSE inode[f].size,
                                        data |-> block]]
      /\ heap_pos' = IF grows /\ room THEN Bump(heap_pos, end) ELSE heap_pos
      /\ heap' = IF block = NULL THEN heap
                 ELSE Stored(IF grows THEN Moved(f, block) ELSE heap, block + offset, buffer)
      /\ lost' = (lost \/ (grows /\ ~ room))
  <2>1. /\ inode' = [inode EXCEPT ![f] = [size |-> IF grows THEN end ELSE inode[f].size,
                                          data |-> block]]
        /\ heap_pos' = IF grows /\ room THEN Bump(heap_pos, end) ELSE heap_pos
        /\ heap' = Stored(IF grows THEN Moved(f, Index(block)) ELSE heap,
                          Index(block) + offset, buffer)
        /\ lost' = (lost \/ (grows /\ ~ room))
        /\ block = NULL => ~ Strikes(f, grows, offset, size)
    BY <1>3 DEF memfs_write, Grows
  <2>2. grows \in BOOLEAN
    OBVIOUS
  <2> HIDE DEF grows, block, end
  <2>3. CASE block = NULL
    <3>1. Index(block) = -Base
      BY <2>3, Zenon DEF Index
    <3> QED
      BY <1>1, <2>1, <2>2, <2>3, <3>1, StaysLow
  <2>4. CASE block # NULL
    <3>1. Index(block) = block
      BY <2>4, Zenon DEF Index
    <3> QED
      BY <2>1, <2>4, <3>1
  <2> QED
    BY <2>3, <2>4
<1>6. inode[f] = [size |-> inode[f].size, data |-> inode[f].data] /\ inode[f].size \in Nat
  BY FileType
<1>7. inode \in [Files -> [size : 0 .. Word - 1, data : (0 .. Word - 1) \cup {NULL}]]
      /\ heap_pos # NULL /\ lost \in BOOLEAN
  BY NullAssumption DEF TypeOK
<1>8. ~ grows => end <= inode[f].size
  BY <1>1, <1>6
<1>9. CASE grows /\ room
  <2>1. block = heap_pos
    BY <1>9
  <2> HIDE DEF grows, room, block
  <2> QED
    BY <1>1, <1>2, <1>4, <1>5, <1>7, <1>9, <2>1 DEF NewBlock, grows, room
<1>10. CASE grows /\ ~ room
  <2>1. block = NULL
    BY <1>10
  <2> HIDE DEF grows, room, block
  <2> QED
    BY <1>1, <1>2, <1>5, <1>7, <1>10, <2>1 DEF NoRoom, grows
<1>11. CASE ~ grows
  <2>1. block = inode[f].data
    BY <1>11
  <2>2. inode' = inode
    <3> HIDE DEF grows, room, block
    <3>1. inode' = [inode EXCEPT ![f] = inode[f]]
      BY <1>5, <1>6, <1>11, <2>1
    <3> QED
      BY <1>7, <3>1
  <2>3. heap_pos' = heap_pos /\ lost' = lost
    BY <1>5, <1>7, <1>11
  <2>4. heap' = IF inode[f].data = NULL THEN heap
                ELSE Stored(heap, inode[f].data + offset, buffer)
    <3> HIDE DEF grows, room, block
    <3> QED
      BY <1>5, <1>11, <2>1
  <2> HIDE DEF grows, room, block
  <2> QED
    BY <1>1, <1>2, <1>8, <1>11, <2>2, <2>3, <2>4 DEF InPlace, Nowhere
<1> QED
  BY <1>9, <1>10, <1>11

-----------------------------------------------------------------------------
(* A new block: what is before it stays, what is in it, what comes after.  *)
LEMMA NewBlockHeap ==
  ASSUME TypeOK, Layout, NEW f \in Files, NEW offset \in Nat, NEW buffer \in Seq(Byte),
         NewBlock(f, offset, buffer)
  PROVE  LET end == offset + Len(buffer)
         IN  /\ heap_pos \in Nat /\ heap_pos + end <= HEAP_SIZE
             /\ heap_pos' \in Nat /\ heap_pos + end <= heap_pos'
             /\ heap_pos' <= HEAP_SIZE + 3
             /\ \A a \in Address :
                  /\ a < heap_pos => heap'[a] = heap[a]
                  /\ heap_pos + end <= a => heap'[a] = 0
             /\ \A i \in 0 .. end - 1 :
                  heap'[heap_pos + i] =
                    IF offset <= i THEN buffer[i - offset + 1]
                    ELSE IF inode[f].data # NULL /\ i < inode[f].size THEN ByteOf(f, i)
                    ELSE 0
<1> DEFINE end == offset + Len(buffer)
           n   == inode[f].size
           mem == Moved(f, heap_pos)
<1>1. /\ Len(buffer) \in Nat /\ end \in Nat /\ n \in Nat /\ end > n
      /\ Fits(heap_pos, end) /\ ~ Wraps(heap_pos, end)
      /\ heap_pos' = Bump(heap_pos, end)
      /\ heap' = Stored(mem, heap_pos + offset, buffer)
  <2>1. n \in Nat
    BY FileType
  <2>2. Len(buffer) \in Nat
    OBVIOUS
  <2> QED
    BY <2>1, <2>2 DEF NewBlock
<1>2. heap_pos \in 0 .. HEAP_SIZE + 3 /\ heap_pos \in Nat
  BY HeapSizeAssumption, WordAssumption DEF TypeOK, Layout
<1>3. /\ heap_pos + end <= HEAP_SIZE /\ heap_pos' \in Nat
      /\ heap_pos + end <= heap_pos' /\ heap_pos' <= HEAP_SIZE + 3
  BY <1>1, <1>2, Room
<1> HIDE DEF mem
<1>4. ASSUME NEW a \in Address
      PROVE  heap'[a] = IF heap_pos + offset <= a /\ a < heap_pos + end
                        THEN buffer[a - (heap_pos + offset) + 1] ELSE mem[a]
  <2>1. heap_pos + offset \in Nat /\ heap_pos + offset + Len(buffer) = heap_pos + end
    BY <1>1, <1>2
  <2>2. buffer \in Seq(Byte) /\ heap_pos + offset + Len(buffer) <= HEAP_SIZE
    BY <1>3, <2>1
  <2> DEFINE to == heap_pos + offset
  <2>3. Stored(mem, to, buffer)[a]
          = IF to <= a /\ a < to + Len(buffer) THEN buffer[a - to + 1] ELSE mem[a]
    <3>1. to \in Nat /\ to + Len(buffer) <= HEAP_SIZE
      BY <2>1, <2>2
    <3> HIDE DEF to, end
    <3> QED
      BY <2>2, <3>1, PlainStore
  <2> HIDE DEF end
  <2> QED
    BY <1>1, <2>1, <2>3
<1>5. ASSUME NEW a \in Address
      PROVE  mem[a] = IF inode[f].data # NULL /\ heap_pos <= a /\ a < heap_pos + n
                      THEN ByteOf(f, a - heap_pos) ELSE heap[a]
  <2>1. a - heap_pos \in 0 .. n - 1 <=> heap_pos <= a /\ a < heap_pos + n
    BY <1>1, <1>2 DEF Address
  <2> HIDE DEF n
  <2> QED
    BY <2>1 DEF mem, Moved, n
<1>6. \A a \in Address : heap_pos <= a => heap[a] = 0
  BY DEF Layout, Clean
<1>7. ASSUME NEW a \in Address, a < heap_pos PROVE heap'[a] = heap[a]
  BY <1>1, <1>2, <1>4, <1>5, <1>7 DEF Address
<1>8. ASSUME NEW a \in Address, heap_pos + end <= a PROVE heap'[a] = 0
  BY <1>1, <1>2, <1>4, <1>5, <1>6, <1>8 DEF Address
<1>9. ASSUME NEW i \in 0 .. end - 1
      PROVE  heap'[heap_pos + i] =
                IF offset <= i THEN buffer[i - offset + 1]
                ELSE IF inode[f].data # NULL /\ i < n THEN ByteOf(f, i)
                ELSE 0
  <2>1. PICK a \in Address : a = heap_pos + i
    BY <1>1, <1>2, <1>3, HeapSizeAssumption DEF Address
  <2>2. i \in Nat /\ i < end /\ heap_pos <= a /\ a - heap_pos = i
    BY <1>1, <1>2, <2>1
  <2>3. /\ a - (heap_pos + offset) + 1 = i - offset + 1
        /\ (heap_pos + offset <= a <=> offset <= i)
        /\ a < heap_pos + end
        /\ (a < heap_pos + n <=> i < n)
    BY <1>1, <1>2, <2>1, <2>2
  <2> HIDE DEF end, n
  <2>4. heap'[a] = IF offset <= i THEN buffer[i - offset + 1] ELSE mem[a]
    BY <1>4, <2>3
  <2>5. mem[a] = IF inode[f].data # NULL /\ i < n THEN ByteOf(f, i) ELSE heap[a]
    BY <1>5, <2>2, <2>3
  <2>6. heap[a] = 0
    BY <1>6, <2>2
  <2> QED
    BY <2>1, <2>4, <2>5, <2>6
<1> QED
  BY <1>2, <1>3, <1>7, <1>8, <1>9

(* A write inside the file touches its bytes from offset on.               *)
LEMMA InPlaceHeap ==
  ASSUME TypeOK, Layout, NEW f \in Files, NEW offset \in Nat, NEW buffer \in Seq(Byte),
         InPlace(f, offset, buffer), NEW a \in Address
  PROVE  LET to == inode[f].data + offset
         IN  heap'[a] = IF to <= a /\ a < to + Len(buffer) THEN buffer[a - to + 1]
                                                           ELSE heap[a]
<1> DEFINE to == inode[f].data + offset
<1>1. /\ Len(buffer) \in Nat /\ offset + Len(buffer) <= inode[f].size
      /\ inode[f].data # NULL /\ heap' = Stored(heap, to, buffer)
  BY DEF InPlace
<1>2. inode[f].data \in Nat /\ inode[f].size \in Nat
  BY <1>1, FileType
<1>3. inode[f].data + inode[f].size <= HEAP_SIZE
  BY <1>1 DEF Layout, WithinHeap, EndOf
<1>4. to \in Nat /\ to + Len(buffer) <= HEAP_SIZE
  BY <1>1, <1>2, <1>3, HeapSizeAssumption
<1> HIDE DEF to
<1> QED
  BY <1>1, <1>4, PlainStore DEF to

-----------------------------------------------------------------------------
(* The bytes of a file that has any are inside the heap, before heap_pos.  *)
LEMMA FileBytes ==
  ASSUME TypeOK, Layout, NEW f \in Files, inode[f].data # NULL,
         NEW i \in 0 .. inode[f].size - 1
  PROVE  /\ inode[f].data + i \in Address /\ inode[f].data + i < heap_pos
         /\ ByteOf(f, i) = heap[inode[f].data + i]
<1>1. inode[f].data \in Nat /\ inode[f].size \in Nat /\ heap_pos \in Nat
  BY FileType, WordAssumption DEF TypeOK
<1>2. /\ inode[f].data + inode[f].size <= heap_pos
      /\ inode[f].data + inode[f].size <= HEAP_SIZE
  BY DEF Layout, WithinHeap, EndOf
<1>3. inode[f].data + i \in Address /\ inode[f].data + i < heap_pos
  BY <1>1, <1>2, HeapSizeAssumption DEF Address
<1> QED
  BY <1>3 DEF ByteOf

(* The files keep out of each other's blocks: a write changes one of them. *)
LEMMA OthersKept ==
  ASSUME TypeOK, Layout, NEW f \in Files, NEW offset \in Nat, NEW buffer \in Seq(Byte),
         \/ NewBlock(f, offset, buffer) \/ NoRoom(f, offset, buffer)
         \/ InPlace(f, offset, buffer) \/ Nowhere(f, offset, buffer),
         NEW g \in Files, g # f
  PROVE  /\ inode'[g] = inode[g]
         /\ \A i \in 0 .. inode[g].size - 1 : ByteOf(g, i)' = ByteOf(g, i)
<1>1. inode'[g] = inode[g]
  BY DEF NewBlock, NoRoom, InPlace, Nowhere, TypeOK
<1>2. ASSUME NEW i \in 0 .. inode[g].size - 1 PROVE ByteOf(g, i)' = ByteOf(g, i)
  <2>1. CASE inode[g].data = NULL
    BY <1>1, <2>1 DEF ByteOf
  <2>2. CASE inode[g].data # NULL
    <3> DEFINE a == inode[g].data + i
    <3>1. a \in Address /\ a < heap_pos
      BY <2>2, FileBytes
    <3>2. /\ inode[g].data \in Nat /\ inode[g].size \in Nat /\ i \in Nat
          /\ i < inode[g].size /\ Len(buffer) \in Nat
      <4>1. inode[g].data \in Nat /\ inode[g].size \in Nat
        BY <2>2, FileType
      <4> QED
        BY <4>1
    <3>3. heap'[a] = heap[a]
      <4>1. CASE NewBlock(f, offset, buffer)
        BY <3>1, <4>1, NewBlockHeap
      <4>2. CASE NoRoom(f, offset, buffer) \/ Nowhere(f, offset, buffer)
        BY <4>2 DEF NoRoom, Nowhere
      <4>3. CASE InPlace(f, offset, buffer)
        <5> DEFINE to == inode[f].data + offset
        <5>1. /\ inode[f].data # NULL /\ inode[f].data \in Nat /\ inode[f].size \in Nat
              /\ offset + Len(buffer) <= inode[f].size
          BY <4>3, FileType DEF InPlace
        <5>2. \/ inode[f].data + inode[f].size <= inode[g].data
              \/ inode[g].data + inode[g].size <= inode[f].data
          BY <2>2, <5>1 DEF Layout, Apart, EndOf
        <5>3. ~ (to <= a /\ a < to + Len(buffer))
          <6>1. \A p, m, q, n, o, l, k \in Nat :
                  o + l <= m /\ k < n /\ (p + m <= q \/ q + n <= p) =>
                    ~ (p + o <= q + k /\ q + k < p + o + l)
            OBVIOUS
          <6> QED
            BY <3>2, <5>1, <5>2, <6>1
        <5>4. heap'[a] = IF to <= a /\ a < to + Len(buffer) THEN buffer[a - to + 1]
                                                            ELSE heap[a]
          <6> HIDE DEF a
          <6> QED
            BY <3>1, <4>3, InPlaceHeap
        <5> HIDE DEF a, to
        <5> QED
          BY <5>3, <5>4
      <4> QED
        BY <4>1, <4>2, <4>3
    <3> QED
      BY <1>1, <3>1, <3>3 DEF ByteOf
  <2> QED
    BY <2>1, <2>2
<1> QED
  BY <1>1, <1>2

(* What a write makes of its own file, as long as none is lost.            *)
LEMMA WrittenFile ==
  ASSUME TypeOK, Layout, ~ lost,
         NEW f \in Files, NEW offset \in Nat, NEW buffer \in Seq(Byte),
         \/ NewBlock(f, offset, buffer)
         \/ InPlace(f, offset, buffer) \/ Nowhere(f, offset, buffer)
  PROVE  LET end == offset + Len(buffer)
         IN  /\ inode'[f].size = IF end > inode[f].size THEN end ELSE inode[f].size
             /\ \A i \in 0 .. inode'[f].size - 1 :
                  ByteOf(f, i)' = IF offset <= i /\ i < end THEN buffer[i - offset + 1]
                                  ELSE IF i < inode[f].size THEN ByteOf(f, i) ELSE 0
<1> DEFINE end == offset + Len(buffer)
           n   == inode[f].size
<1>1. n \in Nat /\ Len(buffer) \in Nat /\ end \in Nat
  <2>1. n \in Nat
    BY FileType
  <2>2. Len(buffer) \in Nat
    OBVIOUS
  <2> QED
    BY <2>1, <2>2
<1>2. n # 0 => inode[f].data # NULL
  BY DEF Layout, Kept
<1>3. CASE NewBlock(f, offset, buffer)
  <2>1. inode'[f].size = end /\ inode'[f].data = heap_pos /\ end > n
    BY <1>3 DEF NewBlock, TypeOK
  <2>2. /\ heap_pos \in Nat /\ heap_pos + end <= HEAP_SIZE
        /\ \A i \in 0 .. end - 1 :
             heap'[heap_pos + i] = IF offset <= i THEN buffer[i - offset + 1]
                                   ELSE IF inode[f].data # NULL /\ i < n THEN ByteOf(f, i)
                                   ELSE 0
    BY <1>3, NewBlockHeap
  <2>3. ASSUME NEW i \in 0 .. end - 1
        PROVE  ByteOf(f, i)' = IF offset <= i /\ i < end THEN buffer[i - offset + 1]
                               ELSE IF i < n THEN ByteOf(f, i) ELSE 0
    <3>1. i \in Nat /\ i < end /\ (i < n => inode[f].data # NULL)
      BY <1>1, <1>2
    <3>2. heap_pos + i \in Address /\ heap_pos # NULL
      BY <1>1, <2>2, <3>1, HeapSizeAssumption, NullAssumption DEF Address, TypeOK
    <3>3. ByteOf(f, i)' = heap'[heap_pos + i]
      BY <2>1, <3>2 DEF ByteOf
    <3> HIDE DEF end, n
    <3> QED
      BY <2>2, <3>1, <3>3
  <2> HIDE DEF end, n
  <2> QED
    BY <1>1, <2>1, <2>3 DEF end, n
<1>4. CASE InPlace(f, offset, buffer)
  <2>1. inode'[f] = inode[f] /\ inode[f].data # NULL /\ end <= n
    BY <1>4 DEF InPlace
  <2>2. ASSUME NEW i \in 0 .. n - 1
        PROVE  ByteOf(f, i)' = IF offset <= i /\ i < end THEN buffer[i - offset + 1]
                               ELSE IF i < n THEN ByteOf(f, i) ELSE 0
    <3> DEFINE to == inode[f].data + offset
    <3>1. PICK a \in Address : a = inode[f].data + i
      BY <2>1, FileBytes
    <3>2. ByteOf(f, i) = heap[a] /\ ByteOf(f, i)' = heap'[a]
      <4>1. inode[f].data + i \in Address
        BY <3>1
      <4> QED
        BY <2>1, <3>1, <4>1 DEF ByteOf
    <3>3. /\ a - to + 1 = i - offset + 1 /\ i < n
          /\ (to <= a <=> offset <= i) /\ (a < to + Len(buffer) <=> i < end)
      <4>1. inode[f].data \in Nat
        BY <2>1, FileType
      <4>2. \A p, o \in Nat : \A l, j \in Int :
              /\ (p + j) - (p + o) + 1 = j - o + 1
              /\ (p + o <= p + j <=> o <= j)
              /\ (p + j < p + o + l <=> j < o + l)
        OBVIOUS
      <4>3. offset \in Nat /\ Len(buffer) \in Int /\ i \in Int /\ i < n
        BY <1>1
      <4> QED
        BY <3>1, <4>1, <4>2, <4>3
    <3>4. heap'[a] = IF to <= a /\ a < to + Len(buffer) THEN buffer[a - to + 1]
                                                        ELSE heap[a]
      BY <1>4, InPlaceHeap
    <3> HIDE DEF to, end, n
    <3> QED
      BY <3>2, <3>3, <3>4
  <2> HIDE DEF end, n
  <2> QED
    BY <1>1, <2>1, <2>2 DEF end, n
<1>5. CASE Nowhere(f, offset, buffer)
  <2>1. inode'[f] = inode[f] /\ n = 0 /\ end <= n
    BY <1>2, <1>5 DEF Nowhere
  <2> QED
    BY <1>1, <2>1
<1> QED
  BY <1>3, <1>4, <1>5

-----------------------------------------------------------------------------
LEMMA EndOfType == ASSUME TypeOK, NEW g \in Files, inode[g].data # NULL PROVE EndOf(g) \in Nat
<1>1. inode[g].data \in Nat /\ inode[g].size \in Nat
  BY FileType
<1> QED
  BY <1>1 DEF EndOf

LEMMA NewBlockLayout ==
  ASSUME TypeOK, Layout, NEW f \in Files, NEW offset \in Nat, NEW buffer \in Seq(Byte),
         NewBlock(f, offset, buffer)
  PROVE  Layout'
<1> DEFINE end == offset + Len(buffer)
<1>1. end \in Nat /\ inode'[f].size = end /\ inode'[f].data = heap_pos /\ heap_pos # NULL
  BY NullAssumption DEF NewBlock, TypeOK
<1>2. /\ heap_pos \in Nat /\ heap_pos + end <= HEAP_SIZE
      /\ heap_pos' \in Nat /\ heap_pos + end <= heap_pos' /\ heap_pos' <= HEAP_SIZE + 3
      /\ \A a \in Address : heap_pos + end <= a => heap'[a] = 0
  BY NewBlockHeap
<1> HIDE DEF end
<1>3. \A g \in Files : g # f => inode'[g] = inode[g]
  BY OthersKept
<1>4. \A g \in Files : g # f /\ inode[g].data # NULL =>
        EndOf(g) \in Nat /\ EndOf(g) <= heap_pos /\ EndOf(g) <= HEAP_SIZE
  <2>1. \A g \in Files : inode[g].data # NULL => EndOf(g) \in Nat
    BY EndOfType
  <2> QED
    BY <2>1 DEF Layout, WithinHeap
<1>5. EndOf(f)' = heap_pos + end
  BY <1>1 DEF EndOf
<1>6. \A g \in Files : g # f => EndOf(g)' = EndOf(g)
  BY <1>3 DEF EndOf
<1>7. WithinHeap'
  <2> SUFFICES ASSUME NEW g \in Files, inode'[g].data # NULL
               PROVE  EndOf(g)' <= heap_pos' /\ EndOf(g)' <= HEAP_SIZE
    BY DEF WithinHeap
  <2>1. CASE g = f
    BY <1>2, <1>5, <2>1
  <2>2. CASE g # f
    <3>1. heap_pos <= heap_pos'
      BY <1>1, <1>2
    <3> QED
      BY <1>2, <1>3, <1>4, <1>6, <2>2, <3>1
  <2> QED
    BY <2>1, <2>2
<1>8. Apart'
  <2> SUFFICES ASSUME NEW g \in Files, NEW h \in Files, g # h,
                      inode'[g].data # NULL, inode'[h].data # NULL
               PROVE  EndOf(g)' <= inode'[h].data \/ EndOf(h)' <= inode'[g].data
    BY DEF Apart
  <2>1. CASE g = f
    BY <1>1, <1>3, <1>4, <1>6, <2>1
  <2>2. CASE h = f
    BY <1>1, <1>3, <1>4, <1>6, <2>2
  <2>3. CASE g # f /\ h # f
    BY <1>3, <1>6, <2>3 DEF Layout, Apart
  <2> QED
    BY <2>1, <2>2, <2>3
<1>9. Clean'
  BY <1>1, <1>2 DEF Clean, Address
<1>10. Kept'
  <2>1. lost' = lost
    BY DEF NewBlock
  <2> QED
    BY <1>1, <1>3, <2>1 DEF Layout, Kept
<1> QED
  BY <1>2, <1>7, <1>8, <1>9, <1>10 DEF Layout

(* Steps that leave the pointers alone, or take one away.                  *)
LEMMA FewerPointers ==
  ASSUME TypeOK, Layout, heap_pos' \in Nat, heap_pos <= heap_pos', heap_pos' <= HEAP_SIZE + 3,
         \A g \in Files : inode'[g] = inode[g] \/ inode'[g].data = NULL,
         \A a \in Address : heap_pos' <= a => heap'[a] = heap[a],
         Kept'
  PROVE  Layout'
<1>1. heap_pos \in Nat
  BY WordAssumption DEF TypeOK
<1>2. \A g \in Files : inode'[g].data # NULL =>
        /\ inode'[g] = inode[g] /\ EndOf(g)' = EndOf(g) /\ EndOf(g) \in Nat
        /\ EndOf(g) <= heap_pos /\ EndOf(g) <= HEAP_SIZE
  <2>1. \A g \in Files : inode[g].data # NULL => EndOf(g) \in Nat
    BY EndOfType
  <2> QED
    BY <2>1 DEF Layout, WithinHeap, EndOf
<1>3. WithinHeap'
  BY <1>1, <1>2 DEF WithinHeap
<1>4. Apart'
  BY <1>2 DEF Layout, Apart
<1>5. Clean'
  BY <1>1 DEF Layout, Clean, Address
<1> QED
  BY <1>3, <1>4, <1>5 DEF Layout

LEMMA NoRoomLayout ==
  ASSUME TypeOK, Layout, NEW f \in Files, NEW offset \in Nat, NEW buffer \in Seq(Byte),
         NoRoom(f, offset, buffer)
  PROVE  Layout'
<1>1. heap_pos' \in Nat /\ heap_pos' = heap_pos /\ heap' = heap /\ lost'
  BY WordAssumption DEF NoRoom, TypeOK
<1>2. \A g \in Files : inode'[g] = inode[g] \/ inode'[g].data = NULL
  BY DEF NoRoom, TypeOK
<1>3. Kept'
  BY <1>1 DEF Kept
<1> QED
  BY <1>1, <1>2, <1>3, FewerPointers DEF Layout

LEMMA InPlaceLayout ==
  ASSUME TypeOK, Layout, NEW f \in Files, NEW offset \in Nat, NEW buffer \in Seq(Byte),
         InPlace(f, offset, buffer)
  PROVE  Layout'
<1>1. heap_pos' \in Nat /\ heap_pos' = heap_pos /\ inode' = inode /\ lost' = lost
  BY WordAssumption DEF InPlace, TypeOK
<1>2. \A a \in Address : heap_pos <= a => heap'[a] = heap[a]
  <2> SUFFICES ASSUME NEW a \in Address, heap_pos <= a PROVE heap'[a] = heap[a]
    OBVIOUS
  <2> DEFINE to == inode[f].data + offset
  <2>1. /\ inode[f].data \in Nat /\ inode[f].size \in Nat /\ Len(buffer) \in Nat
        /\ offset + Len(buffer) <= inode[f].size
        /\ inode[f].data + inode[f].size <= heap_pos
    <3>1. inode[f].data # NULL /\ offset + Len(buffer) <= inode[f].size
      BY DEF InPlace
    <3>2. inode[f].data \in Nat /\ inode[f].size \in Nat
      BY <3>1, FileType
    <3>3. Len(buffer) \in Nat
      OBVIOUS
    <3> QED
      BY <3>1, <3>2, <3>3 DEF Layout, WithinHeap, EndOf
  <2>2. ~ (a < to + Len(buffer))
    BY <1>1, <2>1 DEF Address
  <2>3. heap'[a] = IF to <= a /\ a < to + Len(buffer) THEN buffer[a - to + 1] ELSE heap[a]
    BY InPlaceHeap
  <2> HIDE DEF to
  <2> QED
    BY <2>2, <2>3
<1>3. Kept'
  BY <1>1 DEF Layout, Kept
<1> QED
  BY <1>1, <1>2, <1>3, FewerPointers DEF Layout

(* Steps that change neither pointers nor bytes. *)
LEMMA QuietLayout ==
  ASSUME TypeOK, Layout, UNCHANGED <<heap, inode, lost>>,
         heap_pos' \in Nat, heap_pos <= heap_pos', heap_pos' <= HEAP_SIZE + 3
  PROVE  Layout'
<1>1. Kept'
  BY DEF Layout, Kept
<1> QED
  BY <1>1, FewerPointers

LEMMA FinddirLayout ==
  ASSUME TypeOK, Layout, NEW name \in Files, memfs_finddir(name) PROVE Layout'
<1>1. /\ heap_pos \in 0 .. HEAP_SIZE + 3 /\ heap_pos \in Nat /\ NodeSize \in Nat
      /\ ~ Wraps(heap_pos, NodeSize)
  BY HeapSizeAssumption, WordAssumption, NodeSizeAssumption DEF TypeOK, Layout, Wraps
<1>2. heap_pos' \in Nat /\ heap_pos <= heap_pos' /\ heap_pos' <= HEAP_SIZE + 3
  <2>1. CASE Fits(heap_pos, NodeSize)
    <3>1. heap_pos' = Bump(heap_pos, NodeSize)
      BY <2>1 DEF memfs_finddir
    <3> QED
      BY <1>1, <2>1, <3>1, Room
  <2>2. CASE ~ Fits(heap_pos, NodeSize)
    BY <1>1, <2>2 DEF memfs_finddir, Layout
  <2> QED
    BY <2>1, <2>2
<1> QED
  BY <1>2, QuietLayout DEF memfs_finddir

LEMMA WriteLayout ==
  ASSUME TypeOK, Layout, NEW f \in Files, NEW offset \in Offsets, NEW buffer \in Buffers,
         memfs_write(f, offset, buffer), ~ wrapped', ~ struck'
  PROVE  Layout'
<1>1. offset \in Nat /\ buffer \in Seq(Byte)
  BY ArgumentTypes
<1>2. CASE Nowhere(f, offset, buffer)
  BY <1>2, QuietLayout, WordAssumption DEF Nowhere, TypeOK, Layout
<1> QED
  BY <1>1, <1>2, WriteCases, NewBlockLayout, NoRoomLayout, InPlaceLayout

-----------------------------------------------------------------------------
(* Files only grow, so that a length found earlier is not ahead of them.   *)
LEMMA FilesGrow ==
  ASSUME TypeOK, NEW f \in Files, NEW offset \in Offsets, NEW buffer \in Buffers,
         memfs_write(f, offset, buffer)
  PROVE  \A g \in Files : inode[g].size \in Nat /\ inode'[g].size \in Nat
                            /\ inode[g].size <= inode'[g].size
<1> DEFINE end == End(offset, Len(buffer))
<1>1. end \in Nat
  BY ArgumentTypes, EndType, WordAssumption
<1>2. \A g \in Files : inode[g].size \in Nat
  BY FileType
<1>3. inode'[f].size = IF end > inode[f].size THEN end ELSE inode[f].size
  BY DEF memfs_write, Grows, TypeOK
<1>4. \A g \in Files : g # f => inode'[g] = inode[g]
  BY DEF memfs_write, TypeOK
<1> HIDE DEF end
<1>5. inode'[f].size \in Nat /\ inode[f].size <= inode'[f].size
  BY <1>1, <1>2, <1>3
<1> QED
  BY <1>2, <1>4, <1>5

LEMMA InitIInv == Init => IInv
<1> SUFFICES ASSUME Init PROVE IInv
  OBVIOUS
<1>1. TypeOK
  <2>1. 0 \in 0 .. Word - 1
    BY HeapSizeAssumption, WordAssumption
  <2>2. heap \in [Address -> Byte]
    BY ByteAssumption DEF Init
  <2>3. inode \in [Files -> [size : 0 .. Word - 1, data : (0 .. Word - 1) \cup {NULL}]]
    BY <2>1 DEF Init
  <2>4. data \in Seq(Byte)
    BY DEF Init
  <2> QED
    BY <2>1, <2>2, <2>3, <2>4 DEF Init, TypeOK
<1>2. LengthNeverAhead
  BY DEF Init, LengthNeverAhead
<1>3. Layout
  BY HeapSizeAssumption DEF Init, Layout, WithinHeap, Apart, Clean, Kept
<1> QED
  BY <1>1, <1>2, <1>3 DEF IInv

LEMMA FinddirKeepsIInv ==
  ASSUME IInv, NEW name \in Files, memfs_finddir(name) PROVE IInv'
<1>1. TypeOK'
  BY FinddirType DEF IInv
<1>2. LengthNeverAhead'
  <2>1. \A node \in nodes' : node \in nodes
                              \/ node = [file |-> name, length |-> inode[name].size]
    BY DEF memfs_finddir
  <2>2. inode' = inode /\ inode[name].size <= inode[name].size
    <3>1. inode[name].size \in Nat
      BY FileType DEF IInv
    <3> QED
      BY <3>1 DEF memfs_finddir
  <2> QED
    BY <2>1, <2>2 DEF IInv, LengthNeverAhead
<1>3. ~ wrapped' /\ ~ struck' => Layout'
  BY FinddirLayout DEF IInv, memfs_finddir
<1> QED
  BY <1>1, <1>2, <1>3 DEF IInv

LEMMA ReadKeepsIInv ==
  ASSUME IInv, NEW f \in Files, NEW offset \in Offsets, NEW size \in Sizes,
         memfs_read(f, offset, size)
  PROVE  IInv'
<1>1. TypeOK'
  BY ReadType DEF IInv
<1>2. UNCHANGED <<heap_pos, heap, inode, nodes, lost, struck>> /\ (wrapped => wrapped')
  BY DEF memfs_read
<1>3. LengthNeverAhead'
  BY <1>2 DEF IInv, LengthNeverAhead
<1>4. ~ wrapped' /\ ~ struck' => Layout'
  BY <1>2, QuietLayout, WordAssumption DEF IInv, TypeOK, Layout
<1> QED
  BY <1>1, <1>3, <1>4 DEF IInv

LEMMA WriteKeepsIInv ==
  ASSUME IInv, NEW f \in Files, NEW offset \in Offsets, NEW buffer \in Buffers,
         memfs_write(f, offset, buffer)
  PROVE  IInv'
<1>1. TypeOK'
  BY WriteType DEF IInv
<1>2. LengthNeverAhead'
  <2> SUFFICES ASSUME NEW node \in nodes PROVE node.length <= inode'[node.file].size
    BY DEF memfs_write, LengthNeverAhead
  <2>1. node.file \in Files /\ node.length \in Nat /\ node.length <= inode[node.file].size
    BY WordAssumption DEF IInv, TypeOK, LengthNeverAhead
  <2>2. /\ inode[node.file].size \in Nat /\ inode'[node.file].size \in Nat
        /\ inode[node.file].size <= inode'[node.file].size
    BY <2>1, FilesGrow DEF IInv
  <2> QED
    BY <2>1, <2>2
<1>3. ~ wrapped' /\ ~ struck' => Layout'
  BY WriteLayout, WriteCases DEF IInv
<1> QED
  BY <1>1, <1>2, <1>3 DEF IInv

LEMMA NextIInv == IInv /\ [Next]_vars => IInv'
<1> SUFFICES ASSUME IInv, [Next]_vars PROVE IInv'
  OBVIOUS
<1>1. \A node \in nodes : node.file \in Files
  BY DEF IInv, TypeOK
<1>2. CASE UNCHANGED vars
  BY <1>2 DEF vars, IInv, TypeOK, LengthNeverAhead, Layout, WithinHeap, Apart, Clean, Kept,
              EndOf
<1> QED
  BY <1>1, <1>2, FinddirKeepsIInv, ReadKeepsIInv, WriteKeepsIInv DEF Next

(***************************************************************************)
(* The file system's state keeps its types, also when a position wraps     *)
(* around or a kmalloc fails (lines 149-157).                              *)
(***************************************************************************)
THEOREM TypeCorrect == Spec => []TypeOK
<1>1. IInv => TypeOK
  BY DEF IInv
<1> QED
  BY <1>1, InitIInv, NextIInv, PTL DEF Spec

(***************************************************************************)
(* The length that memfs_finddir copies into a node (line 229) is never    *)
(* more than the file's, whoever writes to it through other nodes.         *)
(***************************************************************************)
THEOREM NodesBehind == Spec => []LengthNeverAhead
<1>1. IInv => LengthNeverAhead
  BY DEF IInv
<1> QED
  BY <1>1, InitIInv, NextIInv, PTL DEF Spec

(***************************************************************************)
(* A write changes the file it is for and no other, also when its kmalloc  *)
(* fails (line 156), as long as what it then copies to NULL (lines 160,    *)
(* 168) ends in front of the kernel, wherever in .bss the heap is.         *)
(***************************************************************************)
THEOREM WritesStayApart == Spec => OthersUntouched
<1> DEFINE Untouched ==
      ~ wrapped' /\ ~ struck' =>
        \A g \in Files : inode'[g] # inode[g] \/ content'[g] # content[g] =>
          \E offset \in Offsets, buffer \in Buffers : memfs_write(g, offset, buffer)
<1>1. ASSUME IInv, [Next]_vars PROVE [Untouched]_vars
  <2> SUFFICES ASSUME ~ wrapped', ~ struck', Next, NEW g \in Files,
                      inode'[g] # inode[g] \/ content'[g] # content[g]
               PROVE  \E offset \in Offsets, buffer \in Buffers :
                        memfs_write(g, offset, buffer)
    BY <1>1
  <2>1. UNCHANGED <<heap, inode>> => content' = content
    BY DEF content, ByteOf
  <2>2. PICK node \in nodes, offset \in Offsets, buffer \in Buffers :
               memfs_write(node.file, offset, buffer)
    BY <2>1 DEF Next, memfs_finddir, memfs_read
  <2>3. node.file \in Files /\ TypeOK
    BY <1>1 DEF IInv, TypeOK
  <2>4. /\ offset \in Nat /\ buffer \in Seq(Byte) /\ Layout
        /\ \/ NewBlock(node.file, offset, buffer) \/ NoRoom(node.file, offset, buffer)
           \/ InPlace(node.file, offset, buffer) \/ Nowhere(node.file, offset, buffer)
    BY <1>1, <2>2, <2>3, WriteCases DEF IInv
  <2>5. ASSUME NEW h \in Files, h # node.file
        PROVE  inode'[h] = inode[h] /\ content'[h] = content[h]
    <3>1. /\ inode'[h] = inode[h]
          /\ \A i \in 0 .. inode[h].size - 1 : ByteOf(h, i)' = ByteOf(h, i)
      BY <2>3, <2>4, <2>5, OthersKept
    <3>2. inode[h].size \in Nat
      BY <2>3, FileType
    <3>3. \A k \in 1 .. inode[h].size : ByteOf(h, k - 1)' = ByteOf(h, k - 1)
      BY <3>1, <3>2
    <3> QED
      BY <3>1, <3>3 DEF content
  <2>6. g = node.file
    BY <2>5
  <2> QED
    BY <2>2, <2>6
<1> QED
  BY <1>1, InitIInv, NextIInv, PTL DEF Spec, OthersUntouched

-----------------------------------------------------------------------------
(* The bytes of a file, as a sequence. *)
LEMMA ContentType ==
  ASSUME TypeOK, NEW f \in Files
  PROVE  /\ content[f] = [k \in 1 .. inode[f].size |-> ByteOf(f, k - 1)]
         /\ content[f] \in Seq(Byte) /\ Len(content[f]) = inode[f].size
         /\ inode[f].size \in Nat
<1>1. content[f] = [k \in 1 .. inode[f].size |-> ByteOf(f, k - 1)]
  BY DEF content
<1>2. inode[f].size \in Nat
  BY FileType
<1>3. \A k \in 1 .. inode[f].size : ByteOf(f, k - 1) \in Byte
  BY ByteOfType
<1> QED
  BY <1>1, <1>2, <1>3

(* A read that stays in the word returns the part of the file it asks for. *)
LEMMA ReadReturns ==
  ASSUME TypeOK, NEW f \in Files, NEW offset \in Offsets, NEW size \in Sizes,
         memfs_read(f, offset, size), ~ wrapped'
  PROVE  Store!Read(f, offset, size)
<1> DEFINE n   == inode[f].size
           end == IF offset + size > n THEN n ELSE offset + size
           got == CASE offset >= n -> 0
                    [] offset < n /\ End(offset, size) > n -> n - offset
                    [] OTHER -> size
<1>1. /\ offset \in Nat /\ size \in Nat /\ n \in Nat
      /\ content[f] \in Seq(Byte) /\ Len(content[f]) = n
      /\ content[f] = [k \in 1 .. n |-> ByteOf(f, k - 1)]
  BY ArgumentTypes, ContentType
<1>2. /\ data' = [k \in 1 .. got |-> ByteOf(f, offset + k - 1)]
      /\ offset < n => ~ (offset + size >= Word)
      /\ UNCHANGED <<heap, inode, lost>> /\ wrapped' = wrapped
  BY DEF memfs_read, TypeOK
<1>3. got \in Nat /\ end \in Nat /\ got = (IF offset + 1 <= end THEN end - offset ELSE 0)
  <2>1. offset < n => End(offset, size) = offset + size
    <3>1. offset < n => offset + size < Word
      BY <1>1, <1>2, WordAssumption
    <3> QED
      BY <1>1, <3>1, PlainEnd
  <2> HIDE DEF n
  <2> QED
    BY <1>1, <2>1
<1>4. \A k \in 1 .. got : offset + k \in 1 .. n
  <2> HIDE DEF got
  <2> QED
    BY <1>1, <1>3
<1> HIDE DEF got, end, n
<1>5. \A k \in 1 .. got : content[f][offset + k] = ByteOf(f, offset + k - 1)
  BY <1>1, <1>4
<1>6. data' = [k \in 1 .. got |-> content[f][offset + k]]
  BY <1>2, <1>5
<1>7. data' = SubSeq(content[f], offset + 1, end)
  <2> DEFINE s == SubSeq(content[f], offset + 1, end)
  <2>1. \A k \in offset + 1 .. end : content[f][k] \in Byte
    <3>1. \A k \in offset + 1 .. end : k \in 1 .. n
      BY <1>1 DEF end
    <3> QED
      BY <1>1, <3>1
  <2>2. /\ s \in Seq(Byte) /\ Len(s) = (IF offset + 1 <= end THEN end - (offset + 1) + 1 ELSE 0)
        /\ \A i \in 1 .. end - (offset + 1) + 1 : s[i] = content[f][offset + 1 + i - 1]
    BY <1>1, <1>3, <2>1, SubSeqProperties
  <2> HIDE DEF s
  <2>3. Len(s) = got /\ \A i \in 1 .. got : s[i] = content[f][offset + i]
    BY <1>1, <1>3, <2>2
  <2>4. s = [k \in 1 .. got |-> s[k]]
    BY <1>3, <2>2, <2>3
  <2> QED
    BY <1>6, <2>3, <2>4 DEF s
<1>8. content' = content
  BY <1>2 DEF content, ByteOf
<1> QED
  BY <1>1, <1>2, <1>7, <1>8 DEF Store!Read, end

(* The kernel is out of reach of the files that have kept their data.      *)
LEMMA LosesFirst ==
  ASSUME IInv, ~ struck, NEW f \in Files, NEW offset \in Offsets, NEW buffer \in Buffers,
         memfs_write(f, offset, buffer), ~ wrapped', ~ lost'
  PROVE  ~ struck'
<1> DEFINE size  == Len(buffer)
           end   == End(offset, size)
           grows == Grows(f, end)
           room  == Fits(heap_pos, Wanted(offset, size))
           block == CASE grows /\ room   -> heap_pos
                      [] grows /\ ~ room -> NULL
                      [] OTHER           -> inode[f].data
<1>1. /\ struck' = (struck \/ (block = NULL /\ Strikes(f, grows, offset, size)))
      /\ ~ (lost \/ (grows /\ ~ room)) /\ ~ (wrapped \/ offset + size >= Word)
  BY DEF memfs_write
<1>2. /\ offset \in Nat /\ size \in Nat /\ inode[f].size \in Nat /\ heap_pos # NULL
      /\ Image \in Nat /\ Word \in Nat
  BY ArgumentTypes, FileType, NullAssumption, ImageAssumption, WordAssumption
     DEF IInv, TypeOK
<1>3. inode[f].size # 0 => inode[f].data # NULL
  BY <1>1 DEF IInv, Layout, Kept
<1>4. CASE grows
  <2>1. block = heap_pos
    BY <1>1, <1>4
  <2> HIDE DEF block, grows, room
  <2> QED
    BY <1>1, <1>2, <2>1
<1>5. CASE ~ grows
  <2>1. block = inode[f].data
    BY <1>5
  <2>2. offset + size < Word
    BY <1>1, <1>2
  <2>3. end = offset + size
    BY <1>2, <2>2, PlainEnd
  <2>4. end <= inode[f].size
    BY <1>2, <1>5, <2>3 DEF Grows
  <2> HIDE DEF block, grows, end
  <2>5. CASE inode[f].size = 0
    <3>1. size = 0
      BY <1>2, <2>3, <2>4, <2>5
    <3>2. ~ Strikes(f, grows, offset, size)
      BY <1>2, <1>5, <3>1 DEF Strikes
    <3> QED
      BY <1>1, <3>2
  <2>6. CASE inode[f].size # 0
    BY <1>1, <1>3, <2>1, <2>6
  <2> QED
    BY <2>5, <2>6
<1> QED
  BY <1>4, <1>5

(* A write that neither loses a file nor wraps around writes what the      *)
(* store's write does, and nothing else.                                   *)
LEMMA WriteStores ==
  ASSUME TypeOK, TypeOK', Layout,
         NEW f \in Files, NEW offset \in Offsets, NEW buffer \in Buffers,
         memfs_write(f, offset, buffer), ~ wrapped', ~ struck', ~ lost'
  PROVE  Store!Write(f, offset, buffer)
<1> DEFINE n    == inode[f].size
           end  == offset + Len(buffer)
           grown == IF end > n THEN end ELSE n
<1>1. /\ ~ wrapped /\ data' = <<>>
      /\ offset \in Nat /\ buffer \in Seq(Byte) /\ Len(buffer) \in Nat
      /\ \/ NewBlock(f, offset, buffer) \/ NoRoom(f, offset, buffer)
         \/ InPlace(f, offset, buffer) \/ Nowhere(f, offset, buffer)
  BY WriteCases
<1>2. ~ NoRoom(f, offset, buffer) /\ ~ lost
  BY <1>1 DEF NoRoom, NewBlock, InPlace, Nowhere
<1>3. /\ inode'[f].size = grown
      /\ \A i \in 0 .. inode'[f].size - 1 :
           ByteOf(f, i)' = IF offset <= i /\ i < end THEN buffer[i - offset + 1]
                           ELSE IF i < n THEN ByteOf(f, i) ELSE 0
  BY <1>1, <1>2, WrittenFile
<1>4. /\ content[f] = [k \in 1 .. n |-> ByteOf(f, k - 1)]
      /\ Len(content[f]) = n /\ n \in Nat /\ end \in Nat /\ grown \in Nat
  BY <1>1, ContentType
<1>5. content'[f] = [k \in 1 .. grown |-> ByteOf(f, k - 1)']
  BY <1>3 DEF content
<1>6. ASSUME NEW k \in 1 .. grown
      PROVE  ByteOf(f, k - 1)' =
               CASE k \in offset + 1 .. end -> buffer[k - offset]
                 [] k \notin offset + 1 .. end /\ k <= n -> content[f][k]
                 [] OTHER -> 0
  <2>1. k - 1 \in 0 .. grown - 1 /\ k \in Nat
    BY <1>4
  <2>2. ByteOf(f, k - 1)' = IF offset <= k - 1 /\ k - 1 < end THEN buffer[k - 1 - offset + 1]
                            ELSE IF k - 1 < n THEN ByteOf(f, k - 1) ELSE 0
    BY <1>3, <2>1
  <2>3. /\ k \in offset + 1 .. end <=> offset <= k - 1 /\ k - 1 < end
        /\ k - 1 < n <=> k <= n
        /\ k - 1 - offset + 1 = k - offset
    BY <1>1, <1>4, <2>1
  <2>4. k <= n => content[f][k] = ByteOf(f, k - 1)
    BY <1>4, <2>1
  <2> HIDE DEF end, n, grown
  <2> QED
    BY <2>2, <2>3, <2>4
<1>7. content'[f] = Store!Overwritten(content[f], offset, buffer)
  <2> HIDE DEF end, n, grown
  <2>1. Store!Overwritten(content[f], offset, buffer) =
          [k \in 1 .. grown |-> CASE k \in offset + 1 .. end -> buffer[k - offset]
                                  [] k \notin offset + 1 .. end /\ k <= n -> content[f][k]
                                  [] OTHER -> 0]
    BY <1>4 DEF Store!Overwritten, grown, end
  <2> QED
    BY <1>5, <1>6, <2>1
<1>8. ASSUME NEW g \in Files, g # f PROVE content'[g] = content[g]
  <2>1. /\ inode'[g] = inode[g]
        /\ \A i \in 0 .. inode[g].size - 1 : ByteOf(g, i)' = ByteOf(g, i)
    BY <1>1, <1>8, OthersKept
  <2>2. inode[g].size \in Nat
    BY FileType
  <2>3. \A k \in 1 .. inode[g].size : ByteOf(g, k - 1)' = ByteOf(g, k - 1)
    BY <2>1, <2>2
  <2> QED
    BY <2>1, <2>3 DEF content
<1>9. content' = [content EXCEPT ![f] = Store!Overwritten(content[f], offset, buffer)]
  <2>1. content' = [g \in Files |-> content'[g]] /\ DOMAIN content = Files
        /\ content = [g \in Files |-> content[g]]
    BY DEF content
  <2> QED
    BY <1>7, <1>8, <2>1
<1>10. (lost \/ wrapped)' = (lost \/ wrapped)
  BY <1>1, <1>2
<1> QED
  BY <1>1, <1>9, <1>10 DEF Store!Write

(***************************************************************************)
(* memfs.c's files are FileStore's, byte for byte, through every move from *)
(* block to block, until a kmalloc fails or a sum wraps around.            *)
(***************************************************************************)
THEOREM FilesStored == Spec => FilesAreStored
<1>1. Init => Store!Init
  <2> SUFFICES ASSUME Init PROVE Store!Init
    OBVIOUS
  <2>1. IInv /\ \A f \in Files : inode[f].size = 0
    BY InitIInv DEF Init
  <2>2. \A f \in Files : content[f] = <<>>
    BY <2>1, ContentType, EmptySeq DEF IInv
  <2>3. content = [f \in Files |-> <<>>]
    BY <2>2 DEF content
  <2> QED
    BY <2>3 DEF Init, Store!Init
<1>2. ASSUME IInv, IInv', [Next]_vars
      PROVE  [Store!Next]_<<content, data, lost \/ wrapped>>
  <2>1. CASE UNCHANGED vars
    BY <2>1 DEF vars, content, ByteOf
  <2>2. CASE (lost \/ wrapped)'
    BY <2>2 DEF Store!Next
  <2>3. ASSUME NEW name \in Files, memfs_finddir(name) PROVE Store!Next
    <3>1. content' = content
      BY <2>3 DEF memfs_finddir, content, ByteOf
    <3> QED
      BY <2>3, <3>1 DEF memfs_finddir, Store!Next, Store!Other
  <2>4. ASSUME NEW node \in nodes, NEW offset \in Offsets, NEW size \in Sizes,
               memfs_read(node.file, offset, size), ~ (lost \/ wrapped)'
        PROVE  Store!Next
    <3>1. node.file \in Files
      BY <1>2 DEF IInv, TypeOK
    <3>2. Store!Read(node.file, offset, size)
      BY <1>2, <2>4, <3>1, ReadReturns DEF IInv
    <3> QED
      BY <3>1, <3>2 DEF Store!Next, Store!Store
  <2>5. ASSUME NEW node \in nodes, NEW offset \in Offsets, NEW buffer \in Buffers,
               memfs_write(node.file, offset, buffer), ~ (lost \/ wrapped)', ~ struck
        PROVE  Store!Next
    <3>1. node.file \in Files
      BY <1>2 DEF IInv, TypeOK
    <3>2. ~ wrapped' /\ ~ struck' /\ ~ lost'
      BY <1>2, <2>5, <3>1, LosesFirst
    <3>3. ~ wrapped
      BY <1>2, <2>5, <3>1, <3>2, WriteCases DEF IInv
    <3>4. Store!Write(node.file, offset, buffer)
      BY <1>2, <2>5, <3>1, <3>2, <3>3, WriteStores DEF IInv
    <3> QED
      BY <3>1, <3>4 DEF Store!Next, Store!Store
  <2> QED
    BY <1>2, <2>1, <2>2, <2>3, <2>4, <2>5 DEF Next
<1> QED
  BY <1>1, <1>2, InitIInv, NextIInv, PTL DEF Spec, FilesAreStored, Store!Spec
=============================================================================
