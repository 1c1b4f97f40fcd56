-------------------------------- MODULE MemFs --------------------------------
(***************************************************************************)
(* The memory file system's callbacks (fs/memfs.c) on the kernel heap:     *)
(* what vfs_read, vfs_write and vfs_finddir call once a file system is     *)
(* mounted.  Nothing in memfs.c creates a file yet; the files that the     *)
(* callbacks are written for are those below the root when the model       *)
(* starts, empty.  An address is an index into heap: the physical address  *)
(* p is the index p - Base.                                                *)
(***************************************************************************)
EXTENDS Allocator, Sequences

CONSTANTS
  children,  \* the names of the files below the root, in list order
  NodeSize,  \* sizeof(fs_node_t), 312 in the build
  Image,     \* physical address of the kernel's first byte, 0x1000
  Base,      \* physical address of heap[0], somewhere in the kernel's .bss
  Byte,      \* the bytes
  Buffers,   \* what clients write
  Offsets,   \* the positions they read and write at
  Sizes,     \* how much they read
  NULL

ASSUME NodeSizeAssumption == NodeSize \in Nat /\ HEAP_SIZE + NodeSize + 3 < Word
ASSUME ImageAssumption ==
  Image \in Nat /\ NodeSize <= Image /\ Base \in Nat /\ Image <= Base
  /\ Base + HEAP_SIZE <= Word
ASSUME ByteAssumption == 0 \in Byte /\ Buffers \subseteq Seq(Byte)
ASSUME OffsetsAssumption == Offsets \cup Sizes \subseteq 0 .. Word - 1
ASSUME NullAssumption == NULL \notin 0 .. Word - 1

Address == 0 .. HEAP_SIZE - 1
Files   == {children[k] : k \in DOMAIN children}

VARIABLES
  heap_pos,
  heap,     \* its bytes; those of a node's own block are left out
  inode,    \* size and data of each file
  nodes,    \* the fs_nodes handed out: file, and its length at that time
  data,     \* history: what the last call has read
  lost,     \* history: has a file been given NULL for its data?
  wrapped,  \* history: has a sum of a position and a size wrapped around?
  struck    \* history: has a write through NULL reached the kernel?

vars == <<heap_pos, heap, inode, nodes, data, lost, wrapped, struck>>

(* heap has static storage, which starts as zero by C's rules.  It is in   *)
(* .bss, which the boot code leaves as it finds it.                        *)
Init ==
  /\ heap_pos = 0
  /\ heap = [a \in Address |-> 0]
  /\ inode = [f \in Files |-> [size |-> 0, data |-> NULL]]
  /\ nodes = {}
  /\ data = <<>>
  /\ lost = FALSE /\ wrapped = FALSE /\ struck = FALSE

-----------------------------------------------------------------------------
(* The root's finddir hands out a new node each time, cut from the heap    *)
(* and never given back; without room it fills memory at NULL instead, all *)
(* of it in front of the kernel, and the file is not found.                *)
memfs_finddir(name) ==
  /\ name \in Files
  /\ IF Fits(heap_pos, NodeSize)
       THEN /\ heap_pos' = Bump(heap_pos, NodeSize)
            /\ nodes' = nodes \cup {[file |-> name, length |-> inode[name].size]}
       ELSE UNCHANGED <<heap_pos, nodes>>
  /\ data' = <<>>
  /\ UNCHANGED <<heap, inode, lost, wrapped, struck>>

-----------------------------------------------------------------------------
(* A plausible bug: the sum kept in a wider type. *)
End_Wide(offset, size) == offset + size

(* offset + size *)
End(offset, size) == (offset + size) % Word

(* The byte at index i of a file's data.  Only a file that has lost its    *)
(* data, and a sum that wraps around, reach past the heap.                 *)
ByteOf(f, i) ==
  IF inode[f].data = NULL \/ inode[f].data + i \notin Address THEN 0
                                                           ELSE heap[inode[f].data + i]

memfs_read(f, offset, size) ==
  LET n == CASE offset >= inode[f].size -> 0
             [] offset < inode[f].size /\ End(offset, size) > inode[f].size ->
                  inode[f].size - offset
             [] OTHER -> size
  IN  /\ data' = [k \in 1 .. n |-> ByteOf(f, offset + k - 1)]
      /\ wrapped' = (wrapped \/ (offset < inode[f].size /\ offset + size >= Word))
      /\ UNCHANGED <<heap_pos, heap, inode, nodes, lost, struck>>

-----------------------------------------------------------------------------
(* A plausible bug: the file is made to end where the write does. *)
Grows_OrShrinks(f, end) == end # inode[f].size

Grows(f, end) == end > inode[f].size

(* A plausible bug: room for what is written, and none for what precedes. *)
Wanted_SizeOnly(offset, size) == size

(* What kmalloc is asked for.                                              *)
Wanted(offset, size) == End(offset, size)

(* A plausible bug: the old data is not copied. *)
Moved_Nothing(f, to) == heap

(* memcpy(new_data, inode->data, inode->size): the blocks overlap only     *)
(* after a sum has wrapped around, when nothing is promised of them.       *)
Moved(f, to) ==
  IF inode[f].data = NULL THEN heap
  ELSE [a \in Address |-> IF a - to \in 0 .. inode[f].size - 1
                            THEN ByteOf(f, a - to) ELSE heap[a]]

(* memcpy(inode->data + offset, buffer, size): 32-bit sums of pointers.    *)
Stored(mem, to, buffer) ==
  [a \in Address |-> LET k == (a - to) % Word
                    IN  IF k < Len(buffer) THEN buffer[k + 1] ELSE mem[a]]

(* Where a block, or NULL, is as an index into heap.                       *)
Index(block) == IF block = NULL THEN -Base ELSE block

(* Do the two copies to NULL, of what f held and of the buffer, reach the  *)
(* kernel?  In front of it is memory that it does not use.                 *)
Strikes(f, grows, offset, size) ==
  \/ grows /\ inode[f].data # NULL /\ inode[f].size > Image
  \/ size > 0 /\ offset + size > Image

(* The block of the file stays as it is, or a larger one takes its place;  *)
(* the old one is freed, which gives nothing back (Heap).  The answer of   *)
(* kmalloc is not tested: the copies then go to NULL, and on from there.   *)
memfs_write(f, offset, buffer) ==
  LET size  == Len(buffer)
      end   == End(offset, size)
      grows == Grows(f, end)
      room  == Fits(heap_pos, Wanted(offset, size))
      block == CASE grows /\ room   -> heap_pos
                 [] grows /\ ~ room -> NULL
                 [] OTHER           -> inode[f].data
  IN  /\ inode' = [inode EXCEPT ![f] = [size |-> IF grows THEN end ELSE @.size,
                                        data |-> block]]
      /\ heap_pos' = IF grows /\ room THEN Bump(heap_pos, Wanted(offset, size))
                                      ELSE heap_pos
      /\ heap' = Stored(IF grows THEN Moved(f, Index(block)) ELSE heap,
                        Index(block) + offset, buffer)
      /\ struck' = (struck \/ (block = NULL /\ Strikes(f, grows, offset, size)))
      /\ lost' = (lost \/ (grows /\ ~ room))
      /\ wrapped' = \/ wrapped
                     \/ offset + size >= Word
                     \/ (grows /\ Wraps(heap_pos, Wanted(offset, size)))
      /\ data' = <<>>
      /\ UNCHANGED nodes

(* Clients have nodes: of the root, where reads find nothing and writes    *)
(* are refused, and of the files they have looked up.  memfs_open,         *)
(* memfs_close and memfs_readdir change nothing.  Once the kernel itself   *)
(* is overwritten anything may happen, and the model ends.                 *)
Next ==
  /\ ~ struck
  /\ \/ \E name \in Files : memfs_finddir(name)
     \/ \E node \in nodes, offset \in Offsets :
          \/ \E size \in Sizes : memfs_read(node.file, offset, size)
          \/ \E buffer \in Buffers : memfs_write(node.file, offset, buffer)

Spec == Init /\ [][Next]_vars

-----------------------------------------------------------------------------
TypeOK ==
  /\ heap_pos \in 0 .. Word - 1
  /\ heap \in [Address -> Byte]
  /\ inode \in [Files -> [size : 0 .. Word - 1, data : (0 .. Word - 1) \cup {NULL}]]
  /\ nodes \subseteq [file : Files, length : 0 .. Word - 1]
  /\ data \in Seq(Byte)
  /\ lost \in BOOLEAN /\ wrapped \in BOOLEAN /\ struck \in BOOLEAN

(* What the files hold, through their pointers into the heap.              *)
content == [f \in Files |-> [k \in 1 .. inode[f].size |-> ByteOf(f, k - 1)]]

(***************************************************************************)
(* memfs_read and memfs_write (lines 128-170) implement FileStore until a  *)
(* kmalloc fails or a position wraps around: files survive being moved     *)
(* from block to block, keep out of each other's blocks, and read as zero  *)
(* where a write skipped, although nothing clears a new block.             *)
(***************************************************************************)
Store == INSTANCE FileStore WITH damaged <- lost \/ wrapped

FilesAreStored == Store!Spec

(***************************************************************************)
(* A kmalloc that fails under a write (line 156) costs the file written    *)
(* its contents, and no other, unless its bytes run from NULL on into the  *)
(* kernel (lines 160, 168), whose heap holds the others.  Until then, and  *)
(* until a position wraps around, a file changes only by a write to it.    *)
(***************************************************************************)
OthersUntouched ==
  [][~ wrapped' /\ ~ struck' =>
       \A g \in Files : inode'[g] # inode[g] \/ content'[g] # content[g] =>
         \E offset \in Offsets, buffer \in Buffers : memfs_write(g, offset, buffer)]_vars

(***************************************************************************)
(* A node keeps the length its file had when it was looked up (line 229),  *)
(* and SEEK_END goes by it (vfs.c:295): it may be behind the end of the    *)
(* file, which then is overwritten, but is never ahead of it.              *)
(***************************************************************************)
LengthNeverAhead == \A node \in nodes : node.length <= inode[node.file].size
=============================================================================
