-------------------------------- MODULE Vfs --------------------------------
(***************************************************************************)
(* The file descriptors of fs/vfs.c: open, close, read, write and lseek    *)
(* over the tree at fs_root.  What a file system does behind its callbacks *)
(* is left open; which callbacks the root node has is a parameter, and the *)
(* root node that the kernel runs with (vfs_initialize) has none.          *)
(***************************************************************************)
EXTENDS Integers, Sequences

CONSTANTS
  MAX_FILE_DESCRIPTORS, \* entries of file_descriptors, 64 in the code
  Word,                 \* how many values a uint32_t has
  Callbacks,            \* which of read, write and finddir the nodes have
  Files,                \* the files and directories below the root
  Root, NULL,           \* the root node, and no node
  Directories,          \* the nodes that are directories
  Child,                \* Child[dir][name]: the node of that name in dir
  Paths,                \* the paths clients open, split at their slashes
  Flags,                \* the flags they open them with, as sets of bits
  Sizes,                \* the sizes they read and write
  Offsets               \* the offsets they seek to

SEEK_SET == 0
SEEK_CUR == 1
SEEK_END == 2

(* Every O_ flag is the set of its bits.                                   *)
O_RDONLY == {}
O_WRONLY == {0}
O_RDWR   == {1}
O_CREAT  == {8}

FDs   == 0 .. MAX_FILE_DESCRIPTORS - 1
Nodes == {Root} \cup Files

ASSUME MaxAssumption == MAX_FILE_DESCRIPTORS \in Nat \ {0}
ASSUME WordAssumption == Word \in Nat \ {0}
ASSUME NodesAssumption == NULL \notin Nodes /\ Root \notin Files
ASSUME TreeAssumption ==
  /\ Root \in Directories /\ Directories \subseteq Nodes
  /\ \A dir \in Directories :
       \A name \in DOMAIN Child[dir] : Child[dir][name] \in Files
ASSUME PathsAssumption ==
  Paths \subseteq [absolute : BOOLEAN, components : Seq(STRING)]
ASSUME FlagsAssumption == Flags \subseteq SUBSET (0 .. 31)
ASSUME SizesAssumption == Sizes \subseteq 0 .. Word - 1
ASSUME OffsetsAssumption == Offsets \subseteq Int

VARIABLES
  file_descriptors,  \* the table; an entry whose node is NULL is free
  held,              \* history: the descriptors clients have and not closed
  last               \* history: the last call, its descriptor, its result

vars == <<file_descriptors, held, last>>

Free == [node |-> NULL, pos |-> 0, flags |-> {}]

Init ==
  /\ file_descriptors = [fd \in FDs |-> Free]
  /\ held = {}
  /\ last = [call |-> "none", fd |-> 0, ret |-> 0]

-----------------------------------------------------------------------------
(* The int32_t that a uint32_t becomes when a function returns it.         *)
Signed(n) == IF n >= Word \div 2 THEN n - Word ELSE n

Used == {fd \in FDs : file_descriptors[fd].node # NULL}

(* The test that close, read, write and lseek start with.                  *)
Valid(fd) == fd \in Used

Returns(call, fd, ret) == last' = [call |-> call, fd |-> fd, ret |-> ret]

Fails(call, fd) ==
  /\ Returns(call, fd, -1)
  /\ UNCHANGED <<file_descriptors, held>>

(* Only a directory whose node has the callback finds names.               *)
Names(node) ==
  IF node \in Directories /\ "finddir" \in Callbacks THEN DOMAIN Child[node] ELSE {}

(* The outcomes of vfs_finddir: the node it finds, and NULL, when there is *)
(* none or when the file system has no room for the fs_node_t.             *)
vfs_finddir(node, name) ==
  {NULL} \cup {Child[node][n] : n \in Names(node) \cap {name}}

(* A walk from the root, one component after the other.                    *)
LeadsTo(components, node) ==
  \E walk \in [0 .. Len(components) -> Nodes] :
    /\ walk[0] = Root /\ walk[Len(components)] = node
    /\ \A i \in 1 .. Len(components) :
         walk[i] \in vfs_finddir(walk[i - 1], components[i])

(* The outcomes of vfs_open, which walks an absolute path; O_CREAT creates *)
(* nothing.                                                                *)
vfs_open(path) ==
  IF path.absolute
    THEN {node \in Nodes : LeadsTo(path.components, node)}
           \cup (IF path.components = <<>> THEN {} ELSE {NULL})
    ELSE {NULL}

(* A plausible bug: the search stops at the first entry, free or not. *)
FirstFree_Unchecked(fd) == fd \in FDs /\ \A other \in FDs : other >= fd

(* The entry that the search in open stops at.                             *)
FirstFree(fd) ==
  /\ fd \in FDs \ Used
  /\ \A other \in FDs \ Used : other >= fd

Opened(fd, path, flags) ==
  /\ FirstFree(fd)
  /\ \E node \in vfs_open(path) \ {NULL} :
       file_descriptors' = [file_descriptors EXCEPT ![fd] =
         [node |-> node, pos |-> 0, flags |-> flags]]
  /\ held' = held \cup {fd}
  /\ Returns("open", fd, fd)

(* A plausible bug: the entry is set up before the path is looked up. *)
open_SetsUpFirst(path, flags) ==
  \/ \E fd \in FDs : Opened(fd, path, flags)
  \/ Used = FDs /\ Fails("open", -1)
  \/ \E fd \in FDs :
       /\ FirstFree(fd) /\ NULL \in vfs_open(path)
       /\ file_descriptors' = [file_descriptors EXCEPT ![fd].flags = flags]
       /\ Returns("open", -1, -1) /\ UNCHANGED held

open(path, flags) ==
  \/ \E fd \in FDs : Opened(fd, path, flags)
  \/ /\ Used = FDs \/ NULL \in vfs_open(path)
     /\ Fails("open", -1)

(* A plausible bug: the entry keeps its node. *)
close_KeepsNode(fd) ==
  \/ /\ Valid(fd)
     /\ file_descriptors' = [file_descriptors EXCEPT ![fd].pos = 0]
     /\ held' = held \ {fd}
     /\ Returns("close", fd, 0)
  \/ ~ Valid(fd) /\ Fails("close", fd)

close(fd) ==
  \/ /\ Valid(fd)
     /\ file_descriptors' = [file_descriptors EXCEPT ![fd] = Free]
     /\ held' = held \ {fd}
     /\ Returns("close", fd, 0)
  \/ ~ Valid(fd) /\ Fails("close", fd)

(* What a transfer of up to size bytes returns: 0 without the callback.    *)
Transferred(callback, size) == IF callback \in Callbacks THEN 0 .. size ELSE {0}

(* A plausible bug: the position kept in a wider type. *)
Advance_Wide(pos, n) == pos + n

(* desc->pos += n *)
Advance(pos, n) == (pos + n) % Word

Transfer(call, fd, size) ==
  \E n \in Transferred(call, size) :
    /\ file_descriptors' = [file_descriptors EXCEPT ![fd].pos = Advance(@, n)]
    /\ Returns(call, fd, Signed(n))
    /\ UNCHANGED held

(* The two tests of the flags, as the code writes them.                    *)
NotOpenedForReading(flags) ==
  flags \cap O_RDONLY = {} /\ flags \cap O_RDWR = {}

NotOpenedForWriting(flags) ==
  flags \cap O_WRONLY = {} /\ flags \cap O_RDWR = {}

read(fd, size) ==
  IF ~ Valid(fd) \/ NotOpenedForReading(file_descriptors[fd].flags)
    THEN Fails("read", fd)
    ELSE Transfer("read", fd, size)

write(fd, size) ==
  IF ~ Valid(fd) \/ NotOpenedForWriting(file_descriptors[fd].flags)
    THEN Fails("write", fd)
    ELSE Transfer("write", fd, size)

(* Where a seek starts from; the length of the root is 0, and that of any  *)
(* other node whatever its file system said when the path was opened.      *)
SeekBase(entry, whence) ==
  CASE whence = SEEK_SET -> {0}
    [] whence = SEEK_CUR -> {entry.pos}
    [] whence = SEEK_END -> IF entry.node = Root THEN {0} ELSE Sizes

lseek(fd, offset, whence) ==
  IF ~ Valid(fd) \/ whence \notin {SEEK_SET, SEEK_CUR, SEEK_END}
    THEN Fails("lseek", fd)
    ELSE \E base \in SeekBase(file_descriptors[fd], whence) :
           LET pos == Advance(base, offset)
           IN  /\ file_descriptors' = [file_descriptors EXCEPT ![fd].pos = pos]
               /\ Returns("lseek", fd, Signed(pos))
               /\ UNCHANGED held

(* Clients pass any small integer for a descriptor.                        *)
Arguments == -1 .. MAX_FILE_DESCRIPTORS

Next ==
  \/ \E path \in Paths, flags \in Flags : open(path, flags)
  \/ \E fd \in Arguments : close(fd)
  \/ \E fd \in Arguments, size \in Sizes : read(fd, size) \/ write(fd, size)
  \/ \E fd \in Arguments, offset \in Offsets, whence \in 0 .. 3 :
       lseek(fd, offset, whence)

Spec == Init /\ [][Next]_vars

-----------------------------------------------------------------------------
Entry == [node : Nodes \cup {NULL}, pos : 0 .. Word - 1, flags : SUBSET (0 .. 31)]

TypeOK ==
  /\ file_descriptors \in [FDs -> Entry]
  /\ held \subseteq FDs
  /\ last \in [call : {"none", "open", "close", "read", "write", "lseek"},
               fd : Int, ret : Int]

(***************************************************************************)
(* The table agrees with its clients (open, lines 181-212, and close,      *)
(* 214-231): an entry is taken exactly while a client has a descriptor for *)
(* it that it has not closed.  No entry is leaked, none is taken back, and *)
(* a free entry carries nothing over from its last use.                    *)
(***************************************************************************)
HeldIsUsed ==
  /\ held = Used
  /\ \A fd \in FDs \ held : file_descriptors[fd] = Free

(***************************************************************************)
(* Descriptors are independent: a call disturbs no entry but the one it    *)
(* was made on, and open (lines 184-189) never one that somebody holds.    *)
(***************************************************************************)
DescriptorsIndependent ==
  [][\A fd \in FDs : file_descriptors'[fd] # file_descriptors[fd] =>
       fd = last'.fd /\ (last'.call = "open" => fd \notin held)]_vars

(***************************************************************************)
(* A call that reports an error did nothing.  lseek is left out: its -1    *)
(* can also be a position (line 302).                                      *)
(***************************************************************************)
FailureChangesNothing ==
  [][last'.ret = -1 /\ last'.call # "lseek" =>
       UNCHANGED <<file_descriptors, held>>]_vars
=============================================================================
