----------------------------- MODULE VfsProofs -----------------------------
(***************************************************************************)
(* Proofs of the properties of Vfs, for every number of descriptors, word  *)
(* width, set of callbacks, tree of files, paths and flags.                *)
(***************************************************************************)
EXTENDS Vfs, TLAPS

(***************************************************************************)
(* The table and what clients hold of it.  HeldIsUsed alone is not         *)
(* inductive: that a free entry equals Free after close needs the type of  *)
(* the table, whose updates are known only within its domain.              *)
(***************************************************************************)
IInv == TypeOK /\ HeldIsUsed

-----------------------------------------------------------------------------
(* A path leads to a node or to none (lines 85-138).                       *)
LEMMA LookupType ==
  ASSUME NEW path PROVE vfs_open(path) \subseteq Nodes \cup {NULL}
BY DEF vfs_open

(* desc->pos stays in its word, whatever is added to it.                   *)
LEMMA AdvanceType ==
  ASSUME NEW pos \in 0 .. Word - 1, NEW n \in Int
  PROVE  Advance(pos, n) \in 0 .. Word - 1
<1>1. \A x \in Int : x % Word \in 0 .. Word - 1
  BY WordAssumption
<1>2. pos + n \in Int
  BY WordAssumption
<1> QED
  BY <1>1, <1>2 DEF Advance

LEMMA SignedType ==
  ASSUME NEW n \in 0 .. Word - 1 PROVE Signed(n) \in Int
BY WordAssumption DEF Signed

(* Only the largest word reads as -1.                                      *)
LEMMA SignedError ==
  ASSUME NEW n \in 0 .. Word - 1, Signed(n) = -1 PROVE n = Word - 1
BY WordAssumption DEF Signed

(* What a descriptor returns of what was transferred.                      *)
LEMMA TransferredType ==
  ASSUME NEW call, NEW size \in Sizes, NEW n \in Transferred(call, size)
  PROVE  n \in 0 .. Word - 1 /\ n <= size
<1>1. size \in 0 .. Word - 1
  BY SizesAssumption
<1>2. n \in 0 .. size
  BY <1>1 DEF Transferred
<1> QED
  BY <1>1, <1>2, WordAssumption

-----------------------------------------------------------------------------
(* The kinds of step there are: an entry is taken, given back, or moved.   *)
Table == [FDs -> Entry]

LEMMA FailsKeepsIInv ==
  ASSUME IInv, NEW call \in {"open", "close", "read", "write", "lseek"},
         NEW fd \in Int, Fails(call, fd)
  PROVE  IInv'
<1>1. UNCHANGED <<file_descriptors, held>>
  BY DEF Fails
<1>2. last' = [call |-> call, fd |-> fd, ret |-> -1]
  BY DEF Fails, Returns
<1>3. TypeOK'
  BY <1>1, <1>2 DEF IInv, TypeOK
<1>4. HeldIsUsed'
  BY <1>1 DEF IInv, HeldIsUsed, Used
<1> QED
  BY <1>3, <1>4 DEF IInv

(* A position within the word, in an entry that is taken.                  *)
LEMMA MoveKeepsIInv ==
  ASSUME IInv, NEW call \in {"read", "write", "lseek"},
         NEW fd \in Used, NEW pos \in 0 .. Word - 1, NEW ret \in Int,
         file_descriptors' = [file_descriptors EXCEPT ![fd].pos = pos],
         Returns(call, fd, ret), UNCHANGED held
  PROVE  IInv'
<1>1. fd \in FDs /\ file_descriptors \in Table
  BY DEF Used, IInv, TypeOK, Table
<1>2. file_descriptors' \in Table
  BY <1>1 DEF Table, Entry
<1>3. \A d \in FDs : file_descriptors'[d].node = file_descriptors[d].node
  BY <1>1 DEF Table, Entry
<1>4. Used' = Used
  BY <1>3 DEF Used
<1>5. TypeOK'
  <2>1. held' \subseteq FDs
    BY DEF IInv, TypeOK
  <2>2. fd \in Int
    BY <1>1, MaxAssumption DEF FDs
  <2>3. last' \in [call : {"none", "open", "close", "read", "write", "lseek"},
                   fd : Int, ret : Int]
    BY <2>2 DEF Returns
  <2> QED
    BY <1>2, <2>1, <2>3 DEF TypeOK, Table
<1>6. HeldIsUsed'
  <2>1. held' = Used'
    BY <1>4 DEF IInv, HeldIsUsed
  <2>2. ASSUME NEW d \in FDs \ held' PROVE file_descriptors'[d] = Free
    <3>1. d # fd
      BY DEF IInv, HeldIsUsed
    <3>2. file_descriptors'[d] = file_descriptors[d]
      BY <1>1, <3>1 DEF Table
    <3> QED
      BY <3>2 DEF IInv, HeldIsUsed
  <2> QED
    BY <2>1, <2>2 DEF HeldIsUsed
<1> QED
  BY <1>5, <1>6 DEF IInv

LEMMA OpenKeepsIInv ==
  ASSUME IInv, NEW path \in Paths, NEW flags \in Flags, open(path, flags)
  PROVE  IInv'
<1>1. CASE Fails("open", -1)
  BY <1>1, FailsKeepsIInv
<1>2. ASSUME NEW fd \in FDs, Opened(fd, path, flags) PROVE IInv'
  <2>0. PICK node \in vfs_open(path) \ {NULL} :
          file_descriptors' = [file_descriptors EXCEPT ![fd] =
                                 [node |-> node, pos |-> 0, flags |-> flags]]
    BY <1>2 DEF Opened
  <2> DEFINE entry == [node |-> node, pos |-> 0, flags |-> flags]
  <2>1. node \in Nodes /\ node # NULL
    BY LookupType
  <2>2. entry \in Entry
    BY <2>1, FlagsAssumption, WordAssumption DEF Entry
  <2>3. file_descriptors \in Table
    BY DEF IInv, TypeOK, Table
  <2>4. file_descriptors' = [file_descriptors EXCEPT ![fd] = entry]
    BY <2>0
  <2>5. file_descriptors' \in Table
    BY <2>2, <2>3, <2>4 DEF Table
  <2>6. held' = held \cup {fd}
    BY <1>2 DEF Opened
  <2>7. file_descriptors'[fd].node # NULL
    BY <2>1, <2>3, <2>4 DEF Table
  <2>8. \A d \in FDs \ {fd} : file_descriptors'[d] = file_descriptors[d]
    BY <2>3, <2>4 DEF Table
  <2>9. Used' = Used \cup {fd}
    BY <2>7, <2>8 DEF Used
  <2>10. TypeOK'
    <3>1. fd \in Int
      BY MaxAssumption DEF FDs
    <3>2. last' \in [call : {"none", "open", "close", "read", "write", "lseek"},
                     fd : Int, ret : Int]
      BY <1>2, <3>1 DEF Opened, Returns
    <3>3. held' \subseteq FDs
      BY <2>6 DEF IInv, TypeOK
    <3> QED
      BY <2>5, <3>2, <3>3 DEF TypeOK, Table
  <2>11. HeldIsUsed'
    BY <2>6, <2>8, <2>9 DEF IInv, HeldIsUsed
  <2> QED
    BY <2>10, <2>11 DEF IInv
<1> QED
  BY <1>1, <1>2 DEF open

LEMMA CloseKeepsIInv ==
  ASSUME IInv, NEW fd \in Arguments, close(fd)
  PROVE  IInv'
<1>0. fd \in Int
  BY MaxAssumption DEF Arguments
<1>1. CASE Fails("close", fd)
  BY <1>0, <1>1, FailsKeepsIInv
<1>2. CASE /\ Valid(fd)
           /\ file_descriptors' = [file_descriptors EXCEPT ![fd] = Free]
           /\ held' = held \ {fd}
           /\ Returns("close", fd, 0)
  <2>1. fd \in FDs /\ file_descriptors \in Table
    BY <1>2 DEF Valid, Used, IInv, TypeOK, Table
  <2>2. Free \in Entry /\ Free.node = NULL
    BY WordAssumption DEF Free, Entry
  <2>3. file_descriptors' \in Table
    BY <1>2, <2>1, <2>2 DEF Table
  <2>4. file_descriptors'[fd] = Free
    BY <1>2, <2>1 DEF Table
  <2>5. \A d \in FDs \ {fd} : file_descriptors'[d] = file_descriptors[d]
    BY <1>2, <2>1 DEF Table
  <2>6. Used' = Used \ {fd}
    BY <2>2, <2>4, <2>5 DEF Used
  <2>7. TypeOK'
    <3>1. last' \in [call : {"none", "open", "close", "read", "write", "lseek"},
                     fd : Int, ret : Int]
      BY <1>0, <1>2 DEF Returns
    <3>2. held' \subseteq FDs
      BY <1>2 DEF IInv, TypeOK
    <3> QED
      BY <2>3, <3>1, <3>2 DEF TypeOK, Table
  <2>8. HeldIsUsed'
    BY <1>2, <2>4, <2>5, <2>6 DEF IInv, HeldIsUsed
  <2> QED
    BY <2>7, <2>8 DEF IInv
<1> QED
  BY <1>1, <1>2 DEF close

(* read and write (lines 246-252, 268-274): both are a Transfer.           *)
LEMMA TransferKeepsIInv ==
  ASSUME IInv, NEW call \in {"read", "write"}, NEW fd \in Int, Valid(fd),
         NEW size \in Sizes, Transfer(call, fd, size)
  PROVE  IInv'
<1>1. PICK n \in Transferred(call, size) :
        /\ file_descriptors' =
             [file_descriptors EXCEPT ![fd].pos = Advance(file_descriptors[fd].pos, n)]
        /\ Returns(call, fd, Signed(n))
        /\ UNCHANGED held
  BY DEF Transfer
<1>2. n \in 0 .. Word - 1
  BY TransferredType
<1>3. fd \in Used
  BY DEF Valid
<1>4. file_descriptors[fd].pos \in 0 .. Word - 1
  BY <1>3 DEF Used, IInv, TypeOK, Entry
<1>5. Advance(file_descriptors[fd].pos, n) \in 0 .. Word - 1
  <2>1. n \in Int
    BY <1>2
  <2> QED
    BY <1>4, <2>1, AdvanceType
<1>6. Signed(n) \in Int
  BY <1>2, SignedType
<1> QED
  BY <1>1, <1>3, <1>5, <1>6, MoveKeepsIInv

LEMMA ReadKeepsIInv ==
  ASSUME IInv, NEW fd \in Arguments, NEW size \in Sizes, read(fd, size)
  PROVE  IInv'
<1>1. fd \in Int
  BY MaxAssumption DEF Arguments
<1>2. CASE Fails("read", fd)
  BY <1>1, <1>2, FailsKeepsIInv
<1>3. CASE Valid(fd) /\ Transfer("read", fd, size)
  BY <1>1, <1>3, TransferKeepsIInv
<1> QED
  BY <1>2, <1>3 DEF read

LEMMA WriteKeepsIInv ==
  ASSUME IInv, NEW fd \in Arguments, NEW size \in Sizes, write(fd, size)
  PROVE  IInv'
<1>1. fd \in Int
  BY MaxAssumption DEF Arguments
<1>2. CASE Fails("write", fd)
  BY <1>1, <1>2, FailsKeepsIInv
<1>3. CASE Valid(fd) /\ Transfer("write", fd, size)
  BY <1>1, <1>3, TransferKeepsIInv
<1> QED
  BY <1>2, <1>3 DEF write

LEMMA SeekKeepsIInv ==
  ASSUME IInv, NEW fd \in Arguments, NEW offset \in Offsets, NEW whence \in 0 .. 3,
         lseek(fd, offset, whence)
  PROVE  IInv'
<1>1. fd \in Int
  BY MaxAssumption DEF Arguments
<1>2. CASE Fails("lseek", fd)
  BY <1>1, <1>2, FailsKeepsIInv
<1>3. CASE /\ Valid(fd) /\ whence \in {SEEK_SET, SEEK_CUR, SEEK_END}
           /\ \E base \in SeekBase(file_descriptors[fd], whence) :
                /\ file_descriptors' =
                     [file_descriptors EXCEPT ![fd].pos = Advance(base, offset)]
                /\ Returns("lseek", fd, Signed(Advance(base, offset)))
                /\ UNCHANGED held
  <2>1. fd \in Used
    BY <1>3 DEF Valid
  <2>2. file_descriptors[fd].pos \in 0 .. Word - 1
    BY <2>1 DEF Used, IInv, TypeOK, Entry
  <2>3. PICK base \in SeekBase(file_descriptors[fd], whence) :
          /\ file_descriptors' =
               [file_descriptors EXCEPT ![fd].pos = Advance(base, offset)]
          /\ Returns("lseek", fd, Signed(Advance(base, offset)))
          /\ UNCHANGED held
    BY <1>3
  <2>4. base \in 0 .. Word - 1
    <3>1. 0 \in 0 .. Word - 1
      BY WordAssumption
    <3>2. CASE whence = SEEK_SET
      BY <3>1, <3>2 DEF SeekBase, SEEK_SET, SEEK_CUR, SEEK_END
    <3>3. CASE whence = SEEK_CUR
      BY <2>2, <3>3 DEF SeekBase, SEEK_SET, SEEK_CUR, SEEK_END
    <3>4. CASE whence = SEEK_END
      BY <3>1, <3>4, SizesAssumption DEF SeekBase, SEEK_SET, SEEK_CUR, SEEK_END
    <3> QED
      BY <1>3, <3>2, <3>3, <3>4
  <2>5. Advance(base, offset) \in 0 .. Word - 1
    <3>1. offset \in Int
      BY OffsetsAssumption
    <3> QED
      BY <2>4, <3>1, AdvanceType
  <2>6. Signed(Advance(base, offset)) \in Int
    BY <2>5, SignedType
  <2> QED
    BY <2>1, <2>3, <2>5, <2>6, MoveKeepsIInv
<1> QED
  BY <1>2, <1>3 DEF lseek

-----------------------------------------------------------------------------
LEMMA InitIInv == Init => IInv
<1> SUFFICES ASSUME Init PROVE IInv
  OBVIOUS
<1>1. Free \in Entry /\ Free.node = NULL
  BY WordAssumption DEF Free, Entry
<1>2. TypeOK
  BY <1>1 DEF Init, TypeOK
<1>3. Used = {}
  BY <1>1 DEF Init, Used
<1>4. HeldIsUsed
  BY <1>3 DEF Init, HeldIsUsed
<1> QED
  BY <1>2, <1>4 DEF IInv

LEMMA NextIInv == IInv /\ [Next]_vars => IInv'
<1> SUFFICES ASSUME IInv, [Next]_vars PROVE IInv'
  OBVIOUS
<1>1. CASE UNCHANGED vars
  BY <1>1 DEF vars, IInv, TypeOK, HeldIsUsed, Used
<1>2. ASSUME NEW path \in Paths, NEW flags \in Flags, open(path, flags) PROVE IInv'
  BY <1>2, OpenKeepsIInv
<1>3. ASSUME NEW fd \in Arguments, close(fd) PROVE IInv'
  BY <1>3, CloseKeepsIInv
<1>4. ASSUME NEW fd \in Arguments, NEW size \in Sizes, read(fd, size) PROVE IInv'
  BY <1>4, ReadKeepsIInv
<1>5. ASSUME NEW fd \in Arguments, NEW size \in Sizes, write(fd, size) PROVE IInv'
  BY <1>5, WriteKeepsIInv
<1>6. ASSUME NEW fd \in Arguments, NEW offset \in Offsets, NEW whence \in 0 .. 3,
             lseek(fd, offset, whence)
      PROVE  IInv'
  BY <1>6, SeekKeepsIInv
<1> QED
  BY <1>1, <1>2, <1>3, <1>4, <1>5, <1>6 DEF Next

(***************************************************************************)
(* The descriptor table keeps its shape, and every position its word.      *)
(***************************************************************************)
THEOREM TypeCorrect == Spec => []TypeOK
<1>1. IInv => TypeOK
  BY DEF IInv
<1> QED
  BY <1>1, InitIInv, NextIInv, PTL DEF Spec

(***************************************************************************)
(* The table agrees with its clients: no descriptor is leaked by open or   *)
(* close, and none is taken from a client that holds it.                   *)
(***************************************************************************)
THEOREM TableIsHeld == Spec => []HeldIsUsed
<1>1. IInv => HeldIsUsed
  BY DEF IInv
<1> QED
  BY <1>1, InitIInv, NextIInv, PTL DEF Spec

-----------------------------------------------------------------------------
(* One step, seen by the descriptors it was not made on.                   *)
Independent ==
  \A fd \in FDs : file_descriptors'[fd] # file_descriptors[fd] =>
    fd = last'.fd /\ (last'.call = "open" => fd \notin held)

(* A step that changes the entry of one descriptor only, by a call on it.  *)
LEMMA OneEntry ==
  ASSUME IInv, NEW call, NEW fd, NEW entry, NEW ret,
         file_descriptors' = [file_descriptors EXCEPT ![fd] = entry],
         Returns(call, fd, ret), call = "open" => fd \notin held
  PROVE  Independent
<1>1. \A d \in FDs : d # fd => file_descriptors'[d] = file_descriptors[d]
  BY DEF IInv, TypeOK
<1>2. last'.call = call /\ last'.fd = fd
  BY DEF Returns
<1> QED
  BY <1>1, <1>2 DEF Independent

LEMMA NextIndependent == IInv /\ [Next]_vars => Independent \/ UNCHANGED vars
<1> SUFFICES ASSUME IInv, Next PROVE Independent
  BY DEF vars
<1>1. ASSUME NEW call, NEW fd, Fails(call, fd) PROVE Independent
  BY <1>1 DEF Fails, Independent
<1>2. ASSUME NEW path \in Paths, NEW flags \in Flags, open(path, flags)
      PROVE  Independent
  <2>1. ASSUME NEW fd \in FDs, Opened(fd, path, flags) PROVE Independent
    <3>1. fd \notin held
      BY <2>1 DEF Opened, FirstFree, IInv, HeldIsUsed
    <3> QED
      BY <2>1, <3>1, OneEntry DEF Opened
  <2> QED
    BY <1>1, <1>2, <2>1 DEF open
<1>3. ASSUME NEW fd \in Arguments, close(fd) PROVE Independent
  BY <1>1, <1>3, OneEntry DEF close
<1>4. ASSUME NEW call \in {"read", "write"}, NEW fd, NEW size, Transfer(call, fd, size)
      PROVE  Independent
  BY <1>4, OneEntry DEF Transfer
<1>5. ASSUME NEW fd \in Arguments, NEW size \in Sizes, read(fd, size) \/ write(fd, size)
      PROVE  Independent
  BY <1>1, <1>4, <1>5 DEF read, write
<1>6. ASSUME NEW fd \in Arguments, NEW offset \in Offsets, NEW whence \in 0 .. 3,
             lseek(fd, offset, whence)
      PROVE  Independent
  BY <1>1, <1>6, OneEntry DEF lseek
<1> QED
  BY <1>2, <1>3, <1>5, <1>6 DEF Next

(***************************************************************************)
(* No call disturbs another descriptor: that open takes a free entry needs *)
(* HeldIsUsed, the rest is the frame of each call.                         *)
(***************************************************************************)
THEOREM Independence == Spec => DescriptorsIndependent
<1>1. IInv /\ [Next]_vars => [Independent]_vars
  BY NextIndependent
<1> QED
  BY <1>1, InitIInv, NextIInv, PTL DEF Spec, DescriptorsIndependent, Independent

-----------------------------------------------------------------------------
(* One step that reports an error.                                         *)
NoTrace ==
  last'.ret = -1 /\ last'.call # "lseek" => UNCHANGED <<file_descriptors, held>>

LEMMA NextNoTrace ==
  ASSUME Word - 1 \notin Sizes, IInv, Next PROVE NoTrace
<1>1. ASSUME NEW call, NEW fd, Fails(call, fd) PROVE NoTrace
  BY <1>1 DEF Fails, NoTrace
<1>2. ASSUME NEW path \in Paths, NEW flags \in Flags, open(path, flags)
      PROVE  NoTrace
  <2>1. ASSUME NEW fd \in FDs, Opened(fd, path, flags) PROVE NoTrace
    <3>1. last'.ret = fd
      BY <2>1 DEF Opened, Returns
    <3>2. fd # -1
      BY MaxAssumption DEF FDs
    <3> QED
      BY <3>1, <3>2 DEF NoTrace
  <2> QED
    BY <1>1, <1>2, <2>1 DEF open
<1>3. ASSUME NEW fd \in Arguments, close(fd) PROVE NoTrace
  <2>1. CASE Returns("close", fd, 0)
    BY <2>1 DEF Returns, NoTrace
  <2> QED
    BY <1>1, <1>3, <2>1 DEF close
<1>4. ASSUME NEW call \in {"read", "write"}, NEW fd, NEW size \in Sizes,
             Transfer(call, fd, size)
      PROVE  NoTrace
  <2>1. PICK n \in Transferred(call, size) : Returns(call, fd, Signed(n))
    BY <1>4 DEF Transfer
  <2>2. n \in 0 .. Word - 1 /\ n <= size
    BY TransferredType
  <2>3. n # Word - 1
    BY <2>2, SizesAssumption
  <2>4. Signed(n) # -1
    BY <2>2, <2>3, SignedError
  <2> QED
    BY <2>1, <2>4 DEF Returns, NoTrace
<1>5. ASSUME NEW fd \in Arguments, NEW size \in Sizes, read(fd, size) \/ write(fd, size)
      PROVE  NoTrace
  BY <1>1, <1>4, <1>5 DEF read, write
<1>6. ASSUME NEW fd \in Arguments, NEW offset \in Offsets, NEW whence \in 0 .. 3,
             lseek(fd, offset, whence)
      PROVE  NoTrace
  <2>1. last'.call = "lseek"
    BY <1>6 DEF lseek, Fails, Returns
  <2> QED
    BY <2>1 DEF NoTrace
<1> QED
  BY <1>2, <1>3, <1>5, <1>6 DEF Next

(***************************************************************************)
(* A call that reports an error did nothing, provided nobody transfers     *)
(* 2^32 - 1 bytes in one call: their number would come back as -1.         *)
(***************************************************************************)
THEOREM ErrorsLeaveNoTrace ==
  ASSUME Word - 1 \notin Sizes PROVE Spec => FailureChangesNothing
<1>1. IInv /\ [Next]_vars => [NoTrace]_vars
  BY NextNoTrace
<1> QED
  BY <1>1, InitIInv, NextIInv, PTL DEF Spec, FailureChangesNothing, NoTrace
=============================================================================
