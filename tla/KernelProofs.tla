---------------------------- MODULE KernelProofs ----------------------------
(***************************************************************************)
(* Proofs about Kernel, for every heap, all sizes of objects that it has   *)
(* room for, and any number of interrupts raised at any moment.            *)
(***************************************************************************)
EXTENDS Kernel, TLAPS

(***************************************************************************)
(* The lemmas of HeapProofs about the heap's arithmetic.  They mention none*)
(* of its variables, for which any values will do.                         *)
(***************************************************************************)
H == INSTANCE HeapProofs WITH Sizes <- {}, MaxRequests <- 0, blocks <- <<>>,
                              freed <- {}, wrapped <- FALSE

LEMMA HeapAssumptions ==
  /\ H!HeapSizeAssumption /\ H!WordAssumption
  /\ H!SizesAssumption /\ H!MaxRequestsAssumption
BY HeapSizeAssumption, WordAssumption
   DEF H!HeapSizeAssumption, H!WordAssumption, H!SizesAssumption, H!MaxRequestsAssumption

(* What the boot has still to ask for in this pass, when label comes next. *)
Left(label) ==
  CASE label \in BeforeLidt \cup {"register_timer", "init_scheduler"}
                                -> Taken("current_task") + SetUp
    [] label = "vfs_initialize" -> SetUp
    [] label = "memfs_nodes"    -> Taken("nodes") + Taken("block_bitmap")
                                     + Taken("blocks") + Taken("mounted")
    [] label = "memfs_bitmap"   -> Taken("block_bitmap") + Taken("blocks")
                                     + Taken("mounted")
    [] label = "memfs_blocks"   -> Taken("blocks") + Taken("mounted")
    [] label = "vfs_mount"      -> Taken("mounted")
    [] label \in {"open", "getchar", "reset"} -> 0

(***************************************************************************)
(* The inductive invariant.  BootWritesOwnMemory looks back at what was    *)
(* written; Budget looks ahead: what is left of the heap is enough for     *)
(* what the boot has still to ask for, so that no kmalloc whose answer it  *)
(* does not test is refused.  Nothing on the way executes sti, so that no  *)
(* interrupt is taken.                                                     *)
(***************************************************************************)
Budget == heap_pos + Left(pc) + (IF pass = 1 THEN SetUp ELSE 0) <= HEAP_SIZE

Placed ==
  /\ "blocks" \notin cleared
  /\ \A o \in cleared : pointer[o] \in Nat /\ pointer[o] + SizeOf[o] <= heap_pos
  /\ \A o, p \in cleared :
       o # p => \/ pointer[o] + SizeOf[o] <= pointer[p]
                \/ pointer[p] + SizeOf[p] <= pointer[o]

MountsCounted ==
  /\ pass = 1 => mounts = 0
  /\ mounts = 2 => pc \in {"open", "getchar"}

InterruptsOff == IF_flag = FALSE

IInv == TypeOK /\ Budget /\ Placed /\ MountsCounted /\ InterruptsOff

-----------------------------------------------------------------------------
LEMMA Sizes ==
  /\ \A o \in Objects : SizeOf[o] \in Nat /\ Taken(o) \in Nat
  /\ SetUp \in Nat
<1>1. \A o \in Objects : SizeOf[o] \in Nat /\ Taken(o) \in Nat
  BY SizeOfAssumption DEF Taken
<1>2. {"fs_root", "nodes", "block_bitmap", "blocks", "mounted"} \subseteq Objects
  BY DEF Objects
<1> QED
  BY <1>1, <1>2 DEF SetUp

(* The remainder of a number that the word holds. *)
LEMMA Unwrapped == \A x \in Nat : x < Word => x % Word = x
  BY WordAssumption

(* A request that the heap has room for, rounded up.                       *)
LEMMA Granted ==
  ASSUME NEW object \in Objects, heap_pos \in 0 .. HEAP_SIZE,
         NEW rest \in Nat, heap_pos + SizeOf[object] + 3 + rest <= HEAP_SIZE
  PROVE  /\ Fits(heap_pos, SizeOf[object])
         /\ Bump(heap_pos, SizeOf[object]) \in 0 .. HEAP_SIZE
         /\ heap_pos + SizeOf[object] <= Bump(heap_pos, SizeOf[object])
         /\ Bump(heap_pos, SizeOf[object]) + rest <= HEAP_SIZE
<1> DEFINE size == SizeOf[object]
<1>1. size \in Nat /\ HEAP_SIZE + size + 3 < Word
  BY SizeOfAssumption
<1> HIDE DEF size
<1>2. heap_pos + size + 3 + rest <= HEAP_SIZE
  BY DEF size
<1>3. /\ size \in 0 .. Word - 1 /\ ~ Wraps(heap_pos, size)
      /\ heap_pos + size \in Nat /\ heap_pos + size < Word
      /\ heap_pos + size <= HEAP_SIZE
  BY <1>1, <1>2, HeapSizeAssumption, WordAssumption DEF Wraps
<1>4. Fits(heap_pos, size)
  BY <1>3, Unwrapped DEF Fits
<1>5. Bump(heap_pos, size) - (heap_pos + size) \in 0 .. 3 /\ Bump(heap_pos, size) \in Nat
  <2>1. heap_pos \in Nat /\ heap_pos + size + 3 < Word
    BY <1>1, HeapSizeAssumption, WordAssumption
  <2> QED
    BY <1>1, <2>1, HeapAssumptions, H!BumpNear DEF Bump, Align4, H!Bump, H!Align4
<1>6. /\ heap_pos + size <= Bump(heap_pos, size)
      /\ Bump(heap_pos, size) + rest <= HEAP_SIZE
      /\ Bump(heap_pos, size) \in 0 .. HEAP_SIZE
  BY <1>2, <1>3, <1>5, HeapSizeAssumption
<1> QED
  BY <1>4, <1>5, <1>6 DEF size

(* The blocks that the heap cannot hold are refused.                       *)
LEMMA Refused ==
  ASSUME heap_pos \in 0 .. HEAP_SIZE, SizeOf["blocks"] > HEAP_SIZE
  PROVE  ~ Fits(heap_pos, SizeOf["blocks"])
<1> DEFINE size == SizeOf["blocks"]
<1>1. "blocks" \in Objects
  BY DEF Objects
<1>2. size \in Nat /\ HEAP_SIZE + size + 3 < Word
  BY <1>1, SizeOfAssumption
<1> HIDE DEF size
<1>3. size > HEAP_SIZE
  BY DEF size
<1>4. heap_pos + size \in Nat /\ heap_pos + size < Word /\ heap_pos + size > HEAP_SIZE
  BY <1>2, <1>3, HeapSizeAssumption, WordAssumption
<1> QED
  BY <1>4, Unwrapped, HeapSizeAssumption DEF Fits, size

-----------------------------------------------------------------------------
(* What one allocation of the boot does to the heap; rest is what the boot *)
(* asks for afterwards.                                                    *)
LEMMA WrittenObject ==
  ASSUME TypeOK, Placed, NEW object \in Objects \ {"blocks"},
         NEW rest \in Nat, heap_pos + Taken(object) + rest <= HEAP_SIZE,
         NEW written, Allocate(object, written), written = TRUE
  PROVE  /\ heap_pos' \in 0 .. HEAP_SIZE /\ heap_pos' + rest <= HEAP_SIZE
         /\ pointer' \in [Objects -> NULL .. Word - 1] /\ cleared' \subseteq Objects
         /\ Placed'
<1> DEFINE new == Bump(heap_pos, SizeOf[object])
<1>1. heap_pos \in 0 .. HEAP_SIZE /\ heap_pos \in Nat
  BY HeapSizeAssumption DEF TypeOK, Placed
<1>2. heap_pos + SizeOf[object] + 3 + rest <= HEAP_SIZE /\ SizeOf[object] \in Nat
  BY <1>1, Sizes DEF Taken
<1>3. /\ Fits(heap_pos, SizeOf[object])
      /\ new \in 0 .. HEAP_SIZE
      /\ heap_pos + SizeOf[object] <= new /\ new + rest <= HEAP_SIZE
  BY <1>1, <1>2, Granted
<1>4. /\ heap_pos' = new /\ pointer' = [pointer EXCEPT ![object] = heap_pos]
      /\ cleared' = cleared \cup {object}
  BY <1>3 DEF Allocate
<1> HIDE DEF new
<1>5. pointer \in [Objects -> NULL .. Word - 1] /\ cleared \subseteq Objects
  BY DEF TypeOK
<1>6. heap_pos \in NULL .. Word - 1
  BY <1>1, HeapSizeAssumption, WordAssumption DEF NULL
<1>7. pointer' \in [Objects -> NULL .. Word - 1] /\ cleared' \subseteq Objects
  BY <1>4, <1>5, <1>6
<1>8. /\ pointer'[object] = heap_pos
      /\ \A o \in cleared : o # object => pointer'[o] = pointer[o]
  BY <1>4, <1>5
<1>9. \A o \in cleared : SizeOf[o] \in Nat
  BY <1>5, Sizes
<1>10. \A o \in cleared' :
         pointer'[o] \in Nat /\ pointer'[o] + SizeOf[o] <= heap_pos'
  <2> SUFFICES ASSUME NEW o \in cleared'
               PROVE  pointer'[o] \in Nat /\ pointer'[o] + SizeOf[o] <= heap_pos'
    OBVIOUS
  <2>1. CASE o = object
    BY <1>1, <1>3, <1>4, <1>8, <2>1
  <2>2. CASE o # object
    <3>1. o \in cleared /\ pointer'[o] = pointer[o]
      BY <1>4, <1>8, <2>2
    <3>2. pointer[o] \in Nat /\ pointer[o] + SizeOf[o] <= heap_pos /\ SizeOf[o] \in Nat
      BY <1>9, <3>1 DEF Placed
    <3>3. heap_pos <= new /\ new \in Nat
      BY <1>1, <1>2, <1>3, HeapSizeAssumption
    <3> QED
      BY <1>1, <1>4, <3>1, <3>2, <3>3
  <2> QED
    BY <2>1, <2>2
<1>11. ASSUME NEW o \in cleared', NEW p \in cleared', o # p
       PROVE  \/ pointer'[o] + SizeOf[o] <= pointer'[p]
              \/ pointer'[p] + SizeOf[p] <= pointer'[o]
  <2>1. CASE o = object
    <3>1. p \in cleared /\ pointer'[p] = pointer[p]
      BY <1>4, <1>8, <1>11, <2>1
    <3> QED
      BY <1>8, <2>1, <3>1 DEF Placed
  <2>2. CASE p = object
    <3>1. o \in cleared /\ pointer'[o] = pointer[o]
      BY <1>4, <1>8, <1>11, <2>2
    <3> QED
      BY <1>8, <2>2, <3>1 DEF Placed
  <2>3. CASE o # object /\ p # object
    <3>1. /\ o \in cleared /\ pointer'[o] = pointer[o]
          /\ p \in cleared /\ pointer'[p] = pointer[p]
      BY <1>4, <1>8, <2>3
    <3> QED
      BY <1>11, <3>1 DEF Placed
  <2> QED
    BY <2>1, <2>2, <2>3
<1>12. "blocks" \notin cleared'
  BY <1>4 DEF Placed
<1>13. Placed'
  BY <1>3, <1>4, <1>10, <1>11, <1>12 DEF Placed
<1> QED
  BY <1>3, <1>4, <1>7, <1>13

LEMMA UnwrittenBlocks ==
  ASSUME TypeOK, Placed, NEW rest \in Nat,
         heap_pos + Taken("blocks") + rest <= HEAP_SIZE, Allocate("blocks", FALSE)
  PROVE  /\ heap_pos' \in 0 .. HEAP_SIZE /\ heap_pos' + rest <= HEAP_SIZE
         /\ pointer' \in [Objects -> NULL .. Word - 1] /\ cleared' \subseteq Objects
         /\ Placed'
<1> DEFINE size == SizeOf["blocks"]
<1>1. heap_pos \in 0 .. HEAP_SIZE /\ heap_pos \in Nat
  BY HeapSizeAssumption DEF TypeOK, Placed
<1>2. "blocks" \in Objects /\ size \in Nat
  <2>1. "blocks" \in Objects
    BY DEF Objects
  <2> QED
    BY <2>1, Sizes
<1>3. /\ heap_pos' \in 0 .. HEAP_SIZE /\ heap_pos <= heap_pos'
      /\ heap_pos' + rest <= HEAP_SIZE
  <2>1. CASE size > HEAP_SIZE
    <3>1. heap_pos' = heap_pos
      BY <1>1, <2>1, Refused DEF Allocate
    <3>2. Taken("blocks") = 0
      BY <2>1 DEF Taken
    <3> QED
      BY <1>1, <3>1, <3>2
  <2>2. CASE ~ size > HEAP_SIZE
    <3>1. heap_pos + size + 3 + rest <= HEAP_SIZE
      BY <1>1, <1>2, <2>2 DEF Taken
    <3>2. /\ Fits(heap_pos, size) /\ Bump(heap_pos, size) \in 0 .. HEAP_SIZE
          /\ heap_pos + size <= Bump(heap_pos, size)
          /\ Bump(heap_pos, size) + rest <= HEAP_SIZE
      BY <1>1, <1>2, <3>1, Granted
    <3>3. heap_pos' = Bump(heap_pos, size)
      BY <3>2 DEF Allocate
    <3> HIDE DEF size
    <3> QED
      BY <1>1, <1>2, <3>2, <3>3, HeapSizeAssumption
  <2> QED
    BY <2>1, <2>2
<1>4. cleared' = cleared
  BY DEF Allocate
<1>5. pointer \in [Objects -> NULL .. Word - 1] /\ cleared \subseteq Objects
  BY DEF TypeOK
<1>6. \E a \in NULL .. Word - 1 : pointer' = [pointer EXCEPT !["blocks"] = a]
  <2>1. heap_pos \in NULL .. Word - 1 /\ NULL \in NULL .. Word - 1
    BY <1>1, HeapSizeAssumption, WordAssumption DEF NULL
  <2> QED
    BY <2>1 DEF Allocate
<1>7. /\ pointer' \in [Objects -> NULL .. Word - 1]
      /\ \A o \in cleared : pointer'[o] = pointer[o]
  BY <1>5, <1>6 DEF Placed
<1>8. \A o \in cleared : SizeOf[o] \in Nat
  BY <1>5, Sizes
<1>9. \A o \in cleared : pointer'[o] \in Nat /\ pointer'[o] + SizeOf[o] <= heap_pos'
  <2> SUFFICES ASSUME NEW o \in cleared
               PROVE  pointer'[o] \in Nat /\ pointer'[o] + SizeOf[o] <= heap_pos'
    OBVIOUS
  <2>1. pointer[o] \in Nat /\ pointer[o] + SizeOf[o] <= heap_pos /\ SizeOf[o] \in Nat
    BY <1>8 DEF Placed
  <2>2. heap_pos' \in Nat
    BY <1>3, HeapSizeAssumption
  <2> QED
    BY <1>1, <1>3, <1>7, <2>1, <2>2
<1>10. Placed'
  BY <1>3, <1>4, <1>7, <1>9 DEF Placed
<1> QED
  BY <1>3, <1>4, <1>5, <1>7, <1>10

-----------------------------------------------------------------------------
LEMMA InitIInv == Init => IInv
<1> SUFFICES ASSUME Init PROVE IInv
  OBVIOUS
<1>1. TypeOK
  <2>1. heap_pos \in 0 .. HEAP_SIZE /\ pointer \in [Objects -> NULL .. Word - 1]
    BY HeapSizeAssumption, WordAssumption DEF Init, NULL
  <2>2. events \in [Lines -> 0 .. MaxEvents]
    BY MaxEventsAssumption DEF Init
  <2>3. filesystems \in 0 .. MAX_FILESYSTEMS /\ mounts \in 0 .. 2
    BY DEF Init, MAX_FILESYSTEMS
  <2> QED
    BY <2>1, <2>2, <2>3 DEF Init, TypeOK, Labels, BeforeLidt
<1>2. Budget
  <2>1. Left(pc) = Taken("current_task") + SetUp /\ pass = 1 /\ heap_pos = 0
    BY DEF Init, Left, BeforeLidt
  <2>2. Taken("current_task") \in Nat /\ SetUp \in Nat
    BY Sizes DEF Objects
  <2> QED
    BY <2>1, <2>2, RoomAssumption, HeapSizeAssumption DEF Budget
<1>3. Placed
  BY DEF Init, Placed
<1>4. MountsCounted /\ InterruptsOff
  BY DEF Init, MountsCounted, InterruptsOff
<1> QED
  BY <1>1, <1>2, <1>3, <1>4 DEF IInv

(* What the boot asks for after its next request.                          *)
Later == IF pass = 1 THEN SetUp ELSE 0

LEMMA LeftIsNat == ASSUME pass \in {1, 2} PROVE Later \in Nat /\ \A l \in Labels : Left(l) \in Nat
<1>1. \A o \in Objects : Taken(o) \in Nat
  BY Sizes
<1>2. SetUp \in Nat
  BY Sizes
<1>3. /\ Taken("current_task") \in Nat /\ Taken("nodes") \in Nat
      /\ Taken("block_bitmap") \in Nat /\ Taken("blocks") \in Nat
      /\ Taken("mounted") \in Nat
  BY <1>1 DEF Objects
<1> QED
  BY <1>2, <1>3 DEF Later, Left, Labels, BeforeLidt

(* Steps that ask for nothing.                                             *)
LEMMA QuietKeepsIInv ==
  ASSUME IInv, TypeOK', UNCHANGED <<memory, pass, mounts, IF_flag>>,
         Left(pc') = Left(pc), pc \in {"open", "getchar"} => pc' \in {"open", "getchar"}
  PROVE  IInv'
<1>1. UNCHANGED <<heap_pos, pointer, cleared>>
  BY DEF memory
<1>2. Budget'
  BY <1>1 DEF IInv, Budget, Left
<1>3. Placed'
  BY <1>1 DEF IInv, Placed
<1>4. MountsCounted' /\ InterruptsOff'
  BY DEF IInv, MountsCounted, InterruptsOff
<1> QED
  BY <1>2, <1>3, <1>4 DEF IInv

LEMMA RaiseKeepsIInv == ASSUME IInv, NEW line \in Lines, Raise(line) PROVE IInv'
<1>1. events' \in [Lines -> 0 .. MaxEvents]
  <2>1. events[line] + 1 \in 0 .. MaxEvents /\ events \in [Lines -> 0 .. MaxEvents]
    BY MaxEventsAssumption DEF Raise, IInv, TypeOK
  <2> QED
    BY <2>1 DEF Raise
<1>2. UNCHANGED <<heap_pos, pointer, cleared, root_ops, filesystems, mounts>>
  BY DEF Raise, memory, fs
<1>3. TypeOK'
  BY <1>1, <1>2 DEF Raise, IInv, TypeOK
<1> QED
  BY <1>2, <1>3, QuietKeepsIInv DEF Raise, memory

LEMMA NoInterrupt == ASSUME IInv PROVE Deliverable = {}
BY DEF IInv, InterruptsOff, Deliverable

-----------------------------------------------------------------------------
(* The steps of the boot that ask the heap for nothing.                    *)
LEMMA SettingUpKeepsIInv ==
  ASSUME IInv, UNCHANGED events,
         \/ init_memory_manager \/ init_interrupts \/ remap \/ mask \/ lidt
         \/ register_timer \/ open
  PROVE  IInv'
<1>1. /\ pc' \in Labels /\ Left(pc') = Left(pc)
      /\ pc \in {"open", "getchar"} => pc' \in {"open", "getchar"}
  BY DEF init_memory_manager, init_interrupts, remap, mask, lidt, register_timer, open,
         At, Left, Labels, BeforeLidt
<1>2. UNCHANGED <<pass, heap_pos, pointer, cleared, root_ops, filesystems, mounts>>
  BY DEF init_memory_manager, init_interrupts, remap, mask, lidt, register_timer, open,
         memory, fs
<1>3. kernel_status' \in [interrupts_enabled : BOOLEAN, scheduler_active : BOOLEAN,
                          memory_manager_ready : BOOLEAN]
  <2>1. kernel_status \in [interrupts_enabled : BOOLEAN, scheduler_active : BOOLEAN,
                           memory_manager_ready : BOOLEAN]
    BY DEF IInv, TypeOK
  <2> QED
    BY <2>1 DEF init_memory_manager, init_interrupts, remap, mask, lidt, register_timer,
                open
<1>4. UNCHANGED <<IF_flag, keys, ticks>>
  BY DEF init_memory_manager, init_interrupts, remap, mask, lidt, register_timer, open,
         hardware
<1>5. /\ idt' \subseteq Lines /\ loaded' \in BOOLEAN /\ unmasked' \subseteq Lines
      /\ irr' \subseteq Lines /\ isr' \subseteq Lines
  BY DEF IInv, TypeOK, init_memory_manager, init_interrupts, remap, mask, lidt,
         register_timer, open, hardware, Lines
<1>6. TypeOK'
  BY <1>1, <1>2, <1>3, <1>4, <1>5 DEF IInv, TypeOK
<1> QED
  BY <1>1, <1>2, <1>4, <1>6, QuietKeepsIInv DEF memory

Status ==
  [interrupts_enabled : BOOLEAN, scheduler_active : BOOLEAN,
   memory_manager_ready : BOOLEAN]

(* The steps that take an object from the heap, within one pass.           *)
LEMMA TakingKeepsIInv ==
  ASSUME IInv, pc \in Labels \ {"open", "getchar"}, pc' \in Labels \ {"open", "getchar"},
         UNCHANGED <<pass, mounts, hardware, events>>,
         kernel_status' \in Status, root_ops' \in BOOLEAN,
         filesystems' \in 0 .. MAX_FILESYSTEMS,
         heap_pos' \in 0 .. HEAP_SIZE, heap_pos' + (Left(pc') + Later) <= HEAP_SIZE,
         pointer' \in [Objects -> NULL .. Word - 1], cleared' \subseteq Objects, Placed'
  PROVE  IInv'
<1>1. UNCHANGED <<IF_flag, idt, loaded, unmasked, irr, isr, keys, ticks>>
  BY DEF hardware
<1>2. TypeOK'
  BY <1>1 DEF IInv, TypeOK, Status
<1>3. Left(pc') \in Nat /\ Later \in Nat /\ heap_pos' \in Nat
  BY LeftIsNat, HeapSizeAssumption DEF IInv, TypeOK
<1>4. heap_pos' + Left(pc') + Later <= HEAP_SIZE
  BY <1>3
<1>5. Budget'
  BY <1>4 DEF Budget, Left, Later
<1>6. MountsCounted' /\ InterruptsOff'
  BY <1>1 DEF IInv, MountsCounted, InterruptsOff
<1> QED
  BY <1>2, <1>5, <1>6 DEF IInv

(* Those that write it.                                                    *)
LEMMA WritingKeepsIInv ==
  ASSUME IInv, NEW object \in Objects \ {"blocks"}, Allocate(object, TRUE),
         pc \in Labels \ {"open", "getchar"}, pc' \in Labels \ {"open", "getchar"},
         Left(pc) = Taken(object) + Left(pc'),
         UNCHANGED <<pass, mounts, hardware, events>>,
         kernel_status' \in Status, root_ops' \in BOOLEAN,
         filesystems' \in 0 .. MAX_FILESYSTEMS
  PROVE  IInv'
<1>1. Left(pc') \in Nat /\ Later \in Nat /\ Taken(object) \in Nat /\ heap_pos \in Nat
  BY LeftIsNat, Sizes, HeapSizeAssumption DEF IInv, TypeOK
<1>2. heap_pos + Taken(object) + (Left(pc') + Later) <= HEAP_SIZE
  <2>1. heap_pos + Left(pc) + Later <= HEAP_SIZE
    BY DEF IInv, Budget, Later
  <2> QED
    BY <1>1, <2>1
<1>3. Left(pc') + Later \in Nat
  BY <1>1
<1>4. /\ heap_pos' \in 0 .. HEAP_SIZE /\ heap_pos' + (Left(pc') + Later) <= HEAP_SIZE
      /\ pointer' \in [Objects -> NULL .. Word - 1] /\ cleared' \subseteq Objects
      /\ Placed'
  BY <1>2, <1>3, WrittenObject DEF IInv
<1> QED
  BY <1>4, TakingKeepsIInv

(* An object that the boot has room for is not refused.                    *)
LEMMA HasRoom ==
  ASSUME IInv, NEW object \in Objects \ {"blocks"}, NEW rest \in Nat,
         Left(pc) = Taken(object) + rest
  PROVE  Fits(heap_pos, SizeOf[object])
<1>1. /\ Later \in Nat /\ Taken(object) \in Nat /\ SizeOf[object] \in Nat
      /\ heap_pos \in Nat
  BY LeftIsNat, Sizes, HeapSizeAssumption DEF IInv, TypeOK
<1>2. heap_pos + Left(pc) + Later <= HEAP_SIZE
  BY DEF IInv, Budget, Later
<1>3. heap_pos + SizeOf[object] + 3 + (rest + Later) <= HEAP_SIZE
  BY <1>1, <1>2 DEF Taken
<1>4. heap_pos \in 0 .. HEAP_SIZE /\ rest + Later \in Nat
  BY <1>1 DEF IInv, TypeOK, Placed
<1> QED
  BY <1>3, <1>4, Granted

(* Every number of bytes that Left adds up.                                *)
LEMMA TakenNat ==
  /\ Taken("current_task") \in Nat /\ Taken("fs_root") \in Nat /\ Taken("nodes") \in Nat
  /\ Taken("block_bitmap") \in Nat /\ Taken("blocks") \in Nat /\ Taken("mounted") \in Nat
  /\ SetUp \in Nat
  /\ SetUp = Taken("fs_root") + (Taken("nodes") + Taken("block_bitmap") + Taken("blocks")
                                   + Taken("mounted"))
<1>1. /\ Taken("current_task") \in Nat /\ Taken("fs_root") \in Nat
      /\ Taken("nodes") \in Nat /\ Taken("block_bitmap") \in Nat
      /\ Taken("blocks") \in Nat /\ Taken("mounted") \in Nat
  BY Sizes DEF Objects
<1> QED
  BY <1>1 DEF SetUp

LEMMA SchedulerKeepsIInv == ASSUME IInv, init_scheduler, UNCHANGED events PROVE IInv'
<1>1. pc = "init_scheduler" /\ pc' = "vfs_initialize"
  BY DEF init_scheduler, At
<1>2. Left(pc) = Taken("current_task") + Left(pc') /\ Left(pc') = SetUp
  BY <1>1 DEF Left
<1>3. Fits(heap_pos, SizeOf["current_task"])
  BY <1>2, TakenNat, HasRoom DEF Objects
<1>4. Allocate("current_task", TRUE)
  BY <1>3 DEF init_scheduler, Allocate
<1>5. kernel_status' \in Status
  <2>1. kernel_status \in Status
    BY DEF IInv, TypeOK, Status
  <2>2. kernel_status' = [kernel_status EXCEPT !.scheduler_active = TRUE]
    BY <1>3 DEF init_scheduler
  <2> QED
    BY <2>1, <2>2 DEF Status
<1>6. /\ UNCHANGED <<pass, mounts, hardware, events>>
      /\ root_ops' \in BOOLEAN /\ filesystems' \in 0 .. MAX_FILESYSTEMS
  BY DEF init_scheduler, fs, IInv, TypeOK
<1> QED
  BY <1>1, <1>2, <1>4, <1>5, <1>6, WritingKeepsIInv DEF Labels, Objects

LEMMA SetUpKeepsIInv ==
  ASSUME IInv, vfs_initialize \/ memfs_nodes \/ memfs_bitmap, UNCHANGED events
  PROVE  IInv'
<1>1. /\ UNCHANGED <<pass, mounts, hardware, events>>
      /\ kernel_status' \in Status /\ root_ops' \in BOOLEAN
      /\ filesystems' \in 0 .. MAX_FILESYSTEMS
  <2>1. /\ kernel_status \in Status /\ root_ops \in BOOLEAN
        /\ filesystems \in 0 .. MAX_FILESYSTEMS
    BY DEF IInv, TypeOK, Status
  <2>2. UNCHANGED <<pass, kernel_status, mounts, hardware>>
    BY DEF vfs_initialize, memfs_nodes, memfs_bitmap, fs
  <2>3. \/ root_ops' = FALSE /\ filesystems' = 0
        \/ UNCHANGED <<root_ops, filesystems>>
    BY DEF vfs_initialize, memfs_nodes, memfs_bitmap, fs
  <2>4. 0 \in 0 .. MAX_FILESYSTEMS
    BY DEF MAX_FILESYSTEMS
  <2> QED
    BY <2>1, <2>2, <2>3, <2>4
<1>2. CASE vfs_initialize
  <2>1. pc = "vfs_initialize" /\ pc' = "memfs_nodes" /\ Allocate("fs_root", TRUE)
    BY <1>2 DEF vfs_initialize, At
  <2>2. Left(pc) = Taken("fs_root") + Left(pc')
    BY <2>1, TakenNat DEF Left
  <2> QED
    BY <1>1, <2>1, <2>2, WritingKeepsIInv DEF Labels, Objects
<1>3. CASE memfs_nodes
  <2>1. pc = "memfs_nodes" /\ pc' = "memfs_bitmap" /\ Allocate("nodes", TRUE)
    BY <1>3 DEF memfs_nodes, At
  <2>2. Left(pc) = Taken("nodes") + Left(pc')
    BY <2>1, TakenNat DEF Left
  <2> QED
    BY <1>1, <2>1, <2>2, WritingKeepsIInv DEF Labels, Objects
<1>4. CASE memfs_bitmap
  <2>1. pc = "memfs_bitmap" /\ pc' = "memfs_blocks" /\ Allocate("block_bitmap", TRUE)
    BY <1>4 DEF memfs_bitmap, At
  <2>2. Left(pc) = Taken("block_bitmap") + Left(pc')
    BY <2>1, TakenNat DEF Left
  <2> QED
    BY <1>1, <2>1, <2>2, WritingKeepsIInv DEF Labels, Objects
<1> QED
  BY <1>2, <1>3, <1>4

LEMMA BlocksKeepIInv == ASSUME IInv, memfs_blocks, UNCHANGED events PROVE IInv'
<1>1. pc = "memfs_blocks" /\ pc' = "vfs_mount" /\ Allocate("blocks", FALSE)
  BY DEF memfs_blocks, At
<1>2. Left(pc) = Taken("blocks") + Left(pc') /\ Left(pc') = Taken("mounted")
  BY <1>1 DEF Left
<1>3. Later \in Nat /\ heap_pos \in Nat
  BY LeftIsNat, HeapSizeAssumption DEF IInv, TypeOK
<1>4. heap_pos + Taken("blocks") + (Left(pc') + Later) <= HEAP_SIZE
  <2>1. heap_pos + Left(pc) + Later <= HEAP_SIZE
    BY DEF IInv, Budget, Later
  <2> QED
    BY <1>2, <1>3, <2>1, TakenNat
<1>5. Left(pc') + Later \in Nat
  BY <1>2, <1>3, TakenNat
<1>6. /\ heap_pos' \in 0 .. HEAP_SIZE /\ heap_pos' + (Left(pc') + Later) <= HEAP_SIZE
      /\ pointer' \in [Objects -> NULL .. Word - 1] /\ cleared' \subseteq Objects
      /\ Placed'
  BY <1>1, <1>4, <1>5, UnwrittenBlocks DEF IInv
<1>7. /\ UNCHANGED <<pass, mounts, hardware, events>>
      /\ kernel_status' \in Status /\ root_ops' \in BOOLEAN
      /\ filesystems' \in 0 .. MAX_FILESYSTEMS
  BY DEF memfs_blocks, register_filesystem, IInv, TypeOK, Status, MAX_FILESYSTEMS
<1> QED
  BY <1>1, <1>6, <1>7, TakingKeepsIInv DEF Labels

(* The mount ends a pass: what was reserved for the second one is left.    *)
LEMMA MountKeepsIInv == ASSUME IInv, vfs_mount, UNCHANGED events PROVE IInv'
<1> DEFINE found   == filesystems > 0
           mounted == found /\ Fits(heap_pos, SizeOf["mounted"])
<1>1. /\ pc = "vfs_mount" /\ pass' = 2 /\ pass \in {1, 2}
      /\ pc' = CASE pass = 1 -> "vfs_initialize"
                 [] pass = 2 -> IF mounted THEN "open" ELSE "getchar"
      /\ IF found THEN Allocate("mounted", mounted) ELSE UNCHANGED memory
      /\ mounts' = IF mounted THEN mounts + 1 ELSE mounts
      /\ UNCHANGED <<kernel_status, root_ops, filesystems, hardware>>
  <2>1. /\ pc = "vfs_mount" /\ pass' = 2 /\ pass \in {1, 2}
        /\ pc' = CASE pass = 1 -> "vfs_initialize"
                   [] pass = 2 -> IF mounted THEN "open" ELSE "getchar"
        /\ IF found THEN memfs_mount ELSE UNCHANGED memory
        /\ mounts' = IF mounted THEN mounts + 1 ELSE mounts
        /\ UNCHANGED <<kernel_status, root_ops, filesystems, hardware>>
    BY DEF vfs_mount, At, IInv, TypeOK
  <2>2. ASSUME found PROVE Allocate("mounted", mounted)
    <3>1. Allocate("mounted", Fits(heap_pos, SizeOf["mounted"])) /\ found
      BY <2>1, <2>2 DEF memfs_mount
    <3>2. mounted = Fits(heap_pos, SizeOf["mounted"])
      BY <3>1 DEF Fits
    <3> HIDE DEF mounted
    <3> QED
      BY <3>1, <3>2
  <2> QED
    BY <2>1, <2>2
<1>2. Left(pc) = Taken("mounted")
  BY <1>1 DEF Left
<1>3. /\ Later \in Nat /\ heap_pos \in Nat /\ Taken("mounted") \in Nat
      /\ heap_pos + Taken("mounted") + Later <= HEAP_SIZE
  BY <1>2, LeftIsNat, TakenNat, HeapSizeAssumption DEF IInv, TypeOK, Budget, Later
<1>4. /\ heap_pos' \in 0 .. HEAP_SIZE /\ heap_pos' + Later <= HEAP_SIZE
      /\ pointer' \in [Objects -> NULL .. Word - 1] /\ cleared' \subseteq Objects
      /\ Placed'
  <2>1. CASE found
    <3>1. Fits(heap_pos, SizeOf["mounted"])
      <4>1. Left(pc) = Taken("mounted") + 0
        BY <1>2, <1>3
      <4> QED
        BY <4>1, HasRoom DEF Objects
    <3>2. Allocate("mounted", mounted) /\ mounted = TRUE
      BY <1>1, <2>1, <3>1
    <3> HIDE DEF mounted
    <3> QED
      BY <1>3, <3>2, WrittenObject DEF IInv, Objects
  <2>2. CASE ~ found
    <3>1. UNCHANGED <<heap_pos, pointer, cleared>>
      BY <1>1, <2>2 DEF memory
    <3>2. Placed'
      BY <3>1 DEF IInv, Placed
    <3>3. /\ heap_pos \in 0 .. HEAP_SIZE /\ cleared \subseteq Objects
          /\ pointer \in [Objects -> NULL .. Word - 1]
      BY DEF IInv, TypeOK
    <3>4. heap_pos + Later <= HEAP_SIZE
      BY <1>3, HeapSizeAssumption
    <3> QED
      BY <3>1, <3>2, <3>3, <3>4
  <2> QED
    BY <2>1, <2>2
<1>5. /\ pc' \in {"vfs_initialize", "open", "getchar"}
      /\ Left(pc') = Later
  BY <1>1 DEF Left, Later
<1>6. MountsCounted' /\ mounts' \in 0 .. 2
  <2>1. mounts \in 0 .. 2 /\ (pass = 1 => mounts = 0) /\ mounts # 2
    BY <1>1 DEF IInv, TypeOK, MountsCounted
  <2> HIDE DEF mounted
  <2>2. mounts' \in 0 .. 2 /\ (pass = 1 => mounts' \in 0 .. 1)
    BY <1>1, <2>1
  <2>3. pass # 1 => pc' \in {"open", "getchar"}
    BY <1>1
  <2> QED
    BY <1>1, <2>2, <2>3 DEF MountsCounted
<1>7. Budget'
  <2>1. Left(pc)' = Later
    BY <1>5 DEF Left
  <2>2. heap_pos' + Later + 0 <= HEAP_SIZE
    <3>1. \A x, y \in Nat : x + y + 0 = x + y
      OBVIOUS
    <3>2. heap_pos' \in 0 .. HEAP_SIZE
      BY <1>4
    <3>3. heap_pos' \in Nat
      BY <3>2, HeapSizeAssumption
    <3>4. Later \in Nat
      BY <1>3
    <3>5. heap_pos' + Later <= HEAP_SIZE
      BY <1>4
    <3> QED
      BY <3>1, <3>3, <3>4, <3>5
  <2>3. (IF pass = 1 THEN SetUp ELSE 0)' = 0
    BY <1>1
  <2> QED
    BY <2>1, <2>2, <2>3 DEF Budget
<1>8. UNCHANGED <<IF_flag, idt, loaded, unmasked, irr, isr, keys, ticks>>
  BY <1>1 DEF hardware
<1>9. TypeOK'
  <2>1. pc' \in Labels /\ pass' \in {1, 2}
    BY <1>1, <1>5 DEF Labels
  <2>2. UNCHANGED <<kernel_status, root_ops, filesystems, events>>
    BY <1>1
  <2> QED
    BY <1>4, <1>6, <1>8, <2>1, <2>2 DEF IInv, TypeOK
<1> QED
  BY <1>4, <1>6, <1>7, <1>8, <1>9 DEF IInv, InterruptsOff

LEMMA NextIInv == ASSUME IInv, [Next]_vars PROVE IInv'
<1>1. CASE kmain
  BY <1>1, SettingUpKeepsIInv, SchedulerKeepsIInv, SetUpKeepsIInv, BlocksKeepIInv,
     MountKeepsIInv DEF kmain
<1>2. CPU => kmain
  BY NoInterrupt DEF CPU
<1>3. CASE \E line \in Lines : Raise(line)
  BY <1>3, RaiseKeepsIInv
<1>4. CASE UNCHANGED vars
  <2>1. UNCHANGED <<memory, pass, mounts, pc, IF_flag>>
    BY <1>4 DEF vars, fs, hardware
  <2>2. TypeOK'
    BY <1>4 DEF vars, memory, fs, hardware, IInv, TypeOK
  <2> QED
    BY <2>1, <2>2, QuietKeepsIInv
<1> QED
  BY <1>1, <1>2, <1>3, <1>4 DEF Next

-----------------------------------------------------------------------------
(***************************************************************************)
(* Through kmain and fs_test (kernel.c, fs_test.c), every sum of the heap  *)
(* and every counter of the boot keeps its type, whatever the hardware     *)
(* raises.                                                                 *)
(***************************************************************************)
THEOREM TypeCorrect == Spec => []TypeOK
<1>1. IInv => TypeOK
  BY DEF IInv
<1> QED
  BY <1>1, InitIInv, NextIInv, PTL DEF Spec

(***************************************************************************)
(* On a heap with room for both passes, what the boot writes through       *)
(* answers of kmalloc that it does not test (vfs.c:24, memfs.c:42-50) is   *)
(* memory it was given; the blocks, of four megabytes, it never writes.    *)
(***************************************************************************)
THEOREM WritesOwnMemory == Spec => []BootWritesOwnMemory
<1>1. IInv => BootWritesOwnMemory
  <2> SUFFICES ASSUME IInv PROVE BootWritesOwnMemory
    OBVIOUS
  <2>1. ASSUME NEW o \in cleared
        PROVE  pointer[o] # NULL /\ pointer[o] + SizeOf[o] <= HEAP_SIZE
    <3>1. o \in Objects /\ heap_pos \in 0 .. HEAP_SIZE
      BY DEF IInv, TypeOK
    <3>2. SizeOf[o] \in Nat /\ pointer[o] \in Nat /\ pointer[o] + SizeOf[o] <= heap_pos
      BY <3>1, Sizes DEF IInv, Placed
    <3> QED
      BY <3>1, <3>2, HeapSizeAssumption DEF NULL
  <2> QED
    BY <2>1 DEF IInv, Placed, BootWritesOwnMemory
<1> QED
  BY <1>1, InitIInv, NextIInv, PTL DEF Spec

(* How far the interrupts are set up, when the call at pc comes next.      *)
SetUpSoFar ==
  /\ pc \in {"remap", "mask", "lidt"} => Keyboard \in idt
  /\ pc = "lidt" => unmasked = {Keyboard}
  /\ pc \notin BeforeLidt => loaded /\ Keyboard \in idt /\ unmasked = {Keyboard}

LEMMA NextSetUp == ASSUME IInv, SetUpSoFar, [Next]_vars PROVE SetUpSoFar'
<1>1. CASE init_memory_manager \/ init_interrupts
  BY <1>1 DEF init_memory_manager, init_interrupts, At, BeforeLidt, SetUpSoFar
<1>2. CASE remap \/ mask \/ lidt \/ register_timer
  BY <1>2 DEF remap, mask, lidt, register_timer, At, BeforeLidt, SetUpSoFar
<1>3. CASE UNCHANGED <<idt, loaded, unmasked>> /\ pc \notin BeforeLidt
           /\ pc' \notin BeforeLidt
  BY <1>3 DEF SetUpSoFar, BeforeLidt
<1>4. CASE UNCHANGED <<idt, loaded, unmasked, pc>>
  BY <1>4 DEF SetUpSoFar
<1>5. CASE init_scheduler \/ vfs_initialize \/ memfs_nodes \/ memfs_bitmap \/ memfs_blocks
           \/ vfs_mount \/ open
  <2>1. UNCHANGED <<idt, loaded, unmasked>>
    BY <1>5 DEF init_scheduler, vfs_initialize, memfs_nodes, memfs_bitmap, memfs_blocks,
                vfs_mount, open, hardware
  <2>2. pc \notin BeforeLidt
    BY <1>5 DEF init_scheduler, vfs_initialize, memfs_nodes, memfs_bitmap, memfs_blocks,
                vfs_mount, open, At, BeforeLidt
  <2>3. pc' \notin BeforeLidt
    <3>1. CASE vfs_mount
      BY <3>1 DEF vfs_mount, At, BeforeLidt, IInv, TypeOK
    <3>2. CASE ~ vfs_mount
      BY <1>5, <3>2 DEF init_scheduler, vfs_initialize, memfs_nodes, memfs_bitmap,
                        memfs_blocks, open, At, BeforeLidt
    <3> QED
      BY <3>1, <3>2
  <2> QED
    BY <1>3, <2>1, <2>2, <2>3
<1>6. CASE CPU
  <2>1. kmain
    BY <1>6, NoInterrupt DEF CPU
  <2> QED
    BY <1>1, <1>2, <1>5, <2>1 DEF kmain
<1>7. CASE \E line \in Lines : Raise(line)
  BY <1>4, <1>7 DEF Raise
<1>8. CASE UNCHANGED vars
  BY <1>4, <1>8 DEF vars, hardware
<1> QED
  BY <1>6, <1>7, <1>8 DEF Next

(***************************************************************************)
(* ICW1 (interrupts.c:49) and the mask (57) let lines through before lidt  *)
(* (63), while no interrupt can be taken; from lidt on, every line that is *)
(* let through has its gate, whatever mask the BIOS left.                  *)
(***************************************************************************)
THEOREM GatesFirst == Spec => []UngatedOnlyBeforeLidt
<1>1. Init => SetUpSoFar
  BY DEF Init, SetUpSoFar, BeforeLidt
<1>2. IInv /\ SetUpSoFar => UngatedOnlyBeforeLidt
  <2> SUFFICES ASSUME IInv, SetUpSoFar PROVE UngatedOnlyBeforeLidt
    OBVIOUS
  <2>1. CASE pc \in BeforeLidt
    BY <2>1 DEF IInv, InterruptsOff, UngatedOnlyBeforeLidt
  <2>2. CASE pc \notin BeforeLidt
    BY <2>2 DEF SetUpSoFar, gates, UngatedOnlyBeforeLidt
  <2> QED
    BY <2>1, <2>2
<1> QED
  BY <1>1, <1>2, InitIInv, NextIInv, NextSetUp, PTL DEF Spec
=============================================================================
