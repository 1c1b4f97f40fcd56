------------------------------- MODULE Kernel -------------------------------
(***************************************************************************)
(* The kernel from its entry to the shell's first keyboard_getchar         *)
(* (kmain, kernel/kernel.c): the subsystems it initialises, in its order,  *)
(* the heap they share, the interrupt controller and the CPU's interrupt   *)
(* flag, under key presses and timer ticks that come at any moment.        *)
(***************************************************************************)
EXTENDS Allocator, FiniteSets

CONSTANTS
  SizeOf,     \* bytes that each object takes: see Objects
  MaxEvents   \* bound: how often the hardware raises each line

Timer    == 0
Keyboard == 1
Lines    == {Timer, Keyboard}
NULL     == -1

MAX_FILESYSTEMS == 8

(* What the boot allocates, under the names of the pointers it keeps.      *)
Objects == {"current_task", "fs_root", "nodes", "block_bitmap", "blocks", "mounted"}

(* What a request takes at most; the blocks may be more than there is.     *)
Taken(object) ==
  IF object = "blocks" /\ SizeOf[object] > HEAP_SIZE THEN 0 ELSE SizeOf[object] + 3

(* vfs_initialize, memfs_initialize and vfs_mount together.                *)
SetUp == Taken("fs_root") + Taken("nodes") + Taken("block_bitmap") + Taken("blocks")
           + Taken("mounted")

(* No sum wraps around, and the heap has room for the task and both passes. *)
ASSUME SizeOfAssumption ==
  /\ SizeOf \in [Objects -> Nat]
  /\ \A o \in Objects : HEAP_SIZE + SizeOf[o] + 3 < Word
ASSUME RoomAssumption == Taken("current_task") + SetUp + SetUp <= HEAP_SIZE
ASSUME MaxEventsAssumption == MaxEvents \in Nat

VARIABLES
  pc,          \* the call that comes next
  pass,        \* 1 in kmain itself, 2 in fs_test
  kernel_status,
  heap_pos,
  pointer,     \* the pointer variable of each object
  cleared,     \* history: the objects the boot has written through it
  root_ops,    \* does the node at fs_root have a file system's callbacks?
  filesystems, \* num_filesystems
  mounts,      \* history: successful calls of vfs_mount
  IF_flag,     \* EFLAGS.IF
  idt,         \* the lines whose vector has a gate in idt
  loaded,      \* has lidt loaded idt?
  unmasked,    \* the lines that the PIC lets through
  irr, isr,    \* the lines that wait in the PIC, and those in service
  keys,        \* characters in key_buffer
  ticks,       \* the ticks timer_callback has counted
  events       \* how often each line was raised

hardware == <<IF_flag, idt, loaded, unmasked, irr, isr, keys, ticks>>
fs       == <<root_ops, filesystems, mounts>>
memory   == <<heap_pos, pointer, cleared>>
vars     == <<pc, pass, kernel_status, memory, fs, hardware, events>>

(* The boot loader enters the kernel with interrupts off, and with the     *)
(* mask that the BIOS left.  The statics in .bss are zero, as C has them:  *)
(* nothing at boot clears them.                                            *)
Init ==
  /\ pc = "init_memory_manager" /\ pass = 1
  /\ kernel_status = [interrupts_enabled |-> FALSE, scheduler_active |-> FALSE,
                      memory_manager_ready |-> FALSE]
  /\ heap_pos = 0
  /\ pointer = [o \in Objects |-> NULL]
  /\ cleared = {}
  /\ root_ops = FALSE /\ filesystems = 0 /\ mounts = 0
  /\ IF_flag = FALSE
  /\ idt = {} /\ loaded = FALSE
  /\ unmasked \in SUBSET Lines /\ irr = {} /\ isr = {}
  /\ keys = 0 /\ ticks = 0
  /\ events = [line \in Lines |-> 0]

-----------------------------------------------------------------------------
(***************************************************************************)
(* The interrupt hardware.  The PIC holds back a line while one of the     *)
(* same or a higher priority is in service.                                *)
(***************************************************************************)
Raise(line) ==
  /\ events[line] < MaxEvents
  /\ events' = [events EXCEPT ![line] = @ + 1]
  /\ irr' = irr \cup {line}
  /\ UNCHANGED <<pc, pass, kernel_status, memory, fs, IF_flag, idt, loaded, unmasked,
                 isr, keys, ticks>>

(* The lines whose interrupt finds a gate. *)
gates == IF loaded THEN idt ELSE {}

Deliverable ==
  {line \in irr \cap unmasked : IF_flag /\ \A busy \in isr : line < busy}

(* keyboard_handler: acknowledges, stores the key, returns with iret.      *)
(* timer_callback, called as if it were a handler: counts, but neither     *)
(* acknowledges nor returns with iret, so interrupts stay off.  Without a  *)
(* gate the processor faults, and faults again on the missing fault gates. *)
Handle(line) ==
  /\ pc' = IF line \in gates THEN pc ELSE "reset"
  /\ irr' = irr \ {line}
  /\ keys' = IF line = Keyboard THEN keys + 1 ELSE keys
  /\ ticks' = IF line = Timer THEN ticks + 1 ELSE ticks
  /\ isr' = IF line = Timer THEN isr \cup {line} ELSE isr
  /\ IF_flag' = (line # Timer)
  /\ UNCHANGED <<pass, kernel_status, memory, fs, idt, loaded, unmasked, events>>

-----------------------------------------------------------------------------
At(label, next) == pc = label /\ pc' = next

(* The object is allocated, and cleared or filled in through its pointer   *)
(* whether or not kmalloc had room.                                        *)
Allocate(object, written) ==
  LET fits == Fits(heap_pos, SizeOf[object])
  IN  /\ pointer' = [pointer EXCEPT ![object] = IF fits THEN heap_pos ELSE NULL]
      /\ heap_pos' = IF fits THEN Bump(heap_pos, SizeOf[object]) ELSE heap_pos
      /\ cleared' = IF written THEN cleared \cup {object} ELSE cleared

init_memory_manager ==
  /\ At("init_memory_manager", "init_interrupts")
  /\ kernel_status' = [kernel_status EXCEPT !.memory_manager_ready = TRUE]
  /\ UNCHANGED <<pass, memory, fs, hardware>>

(* init_interrupts fills in the gate first.                                *)
init_interrupts ==
  /\ At("init_interrupts", "remap")
  /\ idt' = idt \cup {Keyboard}
  /\ UNCHANGED <<pass, kernel_status, memory, fs, IF_flag, loaded, unmasked, irr, isr,
                 keys, ticks>>

(* ICW1 clears the mask and the edges that the PIC has seen; a line that   *)
(* is still up may be seen again.                                          *)
remap ==
  /\ At("remap", "mask")
  /\ unmasked' = Lines
  /\ irr' \in SUBSET irr
  /\ isr' = {}
  /\ UNCHANGED <<pass, kernel_status, memory, fs, IF_flag, idt, loaded, keys, ticks>>

(* A plausible bug: the timer is let through before it has a gate. *)
mask_UnmasksTimer ==
  /\ At("mask", "lidt")
  /\ unmasked' = Lines
  /\ UNCHANGED <<pass, kernel_status, memory, fs, IF_flag, idt, loaded, irr, isr,
                 keys, ticks>>

(* The mask is 0xFD.                                                       *)
mask ==
  /\ At("mask", "lidt")
  /\ unmasked' = {Keyboard}
  /\ UNCHANGED <<pass, kernel_status, memory, fs, IF_flag, idt, loaded, irr, isr,
                 keys, ticks>>

lidt ==
  /\ At("lidt", "register_timer")
  /\ loaded' = TRUE
  /\ UNCHANGED <<pass, kernel_status, memory, fs, IF_flag, idt, unmasked, irr, isr,
                 keys, ticks>>

(* The rest of init_enhanced_interrupts; the gate goes into the loaded IDT. *)
register_timer ==
  /\ At("register_timer", "init_scheduler")
  /\ idt' = idt \cup {Timer}
  /\ kernel_status' = [kernel_status EXCEPT !.interrupts_enabled = TRUE]
  /\ UNCHANGED <<pass, memory, fs, IF_flag, loaded, unmasked, irr, isr, keys, ticks>>

init_scheduler ==
  /\ At("init_scheduler", "vfs_initialize")
  /\ Allocate("current_task", Fits(heap_pos, SizeOf["current_task"]))
  /\ kernel_status' =
       [kernel_status EXCEPT !.scheduler_active = Fits(heap_pos, SizeOf["current_task"])]
  /\ UNCHANGED <<pass, fs, hardware>>

(* kmain sets up the file systems and mounts one; fs_test, in its second   *)
(* pass, does it all again.                                                *)
vfs_initialize ==
  /\ At("vfs_initialize", "memfs_nodes")
  /\ Allocate("fs_root", TRUE)
  /\ root_ops' = FALSE
  /\ filesystems' = 0
  /\ UNCHANGED <<pass, kernel_status, mounts, hardware>>

(* memfs_initialize, one step for each call of kmalloc.                    *)
memfs_nodes ==
  /\ At("memfs_nodes", "memfs_bitmap")
  /\ Allocate("nodes", TRUE)
  /\ UNCHANGED <<pass, kernel_status, fs, hardware>>

memfs_bitmap ==
  /\ At("memfs_bitmap", "memfs_blocks")
  /\ Allocate("block_bitmap", TRUE)
  /\ UNCHANGED <<pass, kernel_status, fs, hardware>>

register_filesystem ==
  filesystems' = IF filesystems < MAX_FILESYSTEMS THEN filesystems + 1 ELSE filesystems

(* A plausible bug: the blocks are cleared like the bitmap. *)
memfs_blocks_Cleared ==
  /\ At("memfs_blocks", "vfs_mount")
  /\ Allocate("blocks", TRUE)
  /\ register_filesystem
  /\ UNCHANGED <<pass, kernel_status, root_ops, mounts, hardware>>

memfs_blocks ==
  /\ At("memfs_blocks", "vfs_mount")
  /\ Allocate("blocks", FALSE)
  /\ register_filesystem
  /\ UNCHANGED <<pass, kernel_status, root_ops, mounts, hardware>>

(* The mounted file system's own root, with its callbacks; NULL without room. *)
memfs_mount == Allocate("mounted", Fits(heap_pos, SizeOf["mounted"]))

(* vfs_mount("memdisk", "/", "memfs").  Its fs_root is a local variable:   *)
(* the copy is of the mounted root onto itself.                            *)
vfs_mount ==
  LET found   == filesystems > 0
      mounted == found /\ Fits(heap_pos, SizeOf["mounted"])
  IN  /\ At("vfs_mount", CASE pass = 1 -> "vfs_initialize"
                            [] pass = 2 -> IF mounted THEN "open" ELSE "getchar")
      /\ pass' = 2
      /\ IF found THEN memfs_mount ELSE UNCHANGED memory
      /\ mounts' = IF mounted THEN mounts + 1 ELSE mounts
      /\ UNCHANGED <<kernel_status, root_ops, filesystems, hardware>>

(* fs_test opens "/test.txt", which no finddir finds, and gives up.        *)
open ==
  /\ At("open", "getchar")
  /\ UNCHANGED <<pass, kernel_status, memory, fs, hardware>>

(* The shell's first keyboard_getchar, where this module ends (Keyboard    *)
(* takes over), finds no key and halts the CPU.                            *)
kmain ==
  /\ \/ init_memory_manager \/ init_interrupts \/ remap \/ mask \/ lidt
     \/ register_timer \/ init_scheduler \/ vfs_initialize
     \/ memfs_nodes \/ memfs_bitmap \/ memfs_blocks
     \/ vfs_mount \/ open
  /\ UNCHANGED events

(* Between two instructions, the CPU takes a deliverable interrupt first.  *)
CPU ==
  IF Deliverable = {} THEN kmain
  ELSE Handle(CHOOSE line \in Deliverable : \A l \in Deliverable : line <= l)

Next == CPU \/ \E line \in Lines : Raise(line)

Spec == Init /\ [][Next]_vars

(* The CPU does not stop between two instructions.                         *)
FairSpec == Spec /\ WF_vars(CPU)

-----------------------------------------------------------------------------
BeforeLidt == {"init_memory_manager", "init_interrupts", "remap", "mask", "lidt"}

Labels ==
  BeforeLidt \cup
  {"register_timer", "init_scheduler", "vfs_initialize", "memfs_nodes", "memfs_bitmap",
   "memfs_blocks", "vfs_mount", "open", "getchar", "reset"}

TypeOK ==
  /\ pc \in Labels /\ pass \in {1, 2}
  /\ kernel_status \in [interrupts_enabled : BOOLEAN, scheduler_active : BOOLEAN,
                        memory_manager_ready : BOOLEAN]
  /\ heap_pos \in 0 .. HEAP_SIZE
  /\ pointer \in [Objects -> NULL .. Word - 1]
  /\ cleared \subseteq Objects
  /\ root_ops \in BOOLEAN
  /\ filesystems \in 0 .. MAX_FILESYSTEMS /\ mounts \in 0 .. 2
  /\ IF_flag \in BOOLEAN
  /\ idt \subseteq Lines /\ loaded \in BOOLEAN /\ unmasked \subseteq Lines
  /\ irr \subseteq Lines /\ isr \subseteq Lines
  /\ keys \in Nat /\ ticks \in Nat
  /\ events \in [Lines -> 0 .. MaxEvents]

(***************************************************************************)
(* The boot checks few of its kmallocs (vfs.c:24, memfs.c:42-50), and runs *)
(* the file system set-up twice on a heap that gives nothing back; still,  *)
(* everything it writes through a pointer of its own is memory it was      *)
(* given, inside the heap, and no two such objects overlap.                *)
(***************************************************************************)
BootWritesOwnMemory ==
  /\ \A o \in cleared :
       pointer[o] # NULL /\ pointer[o] + SizeOf[o] <= HEAP_SIZE
  /\ \A o, p \in cleared :
       o # p => \/ pointer[o] + SizeOf[o] <= pointer[p]
                \/ pointer[p] + SizeOf[p] <= pointer[o]

(***************************************************************************)
(* The PIC lets lines through before the IDT is loaded: all of them after  *)
(* ICW1 (interrupts.c:49), the keyboard after the mask (57).  That harms   *)
(* nothing as long as the CPU takes no interrupt until lidt (63), and as   *)
(* from then on every line let through has its gate, also before the timer *)
(* is registered (kernel.c:77).                                            *)
(***************************************************************************)
UngatedOnlyBeforeLidt ==
  unmasked \subseteq gates \/ (pc \in BeforeLidt /\ ~ IF_flag)

(***************************************************************************)
(* "Keyboard Input - Interrupt-driven input handling" (readme.md:41): a    *)
(* key pressed while the shell waits reaches the shell.                    *)
(***************************************************************************)
KeyPressIsRead == pc = "getchar" /\ Keyboard \in irr ~> keys > 0
=============================================================================
