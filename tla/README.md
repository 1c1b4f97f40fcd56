# BasedOS in TLA+

A model of BasedOS, a 32-bit hobby kernel for the PC: its keyboard path, its
heap, its file descriptors and memory file system, its boot, its tasks, its
screen, its shell's input line and commands, and its string functions. The
modules are written from the C sources; TLC checks them on small instances, and
TLAPS proves every invariant, action property and refinement that TLC checks,
for every value of the constants. Liveness is checked by TLC alone.

Line numbers in the modules refer to the source file that the module's header
names.

## 1. The system

One CPU, one thread of control, and the interrupts it takes. There are no
processes: `kmain` initialises everything in a straight line and calls
`start_shell`, which never returns unless told to.

| Component | State | Operations | Interacts with |
|---|---|---|---|
| Keyboard input (`kernel/interrupts.c`) | `key_buffer`, `key_buffer_pos` | IRQ1 handler, `keyboard_getchar` | shares the buffer between the handler and the shell, without a lock |
| Interrupt set-up (`kernel/interrupts.c`, `kernel/kernel.c`) | IDT, PIC mask, the CPU's interrupt flag | `init_interrupts`, `register_interrupt_handler`, `enable_` / `disable_interrupts` | decides which handlers can ever run |
| Heap (`kernel/memory.c`) | `heap`, `heap_pos` | `kmalloc`, `kfree` | called by scheduler, VFS and memfs |
| VFS (`fs/vfs.c`) | `fs_root`, `file_descriptors`, `filesystems` | `open`, `close`, `read`, `write`, `lseek`, `vfs_mount`, `register_filesystem` | calls file systems through callbacks |
| Memory file system (`fs/memfs.c`) | nodes, bitmap, blocks | `memfs_initialize`, `memfs_mount`, callbacks | heap, VFS |
| Scheduler (`kernel/kernel.c`) | ring of tasks, `current_task` | `init_scheduler`, `create_task`, `yield`, `timer_callback` | heap, timer interrupt |
| Boot and status (`kernel/kernel.c`) | `kernel_status` | `kmain`, `kernel_panic`, `kernel_shutdown`, status getters | everything, in a fixed order |
| Terminal (`kernel/terminal.c`) | cells, cursor, colour | `putchar`, `printk`, `terminal_*` | shell |
| Shell: line and history (`kernel/shell.c`) | `input`, `position`, `history`, `history_pos`, `current_history` | the inner loop of `start_shell`, `add_to_history` | keyboard, terminal |
| Shell: commands (`kernel/shell.c`) | aliases, settings, last exit code | `execute_command` and what it calls | VFS, kernel, terminal, speaker |
| String library (`lib/string.c`) | `strtok`'s `last` | pure functions | everything |
| Speaker, ports, boot loader | hardware | one-instruction wrappers, real-mode start-up | - |

What is hard in it:

* **Concurrency.** The handler interrupts `keyboard_getchar` between any two
  instructions; both write `key_buffer` and `key_buffer_pos`. The decrement is
  three instructions, the wait is a test and a `hlt`.
* **Order of set-up.** PIC, gates, timer, interrupt flag; the file systems are
  set up twice (`kmain`, then `fs_test`) on a heap that gives nothing back,
  and few results of `kmalloc` are tested.
* **Limits.** 32-bit sums in `kmalloc` and in file positions, 64 descriptors,
  a key buffer of 256, a history of 10 that wraps, a line of 126, a screen of
  80 columns.
* **Two representations of one thing.** `position` against the terminating 0
  of `input`; the line against the screen; the ring `history` against the list
  that `history` prints; the local `fs_root` against the global one.

What makes each component correct: keys come out once and in order, and none
is waited for while it is there; blocks are inside the heap and disjoint;
descriptors are independent and neither leak nor come back with old contents;
a failed call does nothing; the boot writes only memory it was given and never
lets an interrupt through to an empty gate; what the screen shows is what
Return executes; the history is a log of the latest commands.

## 2. The modules

| Module | Models | Composition |
|---|---|---|
| `ScancodeTable` | the scancode table, as codes | instantiated by `Keyboard`'s model |
| `Keyboard` | handler and `keyboard_getchar`, at the grain of memory accesses | - |
| `Allocator` | the arithmetic of `kmalloc` | extended by `Heap`, `Kernel`, `Tasks` and `MemFs` |
| `Heap` | `kmalloc` and `kfree`, with every block ever granted | extends `Allocator` |
| `HeapProofs` | proofs, and before them the lemmas about the arithmetic of `Allocator` | extends `Heap`; instantiated by `TasksProofs`, `KernelProofs` and `MemFsProofs` for the lemmas |
| `Vfs` | the descriptor table and the path walk | a file system is a parameter |
| `VfsProofs` | proofs | extends `Vfs` |
| `FileStore` | abstract: what a file system promises of plain files | implemented by `MemFs` |
| `MemFs` | the memory file system's callbacks on the heap | extends `Allocator`, instantiates `FileStore` |
| `MemFsProofs` | proofs | extends `MemFs` |
| `Tasks` | the ring of tasks, on a heap that others use too, and the switch | extends `Allocator` |
| `TasksProofs` | proofs | extends `Tasks` |
| `Kernel` | `kmain` up to the shell's first wait, with PIC, gates, interrupt flag, heap and file-system set-up | uses the heap's operators |
| `KernelProofs` | proofs | extends `Kernel` |
| `Terminal` | `putchar`: cells, cursor, wrap, scroll | operators, used by `LineEditor` |
| `CommandLog` | abstract: what a command history promises | implemented by `LineEditor` |
| `LineEditor` | the shell's inner loop, key by key, with history and screen | extends `Terminal`, instantiates `CommandLog` |
| `LineEditorProofs` | proofs | extends `LineEditor` |
| `Shell` | the shell's commands, aliases and settings | instantiates `Vfs` |
| `ShellProofs` | proofs | extends `Shell`, instantiates `VfsProofs` |
| `Strings` | `strncpy`, `memmove`, `strtok`, `itoa`, `atoi` on a buffer | - |
| `InputProofs` | proofs about the way of a line from the keys to its words | extends `Keyboard` and `Strings`, which do not depend on each other |
| `MC...` | values of constants for TLC | - |

### Keyboard

`pc` says where the CPU is in `keyboard_getchar`; each label is one access to
shared state (`test`, `hlt`, `sleep`, `take`, `shift`, `load`, `store`). The
handler enters through an interrupt gate and is one step, possible at every
label while `IF_flag` is set. The build passes no `-O` flag, so
`key_buffer_pos` is read from memory at every use: the loop condition of line
79 reads it afresh, and `key_buffer_pos--` is `load` and `store`. The test of
the loop and the copy that follows are one step, since the handler only writes
the slot at `key_buffer_pos`. `accepted`, `returned` and `races` are history
variables: what was stored, what was returned, and how many characters were
stored between the last test of the loop and the store of `key_buffer_pos`.

### Allocator and Heap

Addresses are indices of `heap`. Sums are taken modulo `Word`, the number of
values of a `uint32_t`. `kfree` is called with blocks that `kmalloc` returned,
each once, as its two callers do; it moves `heap_pos` back to a block that
starts at `heap[heap_pos - 1]`, which none does (section 5). What is required
of it is not that it keeps everything, but that no block in use is given out
again. `blocks`, `freed` and `wrapped` are history.

### Vfs

The entries of `file_descriptors` are records; a free one has no node. What a
driver does in its callbacks is open: `Callbacks` says which ones the nodes
have, a transfer returns any number up to the size, and `Child` is the tree:
for each directory, the node of each name in it. `vfs_finddir` and `vfs_open`
are the sets of their outcomes, since a lookup can also fail for want of room
(`memfs.c:218`). The kernel's own root is the instance without callbacks
(section 5). A path is its list of components, and `vfs_open` walks it from
one directory to the next.

### Kernel

One action per call that `kmain` and `fs_test` make, in `memfs_initialize` one
per `kmalloc`, and in `init_interrupts` one for each thing the hardware sees:
the gate is written, ICW1 clears the mask (`remap`), the mask lets IRQ1 through
(`mask`), the IDT is loaded (`lidt`). In between, lines are let through that
have no gate, since the IDT that has it is not loaded; `idt` is what the table
in memory holds, `loaded` whether the processor uses it, and `gates` what an
interrupt would find. `pass` is 1 in `kmain` and 2 in `fs_test`, which makes the
same calls. `Raise` is the hardware and can come between any two steps; the
CPU takes a deliverable interrupt before its next step (`CPU`). As the runs
show, none ever becomes deliverable: `Handle` is there because it is the code
that would run, and it is the branch of `CPU` that no behaviour reaches.
`cleared` records which objects the boot has written through the pointer it
got. The PIC's initialisation words and the descriptor layout are abstracted
to the mask and to which lines have a gate.

### LineEditor and Terminal

A step is one round of the inner loop of `start_shell`: one character from
`keyboard_getchar`, everything done with it, output included. `input` is the
string up to its terminating 0, `position` the index the code keeps. Enter
includes the part of `execute_command` that the line depends on
(`add_to_history`) and leaves the rest open: a command may clear the screen,
prints any of `Outputs`, and leaves the echo on or off; `exit`, which ends the
loop, is not among the lines. `OutputsAssumption` says what holds of every
command of `execute_command`: what it prints ends its last row. The screen is
the record that `putchar` of `Terminal` computes; colours are left out. `Chars` is what `keyboard_getchar` returns;
the shell is written for a driver that returns 72 and 80 for the arrows, and
so is the instance (see Divergences).

`show_history` is the list that the `history` command prints, and it is the
refinement mapping: `HistoryIsLog` says that, seen through it, the ring and
its index implement `CommandLog`.

### Shell

A line is the list of its words (`parse_command`), and whether it is bare, that
is, typed without blanks around its word: `start_shell` ends its loop by
comparing the typed line, and `execute_command` acts on the words that remain
after `resolve_alias`. A command takes one step, except the three that use a
descriptor: `cat`, `touch` and `write` take one step per call of the file
system, and those steps are the actions of `Vfs`, instantiated with the
shell's own flags; `fd` is the local variable that carries the descriptor from
one to the next. Commands that only print are one action. `calculator` is
modelled up to what can go wrong in it, the `idiv`: the IDT has no gate for the
processor's fault, so the machine resets. `Words` is the set of words there are, and
`PathOf`, `atoi` and `Letter` say which path, which int and which first
character each is read as. `promised` is history: what each alias that fits
was last accepted to stand for.

`add_alias` copies a name into `alias[32]` without looking at its length. The
names in `Long` do not fit: they run into `command`, the next field of the
entry, and are cut off where the command is copied there. What the entry then
reads as is `Overlaid`, the name's first 32 characters with the command after
them, another long name (`Entry`).

The file system below `Shell` has callbacks, as `cat` and `write` are written
for it. The kernel as it boots has none (section 5), and there every one of
these commands ends at its `open`, which is one of the branches.

### FileStore and MemFs

`FileStore` says what a file system promises of plain files: sequences of
bytes, holes that read as zero, writes that change nothing but their range.
`MemFs` has the heap byte by byte, and in each inode a size and an address:
`memfs_write` asks the heap for `offset + size` bytes when the file grows,
copies the old block, and goes on without testing the answer; `memfs_read`
clips to the size, with the same sum, which wraps in either (`wrapped`). The
refinement mapping is `content`, what each file holds through its pointer;
`damaged` is the moment after which the code keeps no promise, a refused block
or a wrapped sum. `memfs_finddir` takes a node from the heap each time and
keeps in it the length of that moment.

After a refusal the copies go to NULL and to NULL + offset, which are physical
addresses. `Image` is the kernel's first one and `Base` the heap's, somewhere
in the kernel's `.bss`. Bytes that land in the heap are stored there (`Index`);
as soon as a copy reaches the kernel at all, heap or not, `struck` is set and
the model ends, for what the kernel does then is anybody's guess.

Nothing in `memfs.c` creates a file (`memfs_alloc_inode` returns NULL); the
model starts with files below the root, empty, as the callbacks presuppose.

### Tasks

A task is known by its place in the order of creation; `next` is such a place.
`create_task` takes a block for the task and one for the stack, whose answer
it does not test; `NULL` in `stack` stands for the esp of 4096 that results.
`yield` raises `int 0x20`, whose handler, `timer_callback`, is an ordinary
function: it leaves with `ret`, and whether the code after `int` stumbles over
the two words that stay on the stack depends on the build. `pc` becomes
`"lost"` when it does, and always when the task switched to has never saved a
context; nothing is modelled after that. The rest of the kernel's requests of
the heap come in between (`Allocate`).

### Strings

A buffer of bytes that a client of the library fills with a line (`strncpy`), splits
(`strtok`, with its static `last`), moves within itself (`memmove`, byte by
byte in the order of its two loops) and fills with numbers (`itoa`), in any
order. The client is made up and does more than any caller in the kernel does:
`parse_command` calls `strcpy` and `strtok`, `printk` calls `itoa`.
`strspn` and `strcspn` are stated by their results, the loops of `memmove`,
`itoa` and `atoi` are recursive functions on an interval. `line` is history:
the text that `strtok` was given, which it cuts up in place. What `strtok` is
compared with are the runs of that text that hold no delimiter: `Starts` says
where they begin, and `IsWord` which they are. `itoa` is not told how long its
buffer is; `RoomAssumption` says what `printk`, with its 32 bytes, gives it.

## 3. The runs

| Run | Checks | Shows |
|---|---|---|
| `keyboard` | `TypeOK`, `FifoUnlessRaced`, `LossBounded`, `OnlyTypedCharacters`, `GetcharCompletes`, `GetcharAdvances` | without a store in the window everything comes out once and in order; each store inside it costs at most one key; nothing is made up; a call that saw a key returns, because no interrupt takes it back |
| `keyboard_order` | `ReturnedAsTyped` | violated: a key stored after the shift loop's last test and before the counter is loaded is counted but not shifted, and the first key is returned twice |
| `keyboard_wakeup` | `NeverSleepsOnInput` | violated: a key between the test and the `hlt` does not wake the reader |
| `heap` | `TypeOK`, `BlocksDisjoint` | until a 32-bit sum wraps, whatever is freed: the blocks in use are aligned, inside the heap and disjoint |
| `vfs` | `TypeOK`, `HeldIsUsed`, `DescriptorsIndependent`, `FailureChangesNothing` | the table agrees with its clients, calls do not disturb other descriptors, errors leave no trace |
| `kernel` | `TypeOK`, `BootWritesOwnMemory`, `UngatedOnlyBeforeLidt` | the boot writes only memory it was given, although it does not check; lines are let through without a gate only before `lidt`, and then no interrupt is taken |
| `kernel_keys` | `KeyPressIsRead` | violated: the shell waits with interrupts off |
| `line_editor` | `TypeOK`, `EndsAtPosition`, `RecallsCommands`, `ShowsTheLine`, `HistoryIsLog` | line, history and screen agree |
| `shell` | `TypeOK`, `NothingHeldAtPrompt`, `AliasesAsPromised`, `FaultsOnlyOnOverflow`, `EveryCommandEnds` | no command leaks a descriptor, whatever the file system answers; an alias whose name fits stands for what it was last accepted for; one quotient alone resets the machine; `cat`'s loop ends when `read` refuses |
| `tasks` | `TypeOK`, `OneRing`, `TasksOwnMemory`, `StacksRunOut` | the tasks are one ring and own their memory; once a stack is refused, all later ones are |
| `memfs` | `TypeOK`, `LengthNeverAhead`, `FilesAreStored`, `OthersUntouched` | the memory file system implements `FileStore` until a request fails or a sum wraps; a file changes only by a write to it, also when its block was refused, as long as the copies to NULL end in front of the kernel and no sum wraps |
| `strings` | `StrTypeOK`, `TokensAreWords`, `NumbersReadBack`, `MovesSnapshot` | `strtok` returns the words and spares those it has returned; `itoa` and `atoi` are inverse, also for the least int; `memmove` copies as if from a snapshot |

### Bounds

* `keyboard`: a buffer of 4, so three characters fill it; five scancodes of
  four kinds (two letters, a shift without character, a break code). Five is
  enough to fill the buffer, drop a key, and race twice in one behaviour.
  Calls, `sti` and `cli` are not bounded.
* `heap`: 32 bytes in 6-bit arithmetic, four grants; the sizes stand on both
  sides of a multiple of 4, and two are so large that the sum with `heap_pos`
  wraps. Refusals and frees are not bounded.
* `vfs`: two descriptors, positions in 3-bit arithmetic, so that they wrap
  and turn negative; a directory below the root with a file in it, and paths of
  every kind the walk distinguishes (root, a name that is not there, a file in
  a directory, below a file, relative); flags of each access mode; descriptors and whences
  just outside the valid range.
* `kernel`: the real heap size and object sizes. `Word` is 2^30 rather than
  2^32 because TLC's integers have 32 bits; no sum of the boot reaches either.
  Each line is raised three times; more would set a bit that is set.
* `line_editor`: no bound on the keys. Lines of two characters, a history of
  two (it wraps with every second command), a screen of two rows (it scrolls
  with every line) and three columns (a full line reaches its edge).
* `shell`: two descriptors, so that a leak shows after two commands; two
  defaults in a table of four, so that two more fill it; a long name and what
  two commands make of it; five words of six are cut; integers of 4
  bits, of which -8, -1 and 0 are typed. The commands typed are not bounded.
* `tasks`: a heap of 64 bytes, with room for three tasks and their stacks, or
  for more tasks when other requests have left none for a stack. Switches are
  not bounded.
* `memfs`: two files of three-valued bytes on a heap of 16 bytes with 24
  addresses, so that it runs out after two lookups and a few moves; offsets
  at the start, behind the end (a hole), further behind it, where a file
  without a block writes into the kernel, and at the largest value, where the
  sum wraps. The kernel begins at 4, and the heap right there: every byte that
  strikes the kernel near its front strikes the heap. The exploration stops at a wrapped sum (`Undamaged`), after which
  every property but `TypeOK` is silent.
* `strings`: a buffer of five bytes; every line of up to three characters from
  two letters and a blank, longer ones from a letter and a tab, the longest of
  which is cut; every integer of 5 bits.

### Fairness

`Keyboard!FairSpec` assumes that the CPU goes on executing `keyboard_getchar`
and that the interrupt controller delivers a pending IRQ1 while interrupts are
on: both are weak fairness, and both are how the hardware works. It assumes
no key press, no call and no `sti`. `GetcharCompletes` needs the first alone;
that the handler cannot lengthen the shift loop for ever is the bounded
buffer's doing. `Kernel!FairSpec` assumes that the CPU executes the boot, and
`Shell!FairSpec` that it executes a command once it was typed. Neither assumes
that anybody types. `EveryCommandEnds` asks nothing of the file system: `cat`
opens with `O_RDONLY`, and `read` refuses such a descriptor at once.

Deadlock is not checked where the system really stops: `keyboard` (asleep with
interrupts off), `heap` (all grants used up and all blocks freed), `kernel`
(halted, and the hardware's events used up), `shell` (left, or the machine
stopped), `memfs` (the kernel overwritten), `tasks` (halted, or lost in a
switch).

## 4. The proofs

* `InputProofs`, its first part, about `Keyboard`, for every `BufSize`, table,
  set of scancodes and number of key presses:
  * `TypeCorrect`: `Spec => []TypeOK`. `TypeOK` is inductive; what makes it so
    are its last three conjuncts, which tie `i`, `eax` and `key_buffer_pos`
    together at the labels where the handler can intervene. It contains the
    bound that matters: the index never leaves `key_buffer`.
  * `LossIsBounded`: `LossBounded` with `LossAtStore`, which restates the
    bound with `eax` at the one label where `key_buffer_pos` is about to be
    overwritten.
  * `NothingMadeUp`: by `OnlyTyped`, which extends the property from what was
    returned to the characters in the buffer and in `c`.
  * `Fifo`: `FifoUnlessRaced` speaks only of the moments outside the call.
    `InFlight` says where each character is at every other moment: slot `k`
    holds the `k`-th waiting character, or the one after it if the loop has
    passed `k`.
  * `CallsAdvance` (`GetcharAdvances`): the variant of a call that has seen a
    key. An interrupt may move the end of the shift loop, but no further than
    the end of the buffer, from which `StepsLeft` counts.
* `InputProofs`, its second part, about `Strings`, for every size of the
  buffer, set of lines, set of delimiters and even width of an int:
  * `StrTypeCorrect` (`StrTypeOK`) and `StrTokens` (`TokensAreWords`). The
    strengthening `StrInv` says where `strtok` goes on (`SearchesAt`): from
    there to its end the line is still as it was given, every word that begins
    before is among those returned, and those lie, with their terminating 0,
    before that place, which is why no later call spoils them. `SplitKeeps` is
    one call of `strtok`, `TokenIsNext` the branch that returns a token.
  * `StrMoves` (`MovesSnapshot`): after `k` of its bytes, in the order that
    `Order` gives them, `memmove` has copied exactly those (`MoveCopies`), and
    has not yet written to any byte it is still to read.
  * `StrNumbers` (`NumbersReadBack`): `Writes` says of a numeral that it
    denotes its number exactly, and that `atoi`'s loop, which wraps around,
    ends with that number wrapped. One more digit keeps it (`WritesOneMore`),
    because the number in front of the digit is still an int; the last step
    alone may wrap, and does for the least int, whose negation wraps back.
* `HeapProofs`, for every heap size that is a multiple of 4, every word and
  every set of sizes: `TypeCorrect` and `AllocatorCorrect` (`BlocksDisjoint`).
  The strengthening adds the order of the blocks and that every one ends at or
  before `heap_pos` (`Ordered`, `Packed`), which holds because `kfree` never
  finds a block at `heap[heap_pos - 1]`. The lemmas at the top of the module say what
  the rounding of line 29 computes when nothing wraps; three other modules
  instantiate it for them.
* `VfsProofs`, for every number of descriptors, word, path, flag, size and
  offset, and every set of callbacks:
  * `TypeCorrect` and `TableIsHeld` (`HeldIsUsed`), which are inductive
    together: the table keeps its shape because calls are only let through to
    entries in use, and `HeldIsUsed` is about that table.
  * `Independence`: `DescriptorsIndependent`; `open` takes the first free entry,
    and `HeldIsUsed` says that no client holds it.
  * `ErrorsLeaveNoTrace`: `FailureChangesNothing`, under the assumption that no
    client asks for `Word - 1` bytes: the answer to such a transfer, when it
    succeeds, reads as -1.
* `MemFsProofs`, for every set of files, heap, word, offset and size:
  `TypeCorrect`, `NodesBehind` (`LengthNeverAhead`), `WritesStayApart`
  (`OthersUntouched`) and `FilesStored`, that `memfs_read` and `memfs_write`
  implement `FileStore`. The strengthening of the last two, `Layout`, says
  that every file lies in a block of its own below `heap_pos`, apart from all
  others (`WithinHeap`, `Apart`), and that what the heap has not given out yet
  is still zero (`Clean`): this is why a hole reads as zero although nothing
  clears a block. A refused block keeps `Layout` as long as what goes to NULL
  ends in front of the kernel: the heap lies behind the kernel's first byte
  (`ImageAssumption`), so none of it lands there (`StaysLow`).
* `ShellProofs`, for every set of lines, aliases and file system:
  * `TypeCorrect` (`TypeOK`), which takes the descriptor table's part from
    the theorem of `VfsProofs` through an instance: every step of a command is
    a step of `Vfs`, or leaves the table alone.
  * `NoDescriptorLeaks` (`NothingHeldAtPrompt`). `HeldByCommand` says which
    descriptors are held at every other moment: `fd` alone while `cat` or
    `write` reads, writes or is about to close, and none otherwise.
  * `AliasesStand` (`AliasesAsPromised`): a search from the front finds what
    was given last because no name that fits ever has two entries (`AliasInv`);
    an entry that was made for a longer name reads as a longer name
    (`LongAssumption`), so no search for one that fits stops at it.
  * `OnlyOverflowResets` (`FaultsOnlyOnOverflow`): of all quotients of two
    ints whose divisor is not 0, one alone is no int.
  * `ShellIsClient`: the shell's specification implies that of `Vfs`, so its
    theorems, `DescriptorsIndependent` among them, hold under the shell.
* `TasksProofs`, for every heap, every size of a task and of a stack, and every
  set of other requests: `TypeCorrect` (the links lead to tasks),
  `TasksAreOneRing` (`OneRing`), `MemoryIsOwned` (`TasksOwnMemory`) and
  `NoStackAfterNone` (`StacksRunOut`). The strengthening says where the next
  block comes from: all blocks end at or before `heap_pos`, and once a task
  has no stack, the heap has no room for one (`NoRoomForStack`). `OneRing` is
  part of it, stated by closed sets of tasks: a set that `next` does not lead
  out of after a creation holds the new task, and without it is one that
  `next` did not lead out of before.
* `KernelProofs`, for every heap with room for both passes of the set-up
  (`RoomAssumption`) and any number of interrupts: `TypeCorrect`,
  `WritesOwnMemory` (`BootWritesOwnMemory`) and `GatesFirst`
  (`UngatedOnlyBeforeLidt`, with `SetUpSoFar`, which says how far the mask and
  the gates are at each label). `BootWritesOwnMemory` looks back at what was written;
  the strengthening `Budget` looks ahead: what is left of the heap is enough
  for every request still to come, so no answer that the boot leaves untested
  is NULL. The four megabytes of blocks may be refused, and are not written.
* `LineEditorProofs`, for every size of the line, of the history and of the
  screen, all names of commands, and every prompt and output:
  * `LineEndsAtPosition` (`EndsAtPosition`), `WalkFindsCommands`
    (`RecallsCommands`) and `LinesFit`, which says that every line and every
    entry of the history leaves room for its 0. The invariant `IInv` bounds
    lines and history together, since each is copied into the other, and says
    that every entry before `history_pos` is filled.
  * `HistoryKeepsLog` (`HistoryIsLog`): the ring and its index implement
    `CommandLog`. `Packed` says that the empty entries, read from
    `history_pos` on, come first; then `show_history` lists the rest, and a
    new command either takes the place of an empty entry or of the oldest.
  * `RowShowsTheLine` (`ShowsTheLine`) and `TypeCorrect` (`TypeOK`), with
    `ScreenInv`: the screen is `Good`, its cursor on it and the rows below the
    cursor blank, so that a line feed always leads to a blank row; and
    while the line fits, the screen is one that shows the prompt, the line
    and nothing else (`Upto`). One lemma for each kind of character says what
    it makes of such a screen, and `WriteInduction` carries that from
    characters to strings: to an output, to a text that continues the line,
    and to the backspaces and blanks that wipe it.

The assumptions are the named `ASSUME`s of the modules: positive sizes; a heap
that is a multiple of 4 and smaller than the word by more than 3; in `Tasks`
and `Kernel`, requests that do not wrap around on this heap; in `MemFs`, a heap
behind the kernel's first byte and below 2^32, and a node smaller than the
memory in front of the kernel; distinct names for the root, the files and
NULL, and a tree whose directories hold files; default aliases with distinct
names that fit; a name that is too long still too long once a command is
copied behind its first 32 characters; prompts of printable characters, and outputs that end their
last row; for `Strings`, lines and delimiters that are characters, an int with
an even number of values, and a buffer that has room for every numeral. The
constants of the build satisfy them.

Where a definition recurs (`terminal_writestring`, `show_history`, `memmove`,
`itoa`, `atoi`), the models state it as a recursive function on an interval.
The library's induction theorems take an operator and cannot be instantiated
here, so the proofs take sets instead: `Induction` of `InputProofs` says that a
set that has 0, and every number whose smaller ones it has, has them all, and
`RecursionExists` that such a recursion has a solution, which is what the
`CHOOSE` behind a recursive function needs; both come from the library's
theorem that `<` is well founded.

Only model-checked: the liveness properties (`GetcharCompletes`,
`EveryCommandEnds`), since liveness under fairness and `ENABLED` are out of the
prover's reach; and the three runs that expect a violation. Of the first of
the two, the part that is about the code is proved, the variant
`GetcharAdvances`: what TLC adds is that a step is possible as long as the
variant is not used up, and that fairness then has it taken.

## 5. Divergences

The first three have a run that shows them violating what the code or the
readme says; the models show the others.

* A key stored after the shift loop's last test (`interrupts.c:79`) and before
  the load of `key_buffer_pos--` (82) is counted, but its slot was not shifted:
  the next call returns the first key again and never the new one. An atomic
  decrement would not help. A key stored between that load and the store is
  lost, which takes a third key to show; `LossBounded` covers both.
* A key between the test and the `hlt` is not noticed until the next keyboard
  interrupt, at the earliest the release of that key (`interrupts.c:75-76`).
* The boot never executes `sti`; `kernel_status.interrupts_enabled` only
  records the intention (`kernel.c:85`). The readme says "Interrupt-driven
  input handling".
* `vfs_mount`'s local `fs_root` shadows the global: the mounted root is copied
  onto itself (`vfs.c:66-75`). Hence the kernel runs with a root without
  callbacks, and `fs_test` ends at its first `open`.
* `read` tests `flags & O_RDONLY`, and `O_RDONLY` is 0 (`vfs.c:242`): only
  `O_RDWR` reads. On any file system, `cat` shows nothing, against "Display
  file contents" (`shell.c:308`), and `fs_test` could not read back what it
  wrote (`fs_test.c:46-61`).
* `init_interrupts` lets lines through before it loads the IDT
  (`interrupts.c:49`, `57`, `63`). It is harmless because the CPU takes no
  interrupt then.
* The timer's line stays masked (`interrupts.c:57` against `kernel.c:76`).
* `kfree` compares with `&heap[heap_pos - 1]`, where no block starts: the
  "reset if at end" of `memory.c:34` never happens.
* `lseek` to a negative position moves and returns the error value
  (`vfs.c:302`).
* The arrows: `shell.c:605` and `622` compare characters with the arrows'
  scancodes, and `scancode_to_ascii` yields neither 72 nor 80, so the "Navigate
  with arrow keys" of the readme is out of the keyboard's reach.
* An alias that stands for `exit`, or `exit` typed with a blank before it,
  says goodbye and stays; a bare `exit` that is itself an alias runs the other
  command and leaves (`shell.c:688-689`).
* A full alias table refuses also a new command for a name it has
  (`shell.c:98`). An alias replaces the whole line, arguments included, and
  is resolved once.
* `add_alias` does not look at the length of a name (`shell.c:112`): one of 32
  characters or more is accepted and never found under that name. Giving it
  again adds another entry, until the table is full.
* `calc` tests for a divisor of 0, and not for the least int divided by -1: the
  processor's fault has no gate, and the machine resets (`shell.c:254`).
* `cat`, `touch` and `write` leave the exit code 0 when they fail; `cd` without
  a name looks up `/` below the root, and fails.
* `create_task` does not test its stack (`kernel.c:235`); a task that never ran
  has no context to switch to, and `timer_callback` leaves an interrupt with
  `ret` (`kernel.c:28`). Nothing in the kernel calls `create_task` or `yield`.
* Every `memfs_finddir` takes a node from the heap that nobody gives back
  (`memfs.c:218`). `memfs_write` does not test `kmalloc`'s answer
  (`memfs.c:156`): it then copies to NULL and NULL + offset (160, 168), which
  are physical addresses, and behind 0x1000 they are the kernel and its heap.
  Near 2^32 its sums wrap.
* `SEEK_END` goes by the length a node had when it was looked up
  (`vfs.c:295`), and overwrites what was written since.
* `printk` hands `%u` to `itoa` as an int: values from 2^31 on print as
  negative numbers (`terminal.c:131-135`; read from the code, in no model).

## 6. Assumptions and what is not modelled

The models start where the boot loader hands over: interrupts off, the image
loaded in full, the variables with static storage zero. The last is C's rule:
neither `boot.asm` nor `entry.asm` clears `.bss`, so it is as the memory was
found. Whether the loader's 32 sectors, 16 KB, cover the image depends on the
build (with the Makefile's flags, gcc's text and data alone may be more), and
is not modelled either.

What a write through NULL makes of the kernel outside its heap is not
modelled, nor is what a switch to a task without context runs into.

Not modelled, and why: the boot loader and `entry.asm` (a straight line of
hardware set-up); port I/O and the speaker (no state to reason about);
`printk`'s formatting, colours, banners and help texts; `detect_memory` (a
constant); `vfs_readdir`, `memfs_readdir`, `memfs_open` and `memfs_close`
(they change nothing); `kernel_panic`, which nothing calls, and the status
getters; the string functions that are one loop with an obvious result
(`memset`, `memcpy`, `strlen`, the comparisons and searches), which the models
use by that result; headers.

## 7. Plan

In this order:

1. `MemFs` in the place of the open driver of `Vfs`, so that positions, lengths
   and contents are checked together.
