-------------------------------- MODULE Tasks --------------------------------
(***************************************************************************)
(* The tasks of kernel/kernel.c: the ring that create_task builds on the   *)
(* heap, which others use too, and the switch that yield makes through     *)
(* timer_callback.  A task is known by its place in the order of creation. *)
(* Interrupts are off throughout (see Kernel): nothing comes in between.   *)
(***************************************************************************)
EXTENDS Allocator, Sequences

CONSTANTS
  TaskSize,   \* sizeof(task_t), 20 in the build
  StackSize,  \* 4096 in the code
  Others,     \* the sizes that the rest of the kernel asks the heap for
  NULL        \* the answer of a kmalloc that has no room

(* No request of the kernel comes near to wrapping around.                 *)
ASSUME TaskSizesAssumption ==
  \A size \in {TaskSize, StackSize} \cup Others :
    size \in Nat \ {0} /\ HEAP_SIZE + size + 3 < Word
ASSUME NullAssumption == NULL \notin 0 .. HEAP_SIZE

VARIABLES
  pc,                \* "boot", "running", "halted" or, after a switch, "lost"
  scheduler_active,
  heap_pos,
  tasks,             \* the task_t's, oldest first
  task_queue, current_task,
  next_task_id,
  saved,             \* history: the tasks whose esp a switch has stored
  used               \* history: what the others were given

vars == <<pc, scheduler_active, heap_pos, tasks, task_queue, current_task,
          next_task_id, saved, used>>

None == 0  \* NULL, as a task

Init ==
  /\ pc = "boot" /\ scheduler_active = FALSE
  /\ heap_pos = 0
  /\ tasks = <<>> /\ task_queue = None /\ current_task = None
  /\ next_task_id = 1
  /\ saved = {} /\ used = {}

-----------------------------------------------------------------------------
(* kmalloc: the block, and heap_pos after it.                              *)
Given(pos, size) == IF Fits(pos, size) THEN pos ELSE NULL

(* A plausible bug: a full heap starts over. *)
After_StartsOver(pos, size) == IF Fits(pos, size) THEN Bump(pos, size) ELSE 0

After(pos, size) == IF Fits(pos, size) THEN Bump(pos, size) ELSE pos

(* Without a task, no scheduler.                                           *)
init_scheduler ==
  /\ pc = "boot" /\ pc' = "running"
  /\ heap_pos' = After(heap_pos, TaskSize)
  /\ IF Given(heap_pos, TaskSize) = NULL
       THEN UNCHANGED <<tasks, task_queue, current_task, next_task_id, scheduler_active>>
       ELSE /\ tasks' = << [at |-> heap_pos, id |-> next_task_id, next |-> 1,
                            stack |-> NULL] >>
            /\ task_queue' = 1 /\ current_task' = 1
            /\ next_task_id' = next_task_id + 1
            /\ scheduler_active' = TRUE
  /\ UNCHANGED <<saved, used>>

(* The rest of the kernel allocates, before and after.                     *)
Allocate(size) ==
  /\ pc \in {"boot", "running"} /\ Fits(heap_pos, size)
  /\ heap_pos' = Bump(heap_pos, size)
  /\ used' = used \cup {[ptr |-> heap_pos, size |-> size]}
  /\ UNCHANGED <<pc, scheduler_active, tasks, task_queue, current_task,
                 next_task_id, saved>>

(* A plausible bug: the new task takes the place of the others. *)
Linked_DropsOthers(task) ==
  Append([tasks EXCEPT ![task_queue].next = Len(tasks) + 1],
         [task EXCEPT !.next = task_queue])

(* The new task comes right after the head of the queue.                   *)
Linked(task) ==
  Append([tasks EXCEPT ![task_queue].next = Len(tasks) + 1],
         [task EXCEPT !.next = tasks[task_queue].next])

(* A plausible bug: the stack is taken from where the task was. *)
StackFrom_Task(pos) == pos

(* heap_pos when the stack is asked for.                                   *)
StackFrom(pos) == After(pos, TaskSize)

(* The stack's answer is not tested: a task without one is queued as well, *)
(* with an esp of 4096.                                                    *)
create_task ==
  /\ pc = "running" /\ scheduler_active
  /\ Given(heap_pos, TaskSize) # NULL
  /\ LET pos == StackFrom(heap_pos)
     IN  /\ tasks' = Linked([at |-> heap_pos, id |-> next_task_id, next |-> None,
                             stack |-> Given(pos, StackSize)])
         /\ heap_pos' = After(pos, StackSize)
  /\ next_task_id' = next_task_id + 1
  /\ UNCHANGED <<pc, scheduler_active, task_queue, current_task, saved, used>>

(* A plausible bug: the id is taken before the tests. *)
create_task_Refused_TakesId ==
  /\ pc = "running"
  /\ ~ scheduler_active \/ Given(heap_pos, TaskSize) = NULL
  /\ next_task_id' = next_task_id + 1
  /\ UNCHANGED <<pc, scheduler_active, heap_pos, tasks, task_queue, current_task,
                 saved, used>>

create_task_Refused ==
  /\ pc = "running"
  /\ ~ scheduler_active \/ Given(heap_pos, TaskSize) = NULL
  /\ UNCHANGED vars

(***************************************************************************)
(* timer_callback is no handler: it returns from int 0x20 with ret, and    *)
(* leaves two words on the stack that yield knows nothing of, over which   *)
(* it may or may not stumble, as the build has it.  A task that never ran  *)
(* has saved nothing to return to at all.                                  *)
(***************************************************************************)
timer_callback ==
  /\ saved' = saved \cup {current_task}
  /\ current_task' = tasks[current_task].next
  /\ pc' \in IF current_task' \in saved' THEN {"running", "lost"} ELSE {"lost"}
  /\ UNCHANGED <<scheduler_active, heap_pos, tasks, task_queue, next_task_id, used>>

yield ==
  /\ pc = "running"
  /\ IF scheduler_active THEN timer_callback ELSE UNCHANGED vars

(* kfree gives nothing back (Heap), and is asked for one task only.        *)
kernel_shutdown ==
  /\ pc = "running" /\ pc' = "halted"
  /\ scheduler_active' = FALSE
  /\ UNCHANGED <<heap_pos, tasks, task_queue, current_task, next_task_id, saved, used>>

Next ==
  \/ init_scheduler \/ create_task \/ create_task_Refused \/ yield \/ kernel_shutdown
  \/ \E size \in Others : Allocate(size)

Spec == Init /\ [][Next]_vars

-----------------------------------------------------------------------------
Address == 0 .. HEAP_SIZE - 1

TypeOK ==
  /\ pc \in {"boot", "running", "lost", "halted"}
  /\ scheduler_active \in BOOLEAN
  /\ heap_pos \in 0 .. HEAP_SIZE
  /\ \A t \in DOMAIN tasks :
       tasks[t] \in [at : Address, id : Nat \ {0}, next : DOMAIN tasks,
                     stack : Address \cup {NULL}]
  /\ task_queue \in DOMAIN tasks \cup {None}
  /\ current_task \in DOMAIN tasks \cup {None}
  /\ next_task_id = Len(tasks) + 1
  /\ saved \subseteq DOMAIN tasks
  /\ scheduler_active => current_task # None /\ task_queue # None

(***************************************************************************)
(* Whenever tasks are created, before or after switches and whatever       *)
(* kmalloc has answered (lines 220-248), the tasks are one ring: the only  *)
(* tasks that next does not lead out of are all of them, so that a round   *)
(* of switches (line 43), wherever it starts, would leave none out.        *)
(***************************************************************************)
OneRing ==
  \A S \in SUBSET DOMAIN tasks :
    S # {} /\ (\A t \in S : tasks[t].next \in S) => S = DOMAIN tasks

Blocks ==
  {[ptr |-> tasks[t].at, size |-> TaskSize, of |-> t] : t \in DOMAIN tasks} \cup
  {[ptr |-> tasks[t].stack, size |-> StackSize, of |-> -t] :
     t \in {u \in DOMAIN tasks : tasks[u].stack # NULL}} \cup
  {[ptr |-> b.ptr, size |-> b.size, of |-> None] : b \in used}

(***************************************************************************)
(* Tasks and the stacks they were given (lines 226-236) lie inside the     *)
(* heap and overlap neither each other nor what the rest of the kernel was *)
(* given, also around the request that finds no room.                      *)
(***************************************************************************)
TasksOwnMemory ==
  /\ \A b \in Blocks : b.ptr + b.size <= HEAP_SIZE
  /\ \A b, d \in Blocks :
       b # d => b.ptr + b.size <= d.ptr \/ d.ptr + d.size <= b.ptr

(***************************************************************************)
(* create_task does not test the second kmalloc (line 235).  How bad it    *)
(* gets: after the first task without a stack, every task is without one,  *)
(* and all of them start at the same address.  Task 1 has the boot's.      *)
(***************************************************************************)
StacksRunOut ==
  \A t, u \in 2 .. Len(tasks) :
    t < u /\ tasks[t].stack = NULL => tasks[u].stack = NULL
=============================================================================
