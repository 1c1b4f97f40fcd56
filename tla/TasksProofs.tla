---------------------------- MODULE TasksProofs ----------------------------
(***************************************************************************)
(* Proofs about Tasks, for every heap size, size of a task and of a stack, *)
(* and every set of requests of the rest of the kernel.                    *)
(***************************************************************************)
EXTENDS Tasks, TLAPS

Requests == {TaskSize, StackSize} \cup Others

(***************************************************************************)
(* The lemmas of HeapProofs about the heap's arithmetic.  They mention none*)
(* of its variables, for which any values will do.                         *)
(***************************************************************************)
H == INSTANCE HeapProofs WITH Sizes <- Requests, MaxRequests <- 0, blocks <- <<>>,
                              freed <- {}, wrapped <- FALSE

LEMMA HeapAssumptions ==
  /\ H!HeapSizeAssumption /\ H!WordAssumption
  /\ H!SizesAssumption /\ H!MaxRequestsAssumption
<1>1. \A size \in Requests : size \in 0 .. Word - 1
  BY TaskSizesAssumption, HeapSizeAssumption, WordAssumption DEF Requests
<1> QED
  BY <1>1, HeapSizeAssumption, WordAssumption
     DEF H!HeapSizeAssumption, H!WordAssumption, H!SizesAssumption, H!MaxRequestsAssumption

(* The remainder of a number that the word holds. *)
LEMMA Unwrapped == \A x \in Nat : x < Word => x % Word = x
  BY WordAssumption

Task == [at : Address, id : Nat \ {0}, next : Nat, stack : Address \cup {NULL}]

(* Blocks in B end at or before pos, and do not overlap.                   *)
EndBy(B, pos) ==
  \A b \in B : b.ptr \in Nat /\ b.size \in Nat \ {0} /\ b.ptr + b.size <= pos

Disjoint(B) ==
  \A b, d \in B : b # d => b.ptr + b.size <= d.ptr \/ d.ptr + d.size <= b.ptr

(* Once a task has no stack, the heap has no room for one.                 *)
NoRoomForStack ==
  (\E t \in 2 .. Len(tasks) : tasks[t].stack = NULL) => heap_pos + StackSize > HEAP_SIZE

(***************************************************************************)
(* The inductive invariant.  TasksOwnMemory speaks of the blocks there     *)
(* are, and StacksRunOut of the tasks there are; where the next ones come  *)
(* from is heap_pos, which EndBy and NoRoomForStack relate to them.        *)
(***************************************************************************)
Shape ==
  /\ tasks \in Seq(Task)
  /\ used \subseteq [ptr : Nat, size : Nat \ {0}]
  /\ heap_pos % 4 = 0
  /\ pc = "boot" => tasks = <<>> /\ ~ scheduler_active

IInv ==
  /\ TypeOK /\ Shape
  /\ EndBy(Blocks, heap_pos) /\ Disjoint(Blocks)
  /\ NoRoomForStack /\ StacksRunOut
  /\ OneRing

-----------------------------------------------------------------------------
(* What a request finds, at a heap_pos that is inside the heap.            *)
LEMMA RequestAnswer ==
  ASSUME NEW pos \in 0 .. HEAP_SIZE, pos % 4 = 0, NEW size \in Requests
  PROVE  /\ After(pos, size) \in 0 .. HEAP_SIZE /\ After(pos, size) % 4 = 0
         /\ pos <= After(pos, size)
         /\ Fits(pos, size) =>
              /\ Given(pos, size) = pos /\ pos \in Address
              /\ pos + size <= After(pos, size) /\ Bump(pos, size) = After(pos, size)
         /\ ~ Fits(pos, size) =>
              /\ Given(pos, size) = NULL /\ pos + size > HEAP_SIZE
              /\ After(pos, size) = pos
<1>1. size \in Nat \ {0} /\ HEAP_SIZE + size + 3 < Word
  BY TaskSizesAssumption DEF Requests
<1>2. size \in 0 .. Word - 1 /\ ~ Wraps(pos, size) /\ pos + size < Word
  BY <1>1, HeapSizeAssumption, WordAssumption DEF Wraps
<1>3. CASE Fits(pos, size)
  <2>1. /\ pos + size <= HEAP_SIZE
        /\ Bump(pos, size) \in 0 .. HEAP_SIZE /\ Bump(pos, size) % 4 = 0
        /\ Bump(pos, size) - (pos + size) \in 0 .. 3
    BY <1>2, <1>3, HeapAssumptions, H!BumpExact
       DEF Fits, Wraps, Bump, Align4, H!Fits, H!Wraps, H!Bump, H!Align4
  <2>2. pos + size <= Bump(pos, size) /\ pos <= Bump(pos, size)
    BY <1>1, <2>1, HeapSizeAssumption
  <2>3. pos \in Address
    BY <1>1, <2>1, HeapSizeAssumption DEF Address
  <2> QED
    BY <1>3, <2>1, <2>2, <2>3 DEF Given, After
<1>4. CASE ~ Fits(pos, size)
  <2>1. (pos + size) % Word = pos + size
    BY <1>1, <1>2, HeapSizeAssumption, Unwrapped
  <2>2. pos + size > HEAP_SIZE
    BY <1>1, <1>4, <2>1, HeapSizeAssumption DEF Fits
  <2> QED
    BY <1>4, <2>2 DEF Given, After
<1> QED
  BY <1>3, <1>4

(* A block cut at the end of the others touches none of them.              *)
LEMMA AddBlock ==
  ASSUME NEW B, NEW pos \in Nat, NEW q \in Nat, NEW b, EndBy(B, pos), Disjoint(B),
         b.ptr = pos, b.size \in Nat \ {0}, pos + b.size <= q
  PROVE  EndBy(B \cup {b}, q) /\ Disjoint(B \cup {b})
<1>1. pos <= q
  BY DEF EndBy
<1>2. EndBy(B \cup {b}, q)
  BY <1>1 DEF EndBy
<1>3. \A d \in B : d.ptr + d.size <= b.ptr
  BY DEF EndBy
<1>4. Disjoint(B \cup {b})
  BY <1>3 DEF Disjoint
<1> QED
  BY <1>2, <1>4

LEMMA FewerBlocks ==
  ASSUME NEW B, NEW C, NEW pos \in Nat, NEW q \in Nat, C \subseteq B, pos <= q,
         EndBy(B, pos), Disjoint(B)
  PROVE  EndBy(C, q) /\ Disjoint(C)
BY DEF EndBy, Disjoint

(* The blocks belong to the tasks and to what the others were given.       *)
TaskBlock(t)  == [ptr |-> tasks[t].at, size |-> TaskSize, of |-> t]
StackBlock(t) == [ptr |-> tasks[t].stack, size |-> StackSize, of |-> -t]

OtherBlock(u) == [ptr |-> u.ptr, size |-> u.size, of |-> None]

LEMMA OneMoreBlock ==
  ASSUME NEW U, NEW x
  PROVE  {OtherBlock(u) : u \in U \cup {x}} = {OtherBlock(u) : u \in U} \cup {OtherBlock(x)}
OBVIOUS

(* A task in a queue of n, whose next may change, is one in a longer queue. *)
LEMMA LongerQueue ==
  ASSUME NEW A, NEW S, NEW n \in Nat,
         NEW r \in [at : A, id : Nat \ {0}, next : 1 .. n, stack : S]
  PROVE  /\ r \in [at : A, id : Nat \ {0}, next : 1 .. n + 1, stack : S]
         /\ [r EXCEPT !.next = n + 1] \in
              [at : A, id : Nat \ {0}, next : 1 .. n + 1, stack : S]
<1>1. n + 1 \in 1 .. n + 1 /\ 1 .. n \subseteq 1 .. n + 1
  OBVIOUS
<1> QED
  BY <1>1

LEMMA SameBlocks == ASSUME UNCHANGED <<tasks, used>> PROVE Blocks' = Blocks
BY DEF Blocks

-----------------------------------------------------------------------------
LEMMA InitIInv == Init => IInv
<1> SUFFICES ASSUME Init PROVE IInv
  OBVIOUS
<1>1. tasks = <<>> /\ used = {} /\ heap_pos = 0 /\ pc = "boot" /\ ~ scheduler_active
  BY DEF Init
<1>2. DOMAIN tasks = {} /\ Len(tasks) = 0
  BY <1>1
<1>3. TypeOK
  <2>1. heap_pos \in 0 .. HEAP_SIZE
    BY <1>1, HeapSizeAssumption
  <2>2. next_task_id = Len(tasks) + 1
    BY <1>2 DEF Init
  <2> QED
    BY <1>1, <1>2, <2>1, <2>2 DEF Init, TypeOK
<1>4. Shape
  BY <1>1 DEF Shape
<1>5. Blocks = {}
  BY <1>1, <1>2 DEF Blocks
<1>6. EndBy(Blocks, heap_pos) /\ Disjoint(Blocks)
  BY <1>5 DEF EndBy, Disjoint
<1>7. NoRoomForStack /\ StacksRunOut
  BY <1>2 DEF NoRoomForStack, StacksRunOut
<1>8. OneRing
  BY <1>2 DEF OneRing
<1> QED
  BY <1>3, <1>4, <1>6, <1>7, <1>8 DEF IInv

(* Steps that leave the heap and the tasks alone.                          *)
LEMMA QuietKeepsIInv ==
  ASSUME IInv, UNCHANGED <<heap_pos, tasks, used>>, TypeOK', pc' # "boot"
  PROVE  IInv'
<1>1. Blocks' = Blocks
  BY SameBlocks
<1>2. Shape'
  BY DEF IInv, Shape
<1>3. EndBy(Blocks, heap_pos)' /\ Disjoint(Blocks)'
  BY <1>1 DEF IInv, EndBy, Disjoint
<1>4. NoRoomForStack' /\ StacksRunOut'
  BY DEF IInv, NoRoomForStack, StacksRunOut
<1>5. OneRing'
  BY DEF IInv, OneRing
<1> QED
  BY <1>2, <1>3, <1>4, <1>5 DEF IInv

LEMMA YieldKeepsIInv ==
  ASSUME IInv, pc = "running", scheduler_active, timer_callback PROVE IInv'
<1>1. current_task \in DOMAIN tasks
  BY DEF IInv, TypeOK
<1>2. tasks[current_task].next \in DOMAIN tasks
  BY <1>1 DEF IInv, TypeOK
<1>3. pc' \in {"running", "lost"}
  BY DEF timer_callback
<1>4. current_task' \in DOMAIN tasks /\ current_task' # None
  <2>1. None \notin DOMAIN tasks
    BY DEF IInv, Shape, None
  <2> QED
    BY <1>2, <2>1 DEF timer_callback
<1>5. TypeOK'
  BY <1>1, <1>3, <1>4 DEF timer_callback, IInv, TypeOK
<1> QED
  BY <1>3, <1>5, QuietKeepsIInv DEF timer_callback

LEMMA ShutdownKeepsIInv == ASSUME IInv, kernel_shutdown PROVE IInv'
<1>1. TypeOK'
  BY DEF kernel_shutdown, IInv, TypeOK
<1> QED
  BY <1>1, QuietKeepsIInv DEF kernel_shutdown

LEMMA AllocateKeepsIInv ==
  ASSUME IInv, NEW size \in Others, Allocate(size) PROVE IInv'
<1> DEFINE b == [ptr |-> heap_pos, size |-> size, of |-> None]
<1>1. size \in Requests /\ size \in Nat \ {0}
  BY TaskSizesAssumption DEF Requests
<1>2. heap_pos \in 0 .. HEAP_SIZE /\ heap_pos % 4 = 0 /\ heap_pos \in Nat
  BY HeapSizeAssumption DEF IInv, TypeOK, Shape
<1>3. /\ heap_pos' \in 0 .. HEAP_SIZE /\ heap_pos' % 4 = 0
      /\ heap_pos <= heap_pos' /\ heap_pos + size <= heap_pos'
  BY <1>1, <1>2, RequestAnswer DEF Allocate
<1>4. heap_pos' \in Nat
  BY <1>3, HeapSizeAssumption
<1>5. Blocks' = Blocks \cup {b}
  <2>1. used' = used \cup {[ptr |-> heap_pos, size |-> size]} /\ tasks' = tasks
    BY DEF Allocate
  <2>2. {[ptr |-> u.ptr, size |-> u.size, of |-> None] : u \in used'} =
          {[ptr |-> u.ptr, size |-> u.size, of |-> None] : u \in used} \cup {b}
    <3> DEFINE x == [ptr |-> heap_pos, size |-> size]
    <3>1. b = OtherBlock(x)
      BY DEF OtherBlock
    <3>2. {OtherBlock(u) : u \in used \cup {x}} = {OtherBlock(u) : u \in used} \cup {OtherBlock(x)}
      BY OneMoreBlock
    <3> HIDE DEF b
    <3> QED
      BY <2>1, <3>1, <3>2 DEF OtherBlock
  <2> QED
    BY <2>1, <2>2 DEF Blocks
<1>6. EndBy(Blocks, heap_pos)' /\ Disjoint(Blocks)'
  <2>1. EndBy(Blocks \cup {b}, heap_pos') /\ Disjoint(Blocks \cup {b})
    BY <1>1, <1>2, <1>3, <1>4, AddBlock DEF IInv
  <2> QED
    BY <1>5, <2>1 DEF EndBy, Disjoint
<1>7. TypeOK'
  BY <1>3 DEF Allocate, IInv, TypeOK
<1>8. Shape'
  BY <1>1, <1>2, <1>3 DEF Allocate, IInv, Shape
<1>9. NoRoomForStack' /\ StacksRunOut'
  <2>1. StackSize \in Nat
    BY TaskSizesAssumption
  <2>2. heap_pos + StackSize > HEAP_SIZE => heap_pos' + StackSize > HEAP_SIZE
    <3>1. \A p, q, z, h \in Nat : p <= q /\ p + z > h => q + z > h
      OBVIOUS
    <3> QED
      BY <1>2, <1>3, <1>4, <2>1, <3>1, HeapSizeAssumption
  <2> QED
    BY <2>2 DEF Allocate, IInv, NoRoomForStack, StacksRunOut
<1>10. OneRing'
  BY DEF Allocate, IInv, OneRing
<1> QED
  BY <1>6, <1>7, <1>8, <1>9, <1>10 DEF IInv

LEMMA SchedulerKeepsIInv == ASSUME IInv, init_scheduler PROVE IInv'
<1> DEFINE task == [at |-> heap_pos, id |-> next_task_id, next |-> 1, stack |-> NULL]
<1>1. TaskSize \in Requests /\ TaskSize \in Nat \ {0} /\ StackSize \in Nat
  BY TaskSizesAssumption DEF Requests
<1>2. heap_pos \in 0 .. HEAP_SIZE /\ heap_pos % 4 = 0 /\ heap_pos \in Nat
  BY HeapSizeAssumption DEF IInv, TypeOK, Shape
<1>3. tasks = <<>> /\ Len(tasks) = 0 /\ ~ scheduler_active /\ next_task_id = 1
  BY DEF init_scheduler, IInv, TypeOK, Shape
<1>4. heap_pos' \in 0 .. HEAP_SIZE /\ heap_pos' % 4 = 0 /\ heap_pos' \in Nat
  BY <1>1, <1>2, RequestAnswer, HeapSizeAssumption DEF init_scheduler
<1>5. CASE ~ Fits(heap_pos, TaskSize)
  <2>1. heap_pos' = heap_pos /\ UNCHANGED <<tasks, used>>
    BY <1>1, <1>2, <1>5, RequestAnswer DEF init_scheduler
  <2>2. UNCHANGED <<task_queue, current_task, next_task_id, scheduler_active, saved>>
    BY <1>5 DEF init_scheduler, Given
  <2>3. TypeOK' /\ pc' # "boot"
    BY <2>1, <2>2 DEF init_scheduler, IInv, TypeOK
  <2> QED
    BY <2>1, <2>3, QuietKeepsIInv
<1>6. CASE Fits(heap_pos, TaskSize)
  <2> DEFINE b == [ptr |-> heap_pos, size |-> TaskSize, of |-> 1]
  <2>1. heap_pos \in Address /\ heap_pos + TaskSize <= heap_pos'
    BY <1>1, <1>2, <1>6, RequestAnswer DEF init_scheduler
  <2>2. heap_pos # NULL
    BY <1>2, NullAssumption
  <2>3. /\ tasks' = <<task>> /\ task_queue' = 1 /\ current_task' = 1
        /\ next_task_id' = 2 /\ scheduler_active' /\ pc' = "running"
        /\ UNCHANGED <<saved, used>>
    BY <1>3, <1>6, <2>2 DEF init_scheduler, Given
  <2>4. task \in Task
    BY <1>3, <2>1 DEF Task
  <2>5. Len(tasks') = 1 /\ DOMAIN tasks' = {1} /\ tasks'[1] = task
    BY <2>3
  <2>6. TypeOK'
    <3>1. tasks'[1] \in [at : Address, id : Nat \ {0}, next : DOMAIN tasks',
                         stack : Address \cup {NULL}]
      BY <1>3, <2>1, <2>5
    <3>2. saved = {}
      BY <1>3 DEF IInv, TypeOK
    <3> QED
      BY <1>4, <2>3, <2>5, <3>1, <3>2 DEF TypeOK, None
  <2>7. Shape'
    <3>1. tasks' \in Seq(Task)
      BY <2>3, <2>4
    <3> QED
      BY <1>4, <2>3, <3>1 DEF IInv, Shape
  <2>8. Blocks' \subseteq Blocks \cup {b}
    <3>1. Blocks' = {b} \cup {[ptr |-> u.ptr, size |-> u.size, of |-> None] : u \in used}
      BY <2>3, <2>5 DEF Blocks
    <3> QED
      BY <3>1 DEF Blocks
  <2>9. EndBy(Blocks \cup {b}, heap_pos') /\ Disjoint(Blocks \cup {b})
    BY <1>1, <1>2, <1>4, <2>1, AddBlock DEF IInv
  <2>10. EndBy(Blocks, heap_pos)' /\ Disjoint(Blocks)'
    BY <2>8, <2>9 DEF EndBy, Disjoint
  <2>11. NoRoomForStack' /\ StacksRunOut'
    BY <2>5 DEF NoRoomForStack, StacksRunOut
  <2>12. OneRing'
    BY <2>5 DEF OneRing
  <2> QED
    BY <2>6, <2>7, <2>10, <2>11, <2>12 DEF IInv
<1> QED
  BY <1>5, <1>6

-----------------------------------------------------------------------------
(* A queue with one more element.                                          *)
LEMMA AppendFacts ==
  ASSUME NEW S, NEW s \in Seq(S), NEW x \in S
  PROVE  /\ Append(s, x) \in Seq(S)
         /\ Len(Append(s, x)) = Len(s) + 1
         /\ DOMAIN Append(s, x) = 1 .. Len(s) + 1
         /\ Append(s, x)[Len(s) + 1] = x
         /\ \A t \in 1 .. Len(s) : Append(s, x)[t] = s[t]
OBVIOUS

(* A new task: its own block, then perhaps one for its stack.              *)
LEMMA CreateKeepsIInv == ASSUME IInv, create_task PROVE IInv'
<1> DEFINE pos  == After(heap_pos, TaskSize)
           n    == Len(tasks)
           task == [at |-> heap_pos, id |-> next_task_id, next |-> None,
                    stack |-> Given(pos, StackSize)]
           tb   == [ptr |-> heap_pos, size |-> TaskSize, of |-> n + 1]
           sb   == [ptr |-> pos, size |-> StackSize, of |-> -(n + 1)]
<1>1. /\ TaskSize \in Requests /\ TaskSize \in Nat \ {0}
      /\ StackSize \in Requests /\ StackSize \in Nat \ {0}
  BY TaskSizesAssumption DEF Requests
<1>2. heap_pos \in 0 .. HEAP_SIZE /\ heap_pos % 4 = 0 /\ heap_pos \in Nat
  BY HeapSizeAssumption DEF IInv, TypeOK, Shape
<1>3. Fits(heap_pos, TaskSize)
  BY DEF create_task, Given
<1>4. /\ pos \in 0 .. HEAP_SIZE /\ pos % 4 = 0 /\ pos \in Nat
      /\ heap_pos <= pos /\ heap_pos + TaskSize <= pos /\ heap_pos \in Address
  BY <1>1, <1>2, <1>3, RequestAnswer, HeapSizeAssumption
<1>5. heap_pos' = After(pos, StackSize)
  BY DEF create_task, StackFrom
<1>6. /\ heap_pos' \in 0 .. HEAP_SIZE /\ heap_pos' % 4 = 0 /\ heap_pos' \in Nat
      /\ pos <= heap_pos'
  BY <1>1, <1>4, <1>5, RequestAnswer, HeapSizeAssumption
<1>7. Given(pos, StackSize) \in Address \cup {NULL}
  BY <1>1, <1>4, RequestAnswer
<1>8. /\ n \in Nat /\ DOMAIN tasks = 1 .. n /\ task_queue \in 1 .. n
      /\ next_task_id = n + 1 /\ tasks[task_queue].next \in 1 .. n
  <2>1. tasks \in Seq(Task)
    BY DEF IInv, Shape
  <2>2. n \in Nat /\ DOMAIN tasks = 1 .. n
    BY <2>1
  <2>3. task_queue \in DOMAIN tasks \cup {None} /\ task_queue # None
    BY DEF create_task, IInv, TypeOK
  <2>4. tasks[task_queue].next \in DOMAIN tasks
    BY <2>3 DEF IInv, TypeOK
  <2>5. next_task_id = n + 1
    BY DEF IInv, TypeOK
  <2> QED
    BY <2>2, <2>3, <2>4, <2>5
<1>9. tasks' = Append([tasks EXCEPT ![task_queue].next = n + 1],
                      [task EXCEPT !.next = tasks[task_queue].next])
  BY DEF create_task, StackFrom, Linked
<1>10. /\ Len(tasks') = n + 1 /\ DOMAIN tasks' = 1 .. n + 1
       /\ tasks' \in Seq(Task)
       /\ tasks'[n + 1] = [task EXCEPT !.next = tasks[task_queue].next]
       /\ \A t \in 1 .. n :
            tasks'[t] = IF t = task_queue THEN [tasks[t] EXCEPT !.next = n + 1]
                                          ELSE tasks[t]
  <2>1. tasks \in Seq(Task)
    BY DEF IInv, Shape
  <2>2. [task EXCEPT !.next = tasks[task_queue].next] \in Task
    <3>1. next_task_id \in Nat \ {0} /\ tasks[task_queue].next \in Nat
      BY <1>8
    <3> QED
      BY <1>4, <1>7, <3>1 DEF Task
  <2>3. [tasks[task_queue] EXCEPT !.next = n + 1] \in Task
    <3>1. tasks[task_queue] \in Task /\ n + 1 \in Nat
      BY <1>8, <2>1
    <3> QED
      BY <3>1 DEF Task
  <2> DEFINE old == [tasks EXCEPT ![task_queue] = [tasks[task_queue] EXCEPT !.next = n + 1]]
  <2>4. old \in Seq(Task) /\ Len(old) = n
    BY <1>8, <2>1, <2>3
  <2>5. \A t \in 1 .. n :
          old[t] = IF t = task_queue THEN [tasks[t] EXCEPT !.next = n + 1] ELSE tasks[t]
    BY <1>8, <2>1
  <2>6. tasks' = Append(old, [task EXCEPT !.next = tasks[task_queue].next])
    BY <1>9
  <2> DEFINE last == [task EXCEPT !.next = tasks[task_queue].next]
  <2> HIDE DEF old
  <2>7. /\ tasks' \in Seq(Task) /\ Len(tasks') = n + 1 /\ DOMAIN tasks' = 1 .. n + 1
        /\ tasks'[n + 1] = last
        /\ \A t \in 1 .. n : tasks'[t] = old[t]
    <3> HIDE DEF task
    <3> QED
      BY <2>2, <2>4, <2>6, AppendFacts
  <2> QED
    BY <2>5, <2>7
<1>11. \A t \in 1 .. n : tasks'[t].at = tasks[t].at /\ tasks'[t].stack = tasks[t].stack
  <2>1. \A t \in 1 .. n : tasks[t] \in Task
    BY <1>8 DEF IInv, Shape
  <2> QED
    BY <1>10, <2>1 DEF Task
<1>12. tasks'[n + 1].at = heap_pos /\ tasks'[n + 1].stack = Given(pos, StackSize)
  BY <1>10
<1>13. UNCHANGED <<pc, scheduler_active, task_queue, current_task, saved, used>>
       /\ next_task_id' = n + 2
  BY <1>8 DEF create_task
<1>14. TypeOK'
  <2>1. ASSUME NEW t \in 1 .. n + 1
        PROVE  tasks'[t] \in [at : Address, id : Nat \ {0}, next : 1 .. n + 1,
                              stack : Address \cup {NULL}]
    <3>1. CASE t = n + 1
      BY <1>4, <1>7, <1>8, <1>10, <3>1
    <3>2. CASE t \in 1 .. n
      <4>1. tasks[t] \in [at : Address, id : Nat \ {0}, next : 1 .. n,
                          stack : Address \cup {NULL}]
        BY <1>8, <3>2 DEF IInv, TypeOK
      <4>2. /\ tasks[t] \in [at : Address, id : Nat \ {0}, next : 1 .. n + 1,
                             stack : Address \cup {NULL}]
            /\ [tasks[t] EXCEPT !.next = n + 1] \in
                 [at : Address, id : Nat \ {0}, next : 1 .. n + 1,
                  stack : Address \cup {NULL}]
        BY <1>8, <4>1, LongerQueue
      <4>3. tasks'[t] = IF t = task_queue THEN [tasks[t] EXCEPT !.next = n + 1] ELSE tasks[t]
        BY <1>10, <3>2
      <4> QED
        BY <4>2, <4>3, Zenon
    <3> QED
      BY <1>8, <3>1, <3>2
  <2>2. /\ pc' \in {"boot", "running", "lost", "halted"} /\ scheduler_active' \in BOOLEAN
        /\ task_queue' \in 1 .. n + 1 /\ task_queue' # None
        /\ current_task' \in 1 .. n + 1 \cup {None} /\ saved' \subseteq 1 .. n + 1
        /\ scheduler_active' => current_task' # None
    BY <1>8, <1>13 DEF IInv, TypeOK, None
  <2> HIDE DEF n
  <2> QED
    BY <1>6, <1>8, <1>10, <1>13, <2>1, <2>2 DEF TypeOK
<1>15. Shape'
  BY <1>6, <1>10, <1>13 DEF create_task, IInv, Shape
<1>16. EndBy(Blocks \cup {tb}, pos) /\ Disjoint(Blocks \cup {tb})
  BY <1>1, <1>2, <1>4, AddBlock DEF IInv
<1>17. ASSUME NEW b \in Blocks'
       PROVE  b \in Blocks \cup {tb} \/ (b = sb /\ Given(pos, StackSize) # NULL)
  <2>1. CASE \E t \in 1 .. n + 1 :
               b = [ptr |-> tasks'[t].at, size |-> TaskSize, of |-> t]
    <3>1. PICK t \in 1 .. n + 1 : b = [ptr |-> tasks'[t].at, size |-> TaskSize, of |-> t]
      BY <2>1
    <3>2. CASE t = n + 1
      BY <1>12, <3>1, <3>2
    <3>3. CASE t \in 1 .. n
      BY <1>8, <1>11, <3>1, <3>3 DEF Blocks
    <3> QED
      BY <1>8, <3>2, <3>3
  <2>2. CASE \E t \in 1 .. n + 1 :
               tasks'[t].stack # NULL /\
               b = [ptr |-> tasks'[t].stack, size |-> StackSize, of |-> -t]
    <3>1. PICK t \in 1 .. n + 1 :
            tasks'[t].stack # NULL /\
            b = [ptr |-> tasks'[t].stack, size |-> StackSize, of |-> -t]
      BY <2>2
    <3>2. CASE t = n + 1
      <4>1. Given(pos, StackSize) # NULL
        BY <1>12, <3>1, <3>2
      <4>2. Given(pos, StackSize) = pos
        BY <4>1 DEF Given
      <4> QED
        BY <1>12, <3>1, <3>2, <4>1, <4>2
    <3>3. CASE t \in 1 .. n
      BY <1>8, <1>11, <3>1, <3>3 DEF Blocks
    <3> QED
      BY <1>8, <3>2, <3>3
  <2>3. CASE \E u \in used : b = [ptr |-> u.ptr, size |-> u.size, of |-> None]
    BY <2>3 DEF Blocks
  <2> HIDE DEF n
  <2> QED
    BY <1>10, <1>13, <2>1, <2>2, <2>3 DEF Blocks
<1>18. EndBy(Blocks, heap_pos)' /\ Disjoint(Blocks)'
  <2>1. CASE Given(pos, StackSize) = NULL
    <3>1. Blocks' \subseteq Blocks \cup {tb}
      BY <1>17, <2>1
    <3>2. EndBy(Blocks', heap_pos') /\ Disjoint(Blocks')
      BY <1>4, <1>6, <1>16, <3>1, FewerBlocks
    <3> QED
      BY <3>2 DEF EndBy, Disjoint
  <2>2. CASE Given(pos, StackSize) # NULL
    <3>1. pos + StackSize <= heap_pos'
      BY <1>1, <1>4, <1>5, <2>2, RequestAnswer
    <3>2. /\ EndBy((Blocks \cup {tb}) \cup {sb}, heap_pos')
          /\ Disjoint((Blocks \cup {tb}) \cup {sb})
      <4> DEFINE B == Blocks \cup {tb}
      <4>1. EndBy(B, pos) /\ Disjoint(B)
        BY <1>16
      <4>2. sb.ptr = pos /\ sb.size = StackSize
        OBVIOUS
      <4> HIDE DEF B, sb
      <4>3. EndBy(B \cup {sb}, heap_pos') /\ Disjoint(B \cup {sb})
        BY <1>1, <1>4, <1>6, <3>1, <4>1, <4>2, AddBlock
      <4> QED
        BY <4>3 DEF B
    <3>3. Blocks' \subseteq (Blocks \cup {tb}) \cup {sb}
      BY <1>17
    <3>4. EndBy(Blocks', heap_pos') /\ Disjoint(Blocks')
      BY <1>6, <3>2, <3>3, FewerBlocks
    <3> QED
      BY <3>4 DEF EndBy, Disjoint
  <2> QED
    BY <2>1, <2>2
<1>19. Given(pos, StackSize) = NULL => heap_pos' + StackSize > HEAP_SIZE
  <2>1. ~ (pos \in {NULL})
    BY <1>4, NullAssumption
  <2> QED
    BY <1>1, <1>4, <1>5, <2>1, RequestAnswer
<1>20. NoRoomForStack /\ StacksRunOut
  BY DEF IInv
<1>21. (\E t \in 2 .. n : tasks[t].stack = NULL) => Given(pos, StackSize) = NULL
  <2>1. heap_pos + StackSize > HEAP_SIZE => pos + StackSize > HEAP_SIZE
    BY <1>1, <1>2, <1>4, HeapSizeAssumption
  <2>2. Fits(pos, StackSize) => pos + StackSize <= HEAP_SIZE
    BY <1>1, <1>4, <1>5, <1>6, RequestAnswer, HeapSizeAssumption
  <2> QED
    BY <1>1, <1>4, <1>20, <2>1, <2>2, HeapSizeAssumption DEF NoRoomForStack, Given
<1>22. NoRoomForStack'
  <2>1. ASSUME NEW t \in 2 .. n + 1, tasks'[t].stack = NULL
        PROVE  Given(pos, StackSize) = NULL
    <3>1. CASE t = n + 1
      BY <1>12, <2>1, <3>1
    <3>2. CASE t \in 2 .. n
      BY <1>8, <1>11, <1>21, <2>1, <3>2
    <3> QED
      BY <1>8, <3>1, <3>2
  <2> QED
    BY <1>10, <1>19, <2>1 DEF NoRoomForStack
<1>23. StacksRunOut'
  <2>1. ASSUME NEW t \in 2 .. n + 1, NEW u \in 2 .. n + 1, t < u, tasks'[t].stack = NULL
        PROVE  tasks'[u].stack = NULL
    <3>1. t \in 2 .. n /\ tasks[t].stack = NULL
      BY <1>8, <1>11, <2>1
    <3>2. CASE u = n + 1
      BY <1>12, <1>21, <3>1, <3>2
    <3>3. CASE u \in 2 .. n
      BY <1>8, <1>11, <1>20, <2>1, <3>1, <3>3 DEF StacksRunOut
    <3> QED
      BY <1>8, <3>2, <3>3
  <2> QED
    BY <1>10, <2>1 DEF StacksRunOut
<1>24. OneRing'
  <2>1. \A t \in 1 .. n : /\ tasks[t].next \in 1 .. n
                          /\ t # task_queue => tasks'[t].next = tasks[t].next
    BY <1>8, <1>10 DEF IInv, TypeOK
  <2>2. tasks[task_queue] \in Task
    BY <1>8 DEF IInv, Shape
  <2>3. tasks'[task_queue].next = n + 1 /\ tasks'[n + 1].next = tasks[task_queue].next
    BY <1>8, <1>10, <2>2 DEF Task
  <2>4. \A S \in SUBSET (1 .. n) : S # {} /\ (\A t \in S : tasks[t].next \in S) => S = 1 .. n
    BY <1>8 DEF IInv, OneRing
  <2> HIDE DEF n
  <2>5. ASSUME NEW S \in SUBSET (1 .. n + 1), S # {}, \A t \in S : tasks'[t].next \in S
        PROVE  S = 1 .. n + 1
    <3> DEFINE next(t)  == tasks[t].next
               next2(t) == tasks'[t].next
    <3>1. /\ n \in Nat /\ task_queue \in 1 .. n
          /\ \A t \in 1 .. n : next(t) \in 1 .. n /\ (t # task_queue => next2(t) = next(t))
          /\ next2(task_queue) = n + 1 /\ next2(n + 1) = next(task_queue)
          /\ \A T \in SUBSET (1 .. n) : T # {} /\ (\A t \in T : next(t) \in T) => T = 1 .. n
          /\ \A t \in S : next2(t) \in S
      BY <1>8, <2>1, <2>3, <2>4, <2>5
    <3> HIDE DEF next, next2
    <3>2. CASE n + 1 \in S
      <4> DEFINE T == S \ {n + 1}
      <4>1. T \in SUBSET (1 .. n) /\ next(task_queue) \in T
        BY <3>1, <3>2
      <4>2. \A t \in T : next(t) \in T
        BY <3>1, <4>1
      <4>3. T = 1 .. n
        BY <3>1, <4>1, <4>2
      <4>4. 1 .. n + 1 = (1 .. n) \cup {n + 1}
        BY <3>1
      <4>5. S = T \cup {n + 1}
        BY <3>2
      <4> HIDE DEF T
      <4> QED
        BY <4>3, <4>4, <4>5
    <3>3. CASE n + 1 \notin S
      <4>1. S \in SUBSET (1 .. n)
        <5>1. 1 .. n + 1 = (1 .. n) \cup {n + 1}
          BY <3>1
        <5> QED
          BY <3>3, <5>1
      <4>2. task_queue \notin S
        BY <3>1, <3>3
      <4>3. \A t \in S : next(t) \in S
        <5> SUFFICES ASSUME NEW t \in S PROVE next(t) \in S
          OBVIOUS
        <5>1. t \in 1 .. n /\ t # task_queue
          BY <4>1, <4>2
        <5> QED
          BY <3>1, <5>1
      <4> QED
        BY <2>5, <3>1, <4>1, <4>2, <4>3
    <3> QED
      BY <3>2, <3>3
  <2> QED
    BY <1>10, <2>5 DEF OneRing
<1> QED
  BY <1>14, <1>15, <1>18, <1>22, <1>23, <1>24 DEF IInv

LEMMA NextIInv == IInv /\ [Next]_vars => IInv'
<1> SUFFICES ASSUME IInv, [Next]_vars PROVE IInv'
  OBVIOUS
<1>1. CASE UNCHANGED vars
  <2>1. Blocks' = Blocks
    BY <1>1, SameBlocks DEF vars
  <2> QED
    BY <1>1, <2>1 DEF vars, IInv, TypeOK, Shape, EndBy, Disjoint, NoRoomForStack, StacksRunOut,
                   OneRing
<1>2. CASE yield
  BY <1>1, <1>2, YieldKeepsIInv DEF yield
<1>3. CASE create_task_Refused
  BY <1>1, <1>3 DEF create_task_Refused
<1>4. CASE \E size \in Others : Allocate(size)
  BY <1>4, AllocateKeepsIInv
<1> QED
  BY <1>1, <1>2, <1>3, <1>4, SchedulerKeepsIInv, CreateKeepsIInv, ShutdownKeepsIInv DEF Next

-----------------------------------------------------------------------------
(***************************************************************************)
(* The links of kernel.c:217 and :242-243 lead to tasks, and the task that *)
(* timer_callback switches to (line 43) is one of them, however many tasks *)
(* and switches there are.                                                 *)
(***************************************************************************)
THEOREM TypeCorrect == Spec => []TypeOK
<1>1. IInv => TypeOK
  BY DEF IInv
<1> QED
  BY <1>1, InitIInv, NextIInv, PTL DEF Spec

(***************************************************************************)
(* What kmalloc gave create_task for tasks and stacks (kernel.c:226-236)   *)
(* and the rest of the kernel is apart, and inside the heap.               *)
(***************************************************************************)
THEOREM MemoryIsOwned == Spec => []TasksOwnMemory
<1>1. IInv => TasksOwnMemory
  <2>1. ASSUME IInv, NEW b \in Blocks PROVE b.ptr + b.size <= HEAP_SIZE
    BY <2>1, HeapSizeAssumption DEF IInv, TypeOK, EndBy
  <2> QED
    BY <2>1 DEF IInv, Disjoint, TasksOwnMemory
<1> QED
  BY <1>1, InitIInv, NextIInv, PTL DEF Spec

(***************************************************************************)
(* After the first task whose stack kmalloc refused (kernel.c:235), no task*)
(* has one.                                                                *)
(***************************************************************************)
THEOREM NoStackAfterNone == Spec => []StacksRunOut
<1>1. IInv => StacksRunOut
  BY DEF IInv
<1> QED
  BY <1>1, InitIInv, NextIInv, PTL DEF Spec

(***************************************************************************)
(* The links that create_task sets (kernel.c:242-243), next to the head of *)
(* the queue, keep all the tasks on one ring.                              *)
(***************************************************************************)
THEOREM TasksAreOneRing == Spec => []OneRing
<1>1. IInv => OneRing
  BY DEF IInv
<1> QED
  BY <1>1, InitIInv, NextIInv, PTL DEF Spec
=============================================================================
