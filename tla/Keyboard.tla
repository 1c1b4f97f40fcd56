------------------------------ MODULE Keyboard ------------------------------
(***************************************************************************)
(* The keyboard path of kernel/interrupts.c: the IRQ1 handler appends to   *)
(* key_buffer, and keyboard_getchar, the only consumer, waits for a key    *)
(* with hlt and takes it from the front of the buffer.                     *)
(*                                                                         *)
(* One CPU runs both.  The handler enters through an interrupt gate, so it *)
(* is one atomic step; keyboard_getchar is interruptible between any two   *)
(* instructions, and is split at every access to the shared variables.     *)
(* The build has no optimisation level, so key_buffer_pos is read from     *)
(* memory each time, and key_buffer_pos-- is a load, a subtraction in a    *)
(* register, and a store.                                                  *)
(***************************************************************************)
EXTENDS Integers, Sequences

CONSTANTS
  BufSize,           \* sizeof(key_buffer), 256 in the code
  scancode_to_ascii, \* the translation table; 0 for a key without character
  Scancodes,         \* the bytes the keyboard sends
  MaxScancodes       \* bound: how many bytes it sends in a behaviour

ASSUME BufSizeAssumption == BufSize \in Nat \ {0}
ASSUME TableAssumption ==
  scancode_to_ascii \in [DOMAIN scancode_to_ascii -> Nat]
ASSUME ScancodesAssumption == Scancodes \subseteq 0 .. 255
ASSUME MaxScancodesAssumption == MaxScancodes \in Nat

VARIABLES
  key_buffer,        \* static char key_buffer[BufSize]
  key_buffer_pos,    \* static int: how many characters it holds
  IF_flag,           \* EFLAGS.IF: does the CPU take maskable interrupts?
  port,              \* bytes waiting behind port 0x60, oldest first
  sent,              \* how many bytes the keyboard has sent
  pc,                \* where the CPU is in keyboard_getchar
  c, i, eax,         \* the locals of keyboard_getchar, and its register
  accepted,          \* history: the characters the handler has stored
  returned,          \* history: the characters keyboard_getchar returned
  races              \* history: characters stored inside the window below

buffer  == <<key_buffer, key_buffer_pos>>
frame   == <<c, i, eax>>
history == <<accepted, returned, races>>
vars    == <<buffer, IF_flag, port, sent, pc, frame, history>>

-----------------------------------------------------------------------------
(***************************************************************************)
(* "caller": outside keyboard_getchar.  "test": about to read              *)
(* key_buffer_pos for the while condition.  "hlt": found it zero, about to *)
(* halt.  "sleep": halted.  "take", "shift": line 78 and the loop.         *)
(* "load", "store": the two memory accesses of key_buffer_pos--.           *)
(***************************************************************************)
Waiting  == {"caller", "test", "hlt", "sleep"}
Window   == {"load", "store"}
Labels   == Waiting \cup {"take", "shift"} \cup Window

Init ==
  /\ key_buffer = [k \in 0 .. BufSize - 1 |-> 0]
  /\ key_buffer_pos = 0
  /\ IF_flag = FALSE
  /\ port = <<>>
  /\ sent = 0
  /\ pc = "caller"
  /\ c = 0 /\ i = 0 /\ eax = 0
  /\ accepted = <<>> /\ returned = <<>> /\ races = 0

(***************************************************************************)
(* The keyboard, which is hardware: it sends make and break codes when its *)
(* user pleases.                                                           *)
(***************************************************************************)
KeyEvent(s) ==
  /\ sent < MaxScancodes
  /\ sent' = sent + 1
  /\ port' = Append(port, s)
  /\ UNCHANGED <<buffer, IF_flag, pc, frame, history>>

(* sti and cli, which only code outside keyboard_getchar executes.         *)
enable_interrupts ==
  /\ pc = "caller"
  /\ IF_flag' = TRUE
  /\ UNCHANGED <<buffer, port, sent, pc, frame, history>>

disable_interrupts ==
  /\ pc = "caller"
  /\ IF_flag' = FALSE
  /\ UNCHANGED <<buffer, port, sent, pc, frame, history>>

-----------------------------------------------------------------------------
(***************************************************************************)
(* keyboard_handler_internal.  A break code has bit 7 set.                 *)
(***************************************************************************)
Ascii(s) ==
  IF s < 128 /\ s \in DOMAIN scancode_to_ascii THEN scancode_to_ascii[s] ELSE 0

(* A plausible bug: filling the last slot, and key_buffer_pos with it. *)
HasRoom_OffByOne(s) == Ascii(s) # 0 /\ key_buffer_pos < BufSize

HasRoom(s) == Ascii(s) # 0 /\ key_buffer_pos < BufSize - 1

Store(s) ==
  /\ HasRoom(s)
  /\ key_buffer' = [key_buffer EXCEPT ![key_buffer_pos] = Ascii(s)]
  /\ key_buffer_pos' = key_buffer_pos + 1
  /\ accepted' = Append(accepted, Ascii(s))
  /\ races' = IF pc \in Window THEN races + 1 ELSE races

Ignore(s) ==
  /\ ~ HasRoom(s)
  /\ UNCHANGED <<buffer, accepted, races>>

(* Taking the interrupt ends a hlt; iret resumes where the CPU was.        *)
keyboard_handler ==
  /\ IF_flag
  /\ port # <<>>
  /\ port' = Tail(port)
  /\ Store(Head(port)) \/ Ignore(Head(port))
  /\ pc' = IF pc = "sleep" THEN "test" ELSE pc
  /\ UNCHANGED <<IF_flag, sent, frame, returned>>

-----------------------------------------------------------------------------
(***************************************************************************)
(* keyboard_getchar, step by step.                                         *)
(***************************************************************************)
Goto(from, to) == pc = from /\ pc' = to

Call ==
  /\ Goto("caller", "test")
  /\ UNCHANGED <<buffer, IF_flag, port, sent, frame, history>>

(* A plausible bug: no wait, as if a call were always due to a key. *)
Test_DoesNotWait ==
  /\ Goto("test", "take")
  /\ UNCHANGED <<buffer, IF_flag, port, sent, frame, history>>

Test ==
  /\ Goto("test", IF key_buffer_pos = 0 THEN "hlt" ELSE "take")
  /\ UNCHANGED <<buffer, IF_flag, port, sent, frame, history>>

Halt ==
  /\ Goto("hlt", "sleep")
  /\ UNCHANGED <<buffer, IF_flag, port, sent, frame, history>>

Take ==
  /\ Goto("take", "shift")
  /\ c' = key_buffer[0]
  /\ i' = 0
  /\ UNCHANGED <<buffer, IF_flag, port, sent, eax, history>>

(* A plausible bug: the loop stops one short. *)
MoreToShift_OffByOne == i < key_buffer_pos - 2

(* The loop condition, which reads key_buffer_pos afresh.                  *)
MoreToShift == i < key_buffer_pos - 1

(* A plausible bug: the loop does not advance. *)
Shift_ForgetsIndex ==
  /\ pc = "shift"
  /\ MoreToShift
  /\ key_buffer' = [key_buffer EXCEPT ![i] = key_buffer[i + 1]]
  /\ UNCHANGED <<key_buffer_pos, IF_flag, port, sent, pc, frame, history>>

(***************************************************************************)
(* One round of the loop.  Between its test and its copy, the handler can  *)
(* only write the slot at key_buffer_pos, which the copy does not touch:   *)
(* the two are one step.                                                   *)
(***************************************************************************)
Shift ==
  /\ pc = "shift"
  /\ MoreToShift
  /\ key_buffer' = [key_buffer EXCEPT ![i] = key_buffer[i + 1]]
  /\ i' = i + 1
  /\ UNCHANGED <<key_buffer_pos, IF_flag, port, sent, pc, c, eax, history>>

ShiftDone ==
  /\ ~ MoreToShift
  /\ Goto("shift", "load")
  /\ UNCHANGED <<buffer, IF_flag, port, sent, frame, history>>

LoadPos ==
  /\ Goto("load", "store")
  /\ eax' = key_buffer_pos
  /\ UNCHANGED <<buffer, IF_flag, port, sent, c, i, history>>

(* A plausible bug: key_buffer_pos is not decremented. *)
StorePos_Forgotten ==
  /\ Goto("store", "caller")
  /\ returned' = Append(returned, c)
  /\ UNCHANGED <<buffer, IF_flag, port, sent, frame, accepted, races>>

StorePos ==
  /\ Goto("store", "caller")
  /\ key_buffer_pos' = eax - 1
  /\ returned' = Append(returned, c)
  /\ UNCHANGED <<key_buffer, IF_flag, port, sent, frame, accepted, races>>

Getchar ==
  Test \/ Halt \/ Take \/ Shift \/ ShiftDone \/ LoadPos \/ StorePos

Next ==
  \/ \E s \in Scancodes : KeyEvent(s)
  \/ enable_interrupts
  \/ disable_interrupts
  \/ keyboard_handler
  \/ Call
  \/ Getchar

Spec == Init /\ [][Next]_vars

(***************************************************************************)
(* The CPU goes on executing, and the interrupt controller delivers a      *)
(* pending IRQ1 while interrupts are on.  Nobody owes us a key press, nor  *)
(* a call, nor an sti.                                                     *)
(***************************************************************************)
FairSpec == Spec /\ WF_vars(Getchar) /\ WF_vars(keyboard_handler)

-----------------------------------------------------------------------------
TypeOK ==
  /\ key_buffer \in [0 .. BufSize - 1 -> Nat]
  /\ key_buffer_pos \in 0 .. BufSize - 1
  /\ IF_flag \in BOOLEAN
  /\ port \in Seq(Scancodes)
  /\ sent \in Nat
  /\ pc \in Labels
  /\ c \in Nat /\ i \in Nat /\ eax \in Nat
  /\ accepted \in Seq(Nat) /\ returned \in Seq(Nat)
  /\ races \in Nat
  /\ pc \in {"take", "shift", "load"} => key_buffer_pos > 0
  /\ pc = "shift" => i < key_buffer_pos
  /\ pc = "store" => eax \in 1 .. key_buffer_pos

(* The characters that wait in the buffer, oldest first.                   *)
Queue == [k \in 1 .. key_buffer_pos |-> key_buffer[k - 1]]

Typed == {accepted[k] : k \in DOMAIN accepted}

(***************************************************************************)
(* The race of keyboard_getchar with its interrupt handler is confined to  *)
(* one window, from the last test of the shift loop (line 79) to the store *)
(* of key_buffer_pos (line 82): as long as no character is stored inside   *)
(* it, everything typed comes out once, in order, even when the handler    *)
(* appends in the middle of the shift.                                     *)
(***************************************************************************)
FifoUnlessRaced ==
  races = 0 /\ pc \in Waiting => accepted = returned \o Queue

(***************************************************************************)
(* What the race can cost (lines 79-82 against line 103): no more          *)
(* characters come out than went in, and at most one is lost for each that *)
(* was stored inside the window.                                           *)
(***************************************************************************)
LossBounded ==
  LET held == Len(returned) + key_buffer_pos
  IN  held <= Len(accepted) /\ Len(accepted) <= held + races

(***************************************************************************)
(* Even after races, keyboard_getchar (lines 74-84) returns only           *)
(* characters the handler stored: never the initial contents of a slot.    *)
(***************************************************************************)
OnlyTypedCharacters ==
  /\ \A k \in DOMAIN returned : returned[k] \in Typed
  /\ \A k \in DOMAIN Queue : Queue[k] \in Typed

(***************************************************************************)
(* The shift loop re-reads key_buffer_pos, which the handler can push up   *)
(* while it runs (line 79 against line 103); the loop ends all the same,   *)
(* so a keyboard_getchar that saw a key returns it.                        *)
(***************************************************************************)
GetcharCompletes ==
  pc \in Labels \ Waiting ~> pc = "caller"

(* How many steps keyboard_getchar still takes at most.                    *)
StepsLeft ==
  CASE pc = "take"  -> BufSize + 4
    [] pc = "shift" -> BufSize + 3 - i
    [] pc = "load"  -> 2
    [] pc = "store" -> 1
    [] OTHER        -> 0

(***************************************************************************)
(* Why it ends: the handler lengthens the loop (line 103) no further than  *)
(* to the end of the buffer.  Each step of a call that has seen a key      *)
(* brings it nearer to its return, and no interrupt takes it back.         *)
(***************************************************************************)
GetcharAdvances ==
  [][pc \notin Waiting =>
       /\ StepsLeft > 0
       /\ IF Getchar THEN StepsLeft' < StepsLeft ELSE StepsLeft' = StepsLeft]_vars

(***************************************************************************)
(* "char keyboard_getchar(void); // Get a character from keyboard input"   *)
(* (basedos.h:43): the calls return what was typed, in order, with nothing *)
(* lost or repeated.                                                       *)
(***************************************************************************)
ReturnedAsTyped ==
  /\ Len(returned) <= Len(accepted)
  /\ \A k \in DOMAIN returned : returned[k] = accepted[k]

(***************************************************************************)
(* "Keyboard Input - Interrupt-driven input handling" (readme.md:41): the  *)
(* interrupt that stores a key wakes the waiting reader, so the CPU is     *)
(* never asleep in keyboard_getchar (line 76) with a key in the buffer.    *)
(***************************************************************************)
NeverSleepsOnInput == pc = "sleep" => key_buffer_pos = 0
=============================================================================
