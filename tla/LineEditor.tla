----------------------------- MODULE LineEditor -----------------------------
(***************************************************************************)
(* The shell's input line and its command history (start_shell and         *)
(* add_to_history, kernel/shell.c) on the screen of Terminal.  Each step   *)
(* is one round of the inner loop: keyboard_getchar returned c, and the    *)
(* shell did with it what it does, its output included.                    *)
(*                                                                         *)
(* What a command does is left open here, but for what the line needs of   *)
(* it: whether it clears the screen, its output, and the echo it leaves.   *)
(* "exit", after which there is no next line, is not among the lines.      *)
(***************************************************************************)
EXTENDS Terminal, FiniteSetsExt

CONSTANTS
  Chars,         \* the characters that keyboard_getchar returns
  MAX_INPUT,     \* size of the line buffer, 128 in the code
  HISTORY_SIZE,  \* entries of the history, 10 in the code
  commands,      \* the names that Tab completes, in order
  Outputs,       \* what commands print
  Prompts        \* what the shell prompts with

ASSUME CharsAssumption == Chars \subseteq 32 .. 126 \cup {CR, BS, TAB}
ASSUME SizesAssumption == MAX_INPUT \in Nat /\ MAX_INPUT > 2 /\ HISTORY_SIZE \in Nat \ {0}
ASSUME CommandsAssumption ==
  /\ commands \in Seq(Seq(32 .. 126))
  /\ \A k \in DOMAIN commands : Len(commands[k]) <= MAX_INPUT - 2
ASSUME PromptsAssumption == Prompts \subseteq Seq(32 .. 126)
(* Whatever a command prints, it ends its last row. *)
ASSUME OutputsAssumption ==
  \A output \in Outputs :
    /\ output \in Seq(32 .. 126 \cup {NL, CR, BS, TAB})
    /\ output # <<>> => output[Len(output)] = NL

VARIABLES
  input, position,  \* the line up to its terminating 0, and where it grows
  history, history_pos, current_history,
  echo_enabled,
  screen,
  prompt,           \* history: the prompt of this line
  wrapped,          \* history: has this line reached the screen's edge?
  latest            \* history: the command executed last

line == <<input, position>>
past == <<history, history_pos, latest>>
vars == <<line, past, current_history, echo_enabled, screen, prompt, wrapped>>

UpArrow   == 72
DownArrow == 80
Printable == 32 .. 126

Fills(width) == width >= COLS

Init ==
  /\ input = <<>> /\ position = 0
  /\ history = [k \in 0 .. HISTORY_SIZE - 1 |-> <<>>]
  /\ history_pos = 0 /\ current_history = -1
  /\ echo_enabled = TRUE
  /\ prompt \in Prompts
  /\ screen = terminal_writestring(terminal_initialize, prompt)
  /\ wrapped = Fills(Len(prompt))
  /\ latest = <<>>

-----------------------------------------------------------------------------
(* A plausible bug: a repeat is looked for in the slot about to be filled. *)
Repeats_WrongSlot(cmd) == history[history_pos] = cmd

(* The entry before history_pos; there is none at the start of the array.  *)
Repeats(cmd) == history_pos > 0 /\ history[history_pos - 1] = cmd

add_to_history(cmd) ==
  IF Repeats(cmd)
    THEN UNCHANGED <<history, history_pos>>
    ELSE /\ history' = [history EXCEPT ![history_pos] = cmd]
         /\ history_pos' = (history_pos + 1) % HISTORY_SIZE

(* The string that the buffer holds once a 0 is stored at p.               *)
Terminated(p) == SubSeq(input, 1, p)

(* Return: the line is executed, and the next one begins.                  *)
Execute(cmd) ==
  IF cmd = <<>>
    THEN UNCHANGED <<past, echo_enabled>>
    ELSE /\ add_to_history(cmd)
         /\ latest' = cmd
         /\ echo_enabled' \in BOOLEAN

(* The screens that a command can leave; "clear" and its aliases wipe it.  *)
Left(cmd) ==
  IF cmd = <<>> THEN {putchar(screen, NL)}
  ELSE {terminal_writestring(t, output) :
          t \in {putchar(screen, NL), terminal_initialize}, output \in Outputs}

NewLine(cmd) ==
  /\ input' = <<>> /\ position' = 0
  /\ prompt' \in Prompts
  /\ \E t \in Left(cmd) : screen' = terminal_writestring(t, prompt')
  /\ wrapped' = Fills(Len(prompt'))

(* A plausible bug: the walk through the history goes on in the next line. *)
Enter_KeepsWalk(c) ==
  /\ c = CR
  /\ Execute(Terminated(position))
  /\ NewLine(Terminated(position))
  /\ UNCHANGED current_history

Enter(c) ==
  /\ c = CR
  /\ Execute(Terminated(position))
  /\ NewLine(Terminated(position))
  /\ current_history' = -1

-----------------------------------------------------------------------------
(* The line becomes str: what was typed is wiped, and str printed.         *)
Wiped == terminal_writestring(screen,
           [k \in 1 .. 3 * position |-> IF k % 3 = 2 THEN Space ELSE BS])

(* A plausible bug: the old line stays on the screen. *)
Becomes_NoWipe(str) ==
  /\ input' = str /\ position' = Len(str)
  /\ screen' = terminal_writestring(screen, str)
  /\ wrapped' = (wrapped \/ Fills(Len(prompt) + Len(str)))
  /\ UNCHANGED <<past, echo_enabled, prompt>>

Becomes(str) ==
  /\ input' = str /\ position' = Len(str)
  /\ screen' = terminal_writestring(Wiped, str)
  /\ wrapped' = (wrapped \/ Fills(Len(prompt) + Len(str)))
  /\ UNCHANGED <<past, echo_enabled, prompt>>

IsUp(c)   == c = UpArrow /\ history_pos > 0
IsDown(c) == c = DownArrow /\ current_history # -1

Up(c) ==
  /\ IsUp(c)
  /\ current_history' = CASE current_history = -1 -> history_pos - 1
                          [] current_history > 0  -> current_history - 1
                          [] OTHER                -> current_history
  /\ Becomes(history[current_history'])

Down(c) ==
  /\ IsDown(c)
  /\ \/ /\ current_history < history_pos - 1
        /\ current_history' = current_history + 1
        /\ Becomes(history[current_history'])
     \/ /\ current_history >= history_pos - 1
        /\ current_history' = -1
        /\ Becomes(<<>>)

-----------------------------------------------------------------------------
(* A plausible bug: no 0 at the new end of the line. *)
Backspace_KeepsTail(c) ==
  /\ c = BS /\ position > 0
  /\ position' = position - 1
  /\ screen' = terminal_writestring(screen, <<BS, Space, BS>>)
  /\ UNCHANGED <<input, past, current_history, echo_enabled, prompt, wrapped>>

Backspace(c) ==
  /\ c = BS /\ position > 0
  /\ position' = position - 1
  /\ input' = Terminated(position - 1)
  /\ screen' = terminal_writestring(screen, <<BS, Space, BS>>)
  /\ UNCHANGED <<past, current_history, echo_enabled, prompt, wrapped>>

(* strncmp(input, commands[k], position) == 0                              *)
Completes(k) ==
  LET n == Min({position, Len(input) + 1, Len(commands[k]) + 1})
  IN  \A j \in 1 .. n : /\ j \in DOMAIN input /\ j \in DOMAIN commands[k]
                        /\ input[j] = commands[k][j]

Completions == IF position = 0 THEN {} ELSE {k \in DOMAIN commands : Completes(k)}

(* The rest of the first name that fits is appended, echo or no echo.      *)
Tab(c) ==
  /\ c = TAB /\ Completions # {}
  /\ LET rest == SubSeq(commands[Min(Completions)], position + 1,
                        Len(commands[Min(Completions)]))
     IN  /\ input' = Terminated(position) \o rest
         /\ position' = position + Len(rest)
         /\ screen' = terminal_writestring(screen, rest)
  /\ wrapped' = (wrapped \/ Fills(Len(prompt) + position'))
  /\ UNCHANGED <<past, current_history, echo_enabled, prompt>>

(* A plausible bug: room for a character, but none for the 0 after it. *)
HasRoom_NoTerminator == position < MAX_INPUT

HasRoom == position < MAX_INPUT - 2

Insert(c) ==
  /\ c \in Printable /\ ~ IsUp(c) /\ ~ IsDown(c) /\ HasRoom
  /\ input' = Append(Terminated(position), c)
  /\ position' = position + 1
  /\ screen' = IF echo_enabled THEN putchar(screen, c) ELSE screen
  /\ wrapped' = (wrapped \/ Fills(Len(prompt) + position'))
  /\ UNCHANGED <<past, current_history, echo_enabled, prompt>>

(* A backspace or a Tab with nothing to do, and the beep of a full line.   *)
Ignore(c) ==
  /\ \/ c = BS /\ position = 0
     \/ c = TAB /\ Completions = {}
     \/ c \in Printable /\ ~ IsUp(c) /\ ~ IsDown(c) /\ ~ HasRoom
  /\ UNCHANGED vars

Next ==
  \E c \in Chars :
    Enter(c) \/ Up(c) \/ Down(c) \/ Backspace(c) \/ Tab(c) \/ Insert(c) \/ Ignore(c)

Spec == Init /\ [][Next]_vars

-----------------------------------------------------------------------------
TypeOK ==
  /\ Len(input) < MAX_INPUT /\ \A k \in DOMAIN input : input[k] \in Printable
  /\ position \in 0 .. MAX_INPUT - 1
  /\ DOMAIN history = 0 .. HISTORY_SIZE - 1
  /\ \A k \in DOMAIN history : Len(history[k]) < MAX_INPUT
  /\ history_pos \in 0 .. HISTORY_SIZE - 1
  /\ current_history \in -1 .. HISTORY_SIZE - 1
  /\ echo_enabled \in BOOLEAN
  /\ screen \in Screen(Printable)
  /\ prompt \in Prompts
  /\ wrapped \in BOOLEAN
  /\ Len(latest) < MAX_INPUT

(***************************************************************************)
(* The two ways the code has of saying where the line ends agree between   *)
(* any two keys (lines 592-683): the terminating 0, which strlen, strcpy   *)
(* and execute_command go by, stands at input[position].                   *)
(***************************************************************************)
EndsAtPosition == position = Len(input)

(***************************************************************************)
(* Up and Down (lines 605-644) move only among entries that hold a         *)
(* command, also after the history has wrapped around (line 146): the walk *)
(* never leaves the entries before history_pos.                            *)
(***************************************************************************)
RecallsCommands ==
  current_history # -1 =>
    current_history < history_pos /\ history[current_history] # <<>>

(***************************************************************************)
(* While echo is on (line 674) and the line has not reached the edge of    *)
(* the screen, the cursor's row shows the prompt, after it exactly the     *)
(* line that Return will execute, and nothing else, whatever was typed,    *)
(* wiped, recalled or completed, also when the screen has scrolled         *)
(* (terminal.c:58-70).                                                     *)
(***************************************************************************)
ShowsTheLine ==
  echo_enabled /\ ~ wrapped =>
    LET shown == prompt \o Terminated(position)
    IN  CursorRow(screen) = Shows(shown) /\ screen.cursor_x = Len(shown)

(***************************************************************************)
(* show_history (lines 149-157) lists the entries from history_pos on,     *)
(* leaving out the empty ones; add_to_history (lines 140-147) makes that   *)
(* list the log of the latest commands that CommandLog describes.          *)
(***************************************************************************)
entries == [i \in 0 .. HISTORY_SIZE - 1 |-> history[(history_pos + i) % HISTORY_SIZE]]

listed[n \in 0 .. HISTORY_SIZE] ==
  IF n = 0 THEN <<>>
  ELSE IF entries[n - 1] = <<>> THEN listed[n - 1]
       ELSE Append(listed[n - 1], entries[n - 1])

show_history == listed[HISTORY_SIZE]

Log == INSTANCE CommandLog WITH log <- show_history

HistoryIsLog == Log!Spec
=============================================================================
