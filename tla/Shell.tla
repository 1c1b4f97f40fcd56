-------------------------------- MODULE Shell --------------------------------
(***************************************************************************)
(* The shell's commands, aliases and settings (kernel/shell.c), on the     *)
(* file descriptors of Vfs.  A line is the list of its words; what is      *)
(* only printed is left out.  Commands that use a descriptor take one step *)
(* per call of the file system, the others one step.                       *)
(***************************************************************************)
EXTENDS Integers, Sequences

CONSTANTS
  Words,           \* the words there are, strings without blanks
  Lines,           \* what may be typed: the words, and whether they are bare
  MAX_ALIASES,     \* entries of aliases, 20 in the code
  MAX_ARGS,        \* entries of args, 16 in the code
  DefaultAliases,  \* the aliases that start_shell adds
  Long,            \* the names of 32 characters or more, too long for alias[32]
  Overlaid,        \* Overlaid[name][w]: 32 characters of name, then the word w
  Printing,        \* the commands that only print, or sound the speaker
  PathOf,          \* the path that a word stands for, as Vfs takes it
  atoi,            \* the number that a word stands for
  Letter,          \* the first character of a word
  MaxInt,          \* largest value of an int
  (* the constants of Vfs *)
  MAX_FILE_DESCRIPTORS, Word, Callbacks, Files, Directories, Child, Root, NULL, Sizes

ASSUME LinesAssumption ==
  \A line \in Lines : line.words \in Seq(Words) /\ line.bare \in BOOLEAN
ASSUME LimitsAssumption ==
  /\ MAX_ARGS \in Nat /\ MAX_ARGS > 4
  /\ MAX_ALIASES \in Nat /\ Len(DefaultAliases) <= MAX_ALIASES
(* The defaults are entries whose commands are not blank, and no name is   *)
(* given twice.                                                            *)
ASSUME DefaultsAssumption ==
  /\ DefaultAliases \in Seq({DefaultAliases[i] : i \in DOMAIN DefaultAliases})
  /\ \A i \in DOMAIN DefaultAliases :
       DefaultAliases[i] = [alias   |-> DefaultAliases[i].alias,
                            command |-> DefaultAliases[i].command]
  /\ \A i \in DOMAIN DefaultAliases :
       DefaultAliases[i].command \in Seq(Words) \ {<<>>}
  /\ \A i, j \in DOMAIN DefaultAliases :
       DefaultAliases[i].alias = DefaultAliases[j].alias => i = j
  /\ \A i \in DOMAIN DefaultAliases : DefaultAliases[i].alias \notin Long
ASSUME LongAssumption == \A name \in Long, w \in Words : Overlaid[name][w] \in Long
(* Every word is a path, a number that an int holds, and has a letter.     *)
ASSUME WordsAssumption ==
  /\ PathOf \in [Words -> [absolute : BOOLEAN, components : Seq(STRING)]]
  /\ MaxInt \in Nat /\ atoi \in [Words -> -MaxInt - 1 .. MaxInt]
  /\ DOMAIN Letter = Words
(* What Vfs assumes of its constants.                                      *)
ASSUME FilesAssumption ==
  /\ MAX_FILE_DESCRIPTORS \in Nat \ {0} /\ Word \in Nat \ {0}
  /\ NULL \notin {Root} \cup Files /\ Root \notin Files
  /\ Root \in Directories /\ Directories \subseteq {Root} \cup Files
  /\ \A dir \in Directories :
       \A name \in DOMAIN Child[dir] : Child[dir][name] \in Files
  /\ Sizes \subseteq 0 .. Word - 1

VARIABLES
  pc,                \* what the shell does next
  typed,             \* input: the line typed last
  args,              \* what execute_command makes of it
  aliases,           \* aliases[0 .. alias_count - 1]
  settings,          \* debug_mode, color_enabled and echo_enabled
  current_directory,
  last_exit_code,
  fd,                \* the local variable of cat, touch and write
  file_descriptors, held, last,  \* of Vfs
  promised           \* history: what each alias that fits was accepted to stand for

files == <<file_descriptors, held, last>>
vars  == <<pc, typed, args, aliases, settings, current_directory, last_exit_code,
           fd, files, promised>>

O_RDONLY == {}
O_WRONLY == {0}
O_CREAT  == {8}

FS == INSTANCE Vfs WITH
  Paths <- {PathOf[w] : w \in DOMAIN PathOf},
  Flags <- {O_RDONLY, O_WRONLY \cup O_CREAT}, Offsets <- {}

Init ==
  /\ pc = "prompt"
  /\ typed = [words |-> <<>>, bare |-> TRUE] /\ args = <<>>
  /\ aliases = DefaultAliases
  /\ settings = [debug |-> FALSE, color |-> TRUE, echo |-> TRUE]
  /\ current_directory = "/"
  /\ last_exit_code = 0
  /\ fd = -1
  /\ FS!Init
  /\ promised = [n \in {DefaultAliases[i].alias : i \in DOMAIN DefaultAliases} |->
                   DefaultAliases[CHOOSE i \in DOMAIN DefaultAliases :
                                    DefaultAliases[i].alias = n].command]

-----------------------------------------------------------------------------
(* The entries of aliases whose name is w, and the one the search finds.   *)
Matches(w) == {i \in DOMAIN aliases : aliases[i].alias = w}
First(S)   == CHOOSE i \in S : \A j \in S : i <= j

(* A plausible bug: no limit on the words. *)
parse_command_Unbounded(words) == words

(* parse_command: at most MAX_ARGS - 1 words.                              *)
parse_command(words) ==
  IF Len(words) < MAX_ARGS THEN words ELSE SubSeq(words, 1, MAX_ARGS - 1)

(* The alias replaces the whole line, and is not itself looked up.         *)
resolve_alias(words) ==
  IF Matches(words[1]) = {} THEN words
  ELSE parse_command(aliases[First(Matches(words[1]))].command)

(* Return.  A blank line leaves the exit code as it was. *)
Read(line) ==
  /\ pc = "prompt"
  /\ typed' = line
  /\ IF line.words = <<>>
       THEN pc' = "check" /\ UNCHANGED <<args, last_exit_code>>
       ELSE /\ pc' = "execute"
            /\ args' = resolve_alias(parse_command(line.words))
            /\ last_exit_code' = 0
  /\ UNCHANGED <<aliases, settings, current_directory, fd, files, promised>>

Command(name) == pc = "execute" /\ args[1] = name

(* Steps that touch nothing but what they say, and the way back.           *)
Stays(next) ==
  /\ pc' = next
  /\ UNCHANGED <<typed, args, aliases, settings, current_directory,
                 last_exit_code, fd, files, promised>>

PrintOnly == (\E name \in Printing : Command(name)) /\ Stays("check")

(* ls lists the root, whatever the current directory is.                   *)
ls == Command("ls") /\ Stays("check")

exit     == Command("exit") /\ Stays("check")
shutdown == Command("shutdown") /\ Stays("halted")
reboot   == Command("reboot") /\ Stays("halted")

cd ==
  LET path == IF Len(args) > 1 THEN args[2] ELSE "/"
  IN  /\ Command("cd")
      /\ \E node \in FS!vfs_finddir(Root, path) :
           IF node \in Directories
             THEN current_directory' = path /\ last_exit_code' = 0
             ELSE last_exit_code' = 1 /\ UNCHANGED current_directory
      /\ pc' = "check"
      /\ UNCHANGED <<typed, args, aliases, settings, fd, files, promised>>

-----------------------------------------------------------------------------
(* An entry, as it reads once command is copied to it: a name that is too  *)
(* long for its field has run into the command's, which cuts it off.       *)
Entry(name, command) ==
  [alias   |-> IF name \in Long THEN Overlaid[name][Head(command)] ELSE name,
   command |-> command]

(* The table once name has been given command.                             *)
Updated(name, command) ==
  IF Matches(name) # {}
    THEN [aliases EXCEPT ![First(Matches(name))] = Entry(name, command)]
    ELSE Append(aliases, Entry(name, command))

(* What has been promised then: nothing under a name that is too long.     *)
Promised(name, command) ==
  IF name \in Long THEN promised
    ELSE [n \in DOMAIN promised \cup {name} |->
            IF n = name THEN command ELSE promised[n]]

(* A plausible bug: a new entry also for a name that has one. *)
add_alias_Appends(name, command) ==
  IF Len(aliases) >= MAX_ALIASES
    THEN UNCHANGED <<aliases, promised>>
    ELSE /\ aliases' = Append(aliases, Entry(name, command))
         /\ promised' = Promised(name, command)

(* A full table refuses everything, also a new command for an old name.    *)
add_alias(name, command) ==
  IF Len(aliases) >= MAX_ALIASES
    THEN UNCHANGED <<aliases, promised>>
    ELSE /\ aliases' = Updated(name, command)
         /\ promised' = Promised(name, command)

alias ==
  /\ Command("alias")
  /\ IF Len(args) = 3 THEN add_alias(args[2], <<args[3]>>)
                      ELSE UNCHANGED <<aliases, promised>>
  /\ pc' = "check"
  /\ UNCHANGED <<typed, args, settings, current_directory, last_exit_code, fd, files>>

set ==
  /\ Command("set")
  /\ settings' = IF Len(args) = 3 /\ args[2] \in DOMAIN settings
                   THEN [settings EXCEPT ![args[2]] = (args[3] = "on")]
                   ELSE settings
  /\ pc' = "check"
  /\ UNCHANGED <<typed, args, aliases, current_directory, last_exit_code, fd, files,
                 promised>>

-----------------------------------------------------------------------------
(* idiv, which truncates: the processor faults when there is no quotient,  *)
(* or none that an int can hold.  The IDT has no gate for the fault.       *)
Abs(n) == IF n < 0 THEN -n ELSE n

Quotient(a, b) == IF (a < 0) = (b < 0) THEN Abs(a) \div Abs(b)
                                       ELSE -(Abs(a) \div Abs(b))

Faults(a, b) == b = 0 \/ Quotient(a, b) \notin -MaxInt - 1 .. MaxInt

(* A plausible bug: % without the test for zero. *)
Divides_Unchecked(op, b) == op = "%" \/ (op = "/" /\ b # 0)

Divides(op, b) == op \in {"/", "%"} /\ b # 0

calculator ==
  /\ Command("calc")
  /\ IF Len(args) = 4 /\ Divides(Letter[args[3]], atoi[args[4]])
                      /\ Faults(atoi[args[2]], atoi[args[4]])
       THEN Stays("reset")
       ELSE Stays("check")

-----------------------------------------------------------------------------
(* The commands that open a file; a name too few, and they only say so.    *)
Opens(name, least, flags, next) ==
  /\ Command(name)
  /\ \/ Len(args) < least /\ pc' = "check" /\ UNCHANGED <<fd, files>>
     \/ /\ Len(args) >= least
        /\ FS!open(PathOf[args[2]], flags)
        /\ fd' = last'.ret
        /\ pc' = IF last'.ret < 0 THEN "check" ELSE next
  /\ UNCHANGED <<typed, args, aliases, settings, current_directory,
                 last_exit_code, promised>>

cat   == Opens("cat", 2, O_RDONLY, "read")
touch == Opens("touch", 2, O_WRONLY \cup O_CREAT, "close")
write == Opens("write", 3, O_WRONLY \cup O_CREAT, "write")

Calls(label, next) ==
  /\ pc = label /\ pc' = next
  /\ UNCHANGED <<typed, args, aliases, settings, current_directory,
                 last_exit_code, fd, promised>>

(* A plausible bug: an error is taken for data. *)
MoreToRead_UntilZero(n) == n # 0

MoreToRead(n) == n > 0

ReadOn ==
  \E size \in Sizes :
    /\ FS!read(fd, size)
    /\ Calls("read", IF MoreToRead(last'.ret) THEN "read" ELSE "close")

(* A plausible bug: an incomplete write returns at once. *)
WriteAll_ReturnsEarly ==
  \E size \in Sizes :
    /\ FS!write(fd, size)
    /\ Calls("write", IF last'.ret = size THEN "close" ELSE "check")

(* The words after the name are written in one call.                       *)
WriteAll ==
  \E size \in Sizes : FS!write(fd, size) /\ Calls("write", "close")

Close == FS!close(fd) /\ Calls("close", "check")

-----------------------------------------------------------------------------
Builtins ==
  Printing \cup {"ls", "exit", "shutdown", "reboot", "cd", "alias", "set", "calc",
                 "cat", "touch", "write"}

NotBuiltin ==
  /\ pc = "execute" /\ args[1] \notin Builtins
  /\ \E node \in FS!vfs_finddir(Root, args[1]) :
       last_exit_code' = IF node # NULL THEN 126 ELSE 127
  /\ pc' = "check"
  /\ UNCHANGED <<typed, args, aliases, settings, current_directory, fd, files,
                 promised>>

execute_command ==
  \/ PrintOnly \/ ls \/ exit \/ shutdown \/ reboot \/ cd \/ alias \/ set \/ calculator
  \/ cat \/ touch \/ write \/ ReadOn \/ WriteAll \/ Close \/ NotBuiltin

(* The loop ends when the line itself was "exit", whatever was executed.   *)
CheckExit ==
  /\ pc = "check"
  /\ Stays(IF typed.words = <<"exit">> /\ typed.bare THEN "left" ELSE "prompt")

Step == execute_command \/ CheckExit

Next == Step \/ \E line \in Lines : Read(line)

Spec == Init /\ [][Next]_vars

(* The CPU goes on executing a command; nobody need type another one.      *)
FairSpec == Spec /\ WF_vars(Step)

-----------------------------------------------------------------------------
Ended == pc \in {"left", "halted", "reset"}

TypeOK ==
  /\ pc \in {"prompt", "execute", "read", "write", "close", "check",
             "left", "halted", "reset"}
  /\ typed.bare \in BOOLEAN
  /\ Len(args) < MAX_ARGS /\ (pc = "execute" => args # <<>>)
  /\ Len(aliases) <= MAX_ALIASES
  /\ settings \in [{"debug", "color", "echo"} -> BOOLEAN]
  /\ current_directory \in {"/"} \cup DOMAIN Child[Root]
  /\ last_exit_code \in {0, 1, 126, 127}
  /\ fd \in -1 .. MAX_FILE_DESCRIPTORS - 1
  /\ FS!TypeOK

(***************************************************************************)
(* cat, touch and write (lines 396-482) give back the descriptor they open *)
(* on every way through them, also when a read or a write fails: at the    *)
(* prompt, and when the shell is left, none is held.                       *)
(***************************************************************************)
NothingHeldAtPrompt == pc \in {"prompt", "left"} => held = {}

(***************************************************************************)
(* Until add_alias (lines 97-116) refuses, a name that fits in alias[32]   *)
(* stands for the command it was last given, the defaults included: no     *)
(* entry that a longer name leaves comes before it, and a refusal, which   *)
(* comes when the table is full, loses no alias.                           *)
(***************************************************************************)
AliasesAsPromised ==
  /\ {aliases[i].alias : i \in DOMAIN aliases} \ Long = DOMAIN promised
  /\ \A n \in DOMAIN promised : resolve_alias(<<n>>) = parse_command(promised[n])

(***************************************************************************)
(* calculator (lines 232-271) tests the divisor, and not the one quotient  *)
(* that an int cannot hold: nothing else that is typed resets the machine. *)
(***************************************************************************)
FaultsOnlyOnOverflow ==
  pc = "reset" => atoi[args[2]] = -MaxInt - 1 /\ atoi[args[4]] = -1

(***************************************************************************)
(* Every line that is typed is dealt with: the shell prompts again, or it  *)
(* has been left or stopped.  cat's loop (line 411) is the hard part: it   *)
(* must end when read refuses, as it does for every O_RDONLY descriptor.   *)
(***************************************************************************)
EveryCommandEnds == pc # "prompt" ~> pc = "prompt" \/ Ended
=============================================================================
