---------------------------- MODULE ShellProofs ----------------------------
(***************************************************************************)
(* Proofs about the shell, for every set of words and lines, file system,  *)
(* defaults, number of descriptors and size of the tables: what its        *)
(* commands keep to, that aliases stand for what they were given, that no  *)
(* command leaks a descriptor, and that one division alone faults.         *)
(***************************************************************************)
EXTENDS Shell, SequenceTheorems, WellFoundedInduction, TLAPS

-----------------------------------------------------------------------------
(* What a line, and the command of an alias, is made of.                   *)
Commands == Seq(Words) \ {<<>>}

ArgsOK ==
  /\ args \in Seq(Words) /\ Len(args) < MAX_ARGS
  /\ pc = "execute" => args # <<>>

(***************************************************************************)
(* The aliases.  A name that fits, searched from the front, finds the      *)
(* command it was given last because it never has two entries, and because *)
(* an entry whose name did not fit never reads as one that does.  Names    *)
(* that did not fit may come twice.                                        *)
(***************************************************************************)
Pair(x) == [alias |-> x.alias, command |-> x.command]

IsSeq(s) == s \in Seq({s[i] : i \in DOMAIN s})

AliasInv ==
  /\ IsSeq(aliases)
  /\ \A i \in DOMAIN aliases : aliases[i] = Pair(aliases[i])
  /\ \A i \in DOMAIN aliases : aliases[i].command \in Commands
  /\ \A i, j \in DOMAIN aliases :
       aliases[i].alias = aliases[j].alias /\ aliases[i].alias \notin Long => i = j
  /\ DOMAIN promised = {aliases[i].alias : i \in DOMAIN aliases} \ Long
  /\ \A i \in DOMAIN aliases :
       aliases[i].alias \notin Long => promised[aliases[i].alias] = aliases[i].command

LEMMA SeqOfItself ==
  ASSUME NEW s, NEW n \in Nat, DOMAIN s = 1 .. n, s = [i \in 1 .. n |-> s[i]]
  PROVE  IsSeq(s) /\ Len(s) = n
<1> DEFINE S == {s[i] : i \in DOMAIN s}
<1>1. \A i \in 1 .. n : s[i] \in S
  OBVIOUS
<1> HIDE DEF S
<1>2. s \in [1 .. n -> S]
  BY <1>1
<1>3. s \in Seq(S) /\ Len(s) = n
  BY <1>2
<1> QED
  BY <1>3 DEF IsSeq, S

LEMMA TableLength ==
  ASSUME AliasInv PROVE DOMAIN aliases = 1 .. Len(aliases) /\ Len(aliases) \in Nat
BY DEF AliasInv, IsSeq

LEMMA InitAliasInv == Init => AliasInv
<1> SUFFICES ASSUME Init PROVE AliasInv
  OBVIOUS
<1>1. aliases = DefaultAliases
  BY DEF Init
<1>2. /\ IsSeq(aliases)
      /\ \A i \in DOMAIN aliases : aliases[i] = Pair(aliases[i])
      /\ \A i \in DOMAIN aliases : aliases[i].command \in Commands
      /\ \A i, j \in DOMAIN aliases : aliases[i].alias = aliases[j].alias => i = j
      /\ \A i \in DOMAIN aliases : aliases[i].alias \notin Long
  BY <1>1, DefaultsAssumption DEF IsSeq, Pair, Commands
<1> DEFINE Names     == {aliases[i].alias : i \in DOMAIN aliases}
           Chosen(n) == CHOOSE i \in DOMAIN aliases : aliases[i].alias = n
<1>3. promised = [n \in Names |-> aliases[Chosen(n)].command]
  BY <1>1 DEF Init
<1>4. ASSUME NEW i \in DOMAIN aliases
      PROVE  promised[aliases[i].alias] = aliases[i].command
  <2>1. Chosen(aliases[i].alias) \in DOMAIN aliases
        /\ aliases[Chosen(aliases[i].alias)].alias = aliases[i].alias
    OBVIOUS
  <2>2. Chosen(aliases[i].alias) = i
    BY <1>2, <2>1
  <2>3. aliases[i].alias \in Names
    OBVIOUS
  <2> HIDE DEF Chosen, Names
  <2> QED
    BY <1>3, <2>2, <2>3
<1>5. DOMAIN promised = Names \ Long
  BY <1>2, <1>3
<1> QED
  BY <1>2, <1>4, <1>5 DEF AliasInv

(* A search that finds something stops at an entry.                        *)
LEMMA FirstFound ==
  ASSUME NEW S, S \subseteq Nat, S # {} PROVE First(S) \in S
<1>1. \E x \in S : \A y \in S : ~ (<<y, x>> \in OpToRel(<, Nat))
  BY NatLessThanWellFounded, WFMin
<1>2. PICK x \in S : \A y \in S : ~ (<<y, x>> \in OpToRel(<, Nat))
  BY <1>1
<1>3. ASSUME NEW y \in S PROVE x <= y
  <2>1. ~ (y < x)
    BY <1>2 DEF OpToRel
  <2> QED
    BY <2>1
<1> QED
  BY <1>3 DEF First

LEMMA Found ==
  ASSUME AliasInv, NEW name, Matches(name) # {}
  PROVE  /\ First(Matches(name)) \in DOMAIN aliases
         /\ aliases[First(Matches(name))].alias = name
<1>1. Matches(name) \subseteq Nat
  BY TableLength DEF Matches
<1>2. First(Matches(name)) \in Matches(name)
  BY <1>1, FirstFound
<1> QED
  BY <1>2 DEF Matches

(* What an entry reads as: a name that fits is kept, and no other fits.    *)
LEMMA EntryReads ==
  ASSUME NEW name, NEW command \in Commands
  PROVE  /\ Entry(name, command) = Pair(Entry(name, command))
         /\ Entry(name, command).command = command
         /\ name \notin Long => Entry(name, command).alias = name
         /\ name \in Long => Entry(name, command).alias \in Long
<1>1. Head(command) \in Words
  BY HeadTailProperties DEF Commands
<1>2. name \in Long => Overlaid[name][Head(command)] \in Long
  BY <1>1, LongAssumption
<1> QED
  BY <1>2 DEF Entry, Pair

(* A new command for a name that has one.                                  *)
LEMMA RenewKeepsAliasInv ==
  ASSUME AliasInv, NEW command \in Commands, NEW i \in DOMAIN aliases,
         aliases' = [aliases EXCEPT ![i] = Entry(aliases[i].alias, command)],
         promised' = Promised(aliases[i].alias, command)
  PROVE  AliasInv' /\ Len(aliases') = Len(aliases)
<1> DEFINE name == aliases[i].alias
           new  == Entry(name, command)
<1>1. /\ new = Pair(new) /\ new.command = command
      /\ name \notin Long => new.alias = name
      /\ name \in Long => new.alias \in Long
  BY EntryReads
<1>2. /\ DOMAIN aliases' = DOMAIN aliases
      /\ aliases'[i] = new
      /\ \A j \in DOMAIN aliases : j # i => aliases'[j] = aliases[j]
  OBVIOUS
<1>3. promised' = IF name \in Long THEN promised
                    ELSE [n \in DOMAIN promised \cup {name} |->
                            IF n = name THEN command ELSE promised[n]]
  BY Zenon DEF Promised
<1>4. IsSeq(aliases') /\ Len(aliases') = Len(aliases)
  <2>1. aliases' = [j \in DOMAIN aliases |-> aliases'[j]]
    OBVIOUS
  <2> QED
    BY <1>2, <2>1, TableLength, SeqOfItself
<1> HIDE DEF new
<1>5. /\ \A j \in DOMAIN aliases' : aliases'[j] = Pair(aliases'[j])
      /\ \A j \in DOMAIN aliases' : aliases'[j].command \in Commands
  BY <1>1, <1>2 DEF AliasInv
<1>6. \A j \in DOMAIN aliases :
        /\ aliases'[j].alias \in Long <=> aliases[j].alias \in Long
        /\ aliases[j].alias \notin Long => aliases'[j].alias = aliases[j].alias
  BY <1>1, <1>2
<1>7. \A j, k \in DOMAIN aliases' :
        aliases'[j].alias = aliases'[k].alias /\ aliases'[j].alias \notin Long => j = k
  BY <1>2, <1>6 DEF AliasInv
<1>8. DOMAIN promised' = {aliases'[j].alias : j \in DOMAIN aliases'} \ Long
  <2>1. {aliases'[j].alias : j \in DOMAIN aliases'} \ Long =
           {aliases[j].alias : j \in DOMAIN aliases} \ Long
    BY <1>2, <1>6
  <2>2. DOMAIN promised' = DOMAIN promised
    <3>1. CASE name \in Long
      BY <1>3, <3>1
    <3>2. CASE name \notin Long
      <4>1. name \in DOMAIN promised
        BY <3>2 DEF AliasInv
      <4> QED
        BY <1>3, <3>2, <4>1
    <3> QED
      BY <3>1, <3>2
  <2> QED
    BY <2>1, <2>2 DEF AliasInv
<1>9. ASSUME NEW j \in DOMAIN aliases, aliases[j].alias \notin Long
      PROVE  promised'[aliases'[j].alias] = aliases'[j].command
  <2>1. aliases[j].alias \in DOMAIN promised
        /\ promised[aliases[j].alias] = aliases[j].command
    BY <1>9 DEF AliasInv
  <2>2. CASE j = i
    <3>1. promised'[name] = command
      BY <1>3, <1>9, <2>2
    <3> QED
      BY <1>1, <1>2, <1>9, <2>2, <3>1
  <2>3. CASE j # i
    <3>1. aliases[j].alias # name
      BY <1>9, <2>3 DEF AliasInv
    <3>2. promised'[aliases[j].alias] = promised[aliases[j].alias]
      BY <1>3, <2>1, <3>1
    <3> QED
      BY <1>2, <2>1, <2>3, <3>2
  <2> QED
    BY <2>2, <2>3
<1>10. \A j \in DOMAIN aliases' :
         aliases'[j].alias \notin Long => promised'[aliases'[j].alias] = aliases'[j].command
  BY <1>2, <1>6, <1>9
<1> QED
  BY <1>4, <1>5, <1>7, <1>8, <1>10 DEF AliasInv, IsSeq

(* A command for a name that has none.                                     *)
LEMMA AddKeepsAliasInv ==
  ASSUME AliasInv, NEW name, NEW command \in Commands, Matches(name) = {},
         aliases' = Append(aliases, Entry(name, command)),
         promised' = Promised(name, command)
  PROVE  AliasInv' /\ Len(aliases') = Len(aliases) + 1
<1> DEFINE new == Entry(name, command)
           S   == {aliases[i] : i \in DOMAIN aliases} \cup {new}
           n   == Len(aliases)
<1>1. aliases \in Seq(S) /\ n \in Nat /\ DOMAIN aliases = 1 .. n
  <2>1. aliases \in Seq({aliases[i] : i \in DOMAIN aliases})
    BY DEF AliasInv, IsSeq
  <2>2. n \in Nat /\ DOMAIN aliases = 1 .. n
    BY <2>1
  <2>3. \A i \in 1 .. n : aliases[i] \in S
    BY <2>2
  <2> HIDE DEF S
  <2> QED
    BY <2>1, <2>2, <2>3
<1>2. new \in S
  OBVIOUS
<1>3. /\ new = Pair(new) /\ new.command = command
      /\ name \notin Long => new.alias = name
      /\ name \in Long => new.alias \in Long
  BY EntryReads
<1>4. promised' = IF name \in Long THEN promised
                    ELSE [m \in DOMAIN promised \cup {name} |->
                            IF m = name THEN command ELSE promised[m]]
  BY Zenon DEF Promised
<1> HIDE DEF S
<1>5. /\ DOMAIN aliases' = 1 .. n + 1 /\ Len(aliases') = n + 1 /\ aliases' \in Seq(S)
      /\ aliases'[n + 1] = new
      /\ \A i \in 1 .. n : aliases'[i] = aliases[i]
  <2> HIDE DEF new
  <2>1. aliases' = Append(aliases, new)
    BY DEF new
  <2> QED
    BY <1>1, <1>2, <2>1
<1> HIDE DEF new
<1>6. IsSeq(aliases')
  <2> HIDE DEF n
  <2>1. aliases' = [j \in 1 .. n + 1 |-> aliases'[j]]
    <3>1. aliases' \in [1 .. Len(aliases') -> S]
      BY <1>5, LenProperties
    <3> QED
      BY <1>5, <3>1
  <2>2. n + 1 \in Nat
    BY <1>1
  <2> QED
    BY <1>5, <2>1, <2>2, SeqOfItself
<1>7. \A i \in 1 .. n : aliases[i].alias # name
  BY <1>1 DEF Matches
<1>8. \A i \in 1 .. n + 1 : i \in 1 .. n \/ i = n + 1
  BY <1>1
<1>9. /\ \A i \in DOMAIN aliases' : aliases'[i] = Pair(aliases'[i])
      /\ \A i \in DOMAIN aliases' : aliases'[i].command \in Commands
  BY <1>1, <1>3, <1>5, <1>8 DEF AliasInv
<1>10. \A i, j \in DOMAIN aliases' :
         aliases'[i].alias = aliases'[j].alias /\ aliases'[i].alias \notin Long => i = j
  BY <1>1, <1>3, <1>5, <1>7, <1>8 DEF AliasInv
<1>11. DOMAIN promised' = {aliases'[i].alias : i \in DOMAIN aliases'} \ Long
  <2>1. DOMAIN promised = {aliases[i].alias : i \in 1 .. n} \ Long
    BY <1>1 DEF AliasInv
  <2>2. n + 1 \in 1 .. n + 1 /\ 1 .. n \subseteq 1 .. n + 1
    BY <1>1
  <2>3. {aliases'[i].alias : i \in DOMAIN aliases'} =
           {aliases[i].alias : i \in 1 .. n} \cup {new.alias}
    BY <1>5, <1>8, <2>2
  <2>4. CASE name \in Long
    BY <1>3, <1>4, <2>1, <2>3, <2>4
  <2>5. CASE name \notin Long
    <3>1. DOMAIN promised' = DOMAIN promised \cup {name}
      BY <1>4, <2>5
    <3> QED
      BY <1>3, <2>1, <2>3, <2>5, <3>1
  <2> QED
    BY <2>4, <2>5
<1>12. ASSUME NEW i \in DOMAIN aliases', aliases'[i].alias \notin Long
       PROVE  promised'[aliases'[i].alias] = aliases'[i].command
  <2>1. CASE i = n + 1
    <3>1. name \notin Long /\ aliases'[i].alias = name /\ aliases'[i].command = command
      BY <1>3, <1>5, <1>12, <2>1
    <3> QED
      BY <1>4, <3>1
  <2>2. CASE i \in 1 .. n
    <3>1. aliases[i].alias # name /\ aliases[i].alias \in DOMAIN promised
      BY <1>1, <1>5, <1>7, <1>12, <2>2 DEF AliasInv
    <3>2. promised[aliases[i].alias] = aliases[i].command
      BY <1>1, <1>5, <1>12, <2>2 DEF AliasInv
    <3>3. promised'[aliases[i].alias] = promised[aliases[i].alias]
      BY <1>4, <3>1
    <3> QED
      BY <1>5, <2>2, <3>2, <3>3
  <2> QED
    BY <1>5, <1>8, <2>1, <2>2
<1> QED
  BY <1>5, <1>6, <1>9, <1>10, <1>11, <1>12 DEF AliasInv, IsSeq

-----------------------------------------------------------------------------
(***************************************************************************)
(* What is proved of Vfs holds under the shell, which is a client that     *)
(* opens the paths of its words and closes what it opened.                 *)
(***************************************************************************)
VP == INSTANCE VfsProofs WITH
  Paths <- {PathOf[w] : w \in DOMAIN PathOf},
  Flags <- {O_RDONLY, O_WRONLY \cup O_CREAT}, Offsets <- {}

LEMMA VfsAssumptions ==
  /\ VP!MaxAssumption /\ VP!WordAssumption /\ VP!NodesAssumption
  /\ VP!PathsAssumption /\ VP!FlagsAssumption /\ VP!SizesAssumption
  /\ VP!OffsetsAssumption /\ VP!TreeAssumption
<1>1. VP!PathsAssumption
  BY WordsAssumption DEF VP!PathsAssumption
<1>2. VP!FlagsAssumption
  BY DEF VP!FlagsAssumption, O_RDONLY, O_WRONLY, O_CREAT
<1> QED
  BY <1>1, <1>2, FilesAssumption DEF VP!MaxAssumption, VP!WordAssumption,
     VP!NodesAssumption, VP!SizesAssumption, VP!OffsetsAssumption,
     VP!TreeAssumption, VP!Nodes

-----------------------------------------------------------------------------
(***************************************************************************)
(* The inductive invariant.  The words of a line come from typed input or  *)
(* from an alias, and an alias gets its command from such words: that      *)
(* every command is a list of words, and none is blank, is one invariant   *)
(* with the bounds on both.  The table of descriptors has that of Vfs.     *)
(***************************************************************************)
AliasesOK ==
  /\ AliasInv
  /\ Len(aliases) <= MAX_ALIASES

SettingsOK ==
  /\ pc \in {"prompt", "execute", "read", "write", "close", "check",
             "left", "halted", "reset"}
  /\ typed.bare \in BOOLEAN
  /\ settings \in [{"debug", "color", "echo"} -> BOOLEAN]
  /\ current_directory \in {"/"} \cup DOMAIN Child[Root]
  /\ last_exit_code \in {0, 1, 126, 127}

FdOK == fd \in -1 .. MAX_FILE_DESCRIPTORS - 1

TInv == ArgsOK /\ AliasesOK /\ SettingsOK /\ FdOK /\ VP!IInv

(* parse_command cuts, and leaves no line blank that was not.              *)
LEMMA Parsed ==
  ASSUME NEW words \in Seq(Words)
  PROVE  /\ parse_command(words) \in Seq(Words) /\ Len(parse_command(words)) < MAX_ARGS
         /\ words # <<>> => parse_command(words) # <<>>
<1>1. Len(words) \in Nat /\ MAX_ARGS \in Nat /\ MAX_ARGS > 4
  BY LimitsAssumption, LenProperties
<1>2. CASE Len(words) < MAX_ARGS
  BY <1>2 DEF parse_command
<1>3. CASE ~ (Len(words) < MAX_ARGS)
  <2> DEFINE front == SubSeq(words, 1, MAX_ARGS - 1)
  <2>1. MAX_ARGS - 1 \in 0 .. Len(words) /\ MAX_ARGS - 1 \in Nat /\ MAX_ARGS - 1 # 0
    BY <1>1, <1>3
  <2>2. front \in Seq(Words) /\ Len(front) = MAX_ARGS - 1
    BY <2>1
  <2>3. front # <<>>
    <3> HIDE DEF front
    <3> QED
      BY <2>1, <2>2, EmptySeq
  <2>4. parse_command(words) = front
    BY <1>3 DEF parse_command
  <2> HIDE DEF front
  <2> QED
    BY <1>1, <2>2, <2>3, <2>4
<1> QED
  BY <1>2, <1>3

(* An alias is found in the table, and its command is parsed again.        *)
LEMMA Resolved ==
  ASSUME AliasesOK, NEW words \in Commands, Len(words) < MAX_ARGS
  PROVE  resolve_alias(words) \in Commands /\ Len(resolve_alias(words)) < MAX_ARGS
<1>1. CASE Matches(words[1]) = {}
  BY <1>1 DEF resolve_alias
<1>2. CASE Matches(words[1]) # {}
  <2> DEFINE i == First(Matches(words[1]))
  <2>1. i \in DOMAIN aliases
    BY <1>2, Found DEF AliasesOK
  <2>2. resolve_alias(words) = parse_command(aliases[i].command)
    BY <1>2 DEF resolve_alias
  <2>3. aliases[i].command \in Commands
    BY <2>1 DEF AliasesOK, AliasInv
  <2> QED
    BY <2>2, <2>3, Parsed DEF Commands
<1> QED
  BY <1>1, <1>2

(* Only a line that is read changes args.                                  *)
LEMMA ArgsStep == ASSUME TInv, [Next]_vars PROVE ArgsOK'
<1>1. ASSUME NEW line \in Lines, Read(line) PROVE ArgsOK'
  <2>1. CASE line.words = <<>>
    BY <1>1, <2>1 DEF Read, ArgsOK, TInv
  <2>2. CASE line.words # <<>>
    <3>1. line.words \in Seq(Words)
      BY LinesAssumption
    <3>2. parse_command(line.words) \in Commands /\ Len(parse_command(line.words)) < MAX_ARGS
      BY <2>2, <3>1, Parsed DEF Commands
    <3>3. args' = resolve_alias(parse_command(line.words))
      BY <1>1, <2>2 DEF Read
    <3>4. args' \in Commands /\ Len(args') < MAX_ARGS
      BY <3>2, <3>3, Resolved DEF TInv
    <3> QED
      BY <3>4 DEF ArgsOK, Commands
  <2> QED
    BY <2>1, <2>2
<1>2. CASE UNCHANGED vars
  BY <1>2 DEF vars, ArgsOK, TInv
<1>3. ASSUME Step PROVE UNCHANGED args /\ pc' # "execute"
  BY <1>3 DEF Step, execute_command, PrintOnly, ls, exit, shutdown, reboot, cd, alias, set,
     calculator, cat, touch, write, Opens, ReadOn, WriteAll, Close, Calls, NotBuiltin,
     CheckExit, Stays
<1>4. CASE Step
  BY <1>3, <1>4 DEF ArgsOK, TInv
<1> QED
  BY <1>1, <1>2, <1>4 DEF Next

(* Only alias changes the table, and stops at its last entry.              *)
LEMMA AliasesStep == ASSUME TInv, [Next]_vars PROVE AliasesOK'
<1>1. CASE UNCHANGED <<aliases, promised>>
  BY <1>1 DEF TInv, AliasesOK, AliasInv, IsSeq
<1>2. CASE alias
  <2> DEFINE name    == args[2]
             command == <<args[3]>>
  <2>1. CASE /\ Len(args) = 3 /\ ~ (Len(aliases) >= MAX_ALIASES)
             /\ aliases' = Updated(name, command)
             /\ promised' = Promised(name, command)
    <3>1. command \in Commands
      <4>1. args[3] \in Words
        BY <2>1 DEF TInv, ArgsOK
      <4> QED
        BY <4>1 DEF Commands
    <3>2. AliasInv /\ Len(aliases) \in Nat /\ MAX_ALIASES \in Nat
      BY TableLength, LimitsAssumption DEF TInv, AliasesOK
    <3> HIDE DEF name, command
    <3>3. CASE Matches(name) = {}
      <4>1. aliases' = Append(aliases, Entry(name, command))
        BY <2>1, <3>3 DEF Updated
      <4>2. AliasInv' /\ Len(aliases') = Len(aliases) + 1
        BY <2>1, <3>1, <3>2, <3>3, <4>1, AddKeepsAliasInv
      <4> QED
        BY <2>1, <3>2, <4>2 DEF AliasesOK
    <3>4. CASE Matches(name) # {}
      <4> DEFINE i == First(Matches(name))
      <4>1. i \in DOMAIN aliases /\ aliases[i].alias = name
        BY <3>2, <3>4, Found
      <4>2. aliases' = [aliases EXCEPT ![i] = Entry(aliases[i].alias, command)]
        BY <2>1, <3>4, <4>1 DEF Updated
      <4>3. promised' = Promised(aliases[i].alias, command)
        BY <2>1, <4>1
      <4> HIDE DEF i
      <4>4. AliasInv' /\ Len(aliases') = Len(aliases)
        BY <3>1, <3>2, <4>1, <4>2, <4>3, RenewKeepsAliasInv
      <4> QED
        BY <2>1, <3>2, <4>4 DEF AliasesOK
    <3> QED
      BY <3>3, <3>4
  <2> QED
    BY <1>1, <1>2, <2>1 DEF alias, add_alias
<1>3. ASSUME ~ alias PROVE UNCHANGED <<aliases, promised>>
  BY <1>3 DEF Next, Step, execute_command, PrintOnly, ls, exit, shutdown, reboot, cd, set,
     calculator, cat, touch, write, Opens, ReadOn, WriteAll, Close, Calls, NotBuiltin,
     CheckExit, Read, Stays, vars
<1> QED
  BY <1>1, <1>2, <1>3

(* Each of the other variables has its own commands.                       *)
LEMMA SettingsStep == ASSUME TInv, [Next]_vars PROVE SettingsOK'
<1>1. pc' \in {"prompt", "execute", "read", "write", "close", "check",
               "left", "halted", "reset"}
  BY DEF TInv, SettingsOK, Next, Step, execute_command, PrintOnly, ls, exit, shutdown,
     reboot, cd, alias, set, calculator, cat, touch, write, Opens, ReadOn, WriteAll,
     Close, Calls, NotBuiltin, CheckExit, Read, Stays, vars
<1>2. typed'.bare \in BOOLEAN
  <2>1. ASSUME NEW line \in Lines, Read(line) PROVE typed'.bare \in BOOLEAN
    BY <2>1, LinesAssumption DEF Read
  <2>2. ASSUME Step \/ UNCHANGED vars PROVE UNCHANGED typed
    BY <2>2 DEF Step, execute_command, PrintOnly, ls, exit, shutdown, reboot, cd, alias,
       set, calculator, cat, touch, write, Opens, ReadOn, WriteAll, Close, Calls,
       NotBuiltin, CheckExit, Stays, vars
  <2> QED
    BY <2>1, <2>2 DEF Next, TInv, SettingsOK
<1>3. settings' \in [{"debug", "color", "echo"} -> BOOLEAN]
  <2>1. CASE set
    BY <2>1 DEF set, TInv, SettingsOK
  <2>2. ASSUME ~ set PROVE UNCHANGED settings
    BY <2>2 DEF Next, Step, execute_command, PrintOnly, ls, exit, shutdown, reboot, cd,
       alias, calculator, cat, touch, write, Opens, ReadOn, WriteAll, Close, Calls,
       NotBuiltin, CheckExit, Read, Stays, vars
  <2> QED
    BY <2>1, <2>2 DEF TInv, SettingsOK
<1>4. /\ current_directory' \in {"/"} \cup DOMAIN Child[Root]
      /\ last_exit_code' \in {0, 1, 126, 127}
  <2>1. CASE cd
    <3> DEFINE path == IF Len(args) > 1 THEN args[2] ELSE "/"
    <3>1. ASSUME NEW node \in FS!vfs_finddir(Root, path) \cap Directories
          PROVE  path \in DOMAIN Child[Root]
      <4>1. node # NULL
        BY FilesAssumption
      <4> QED
        BY <4>1 DEF FS!vfs_finddir, FS!Names
    <3> HIDE DEF path
    <3>2. PICK node \in FS!vfs_finddir(Root, path) :
            IF node \in Directories
              THEN current_directory' = path /\ last_exit_code' = 0
              ELSE last_exit_code' = 1 /\ UNCHANGED current_directory
      BY <2>1 DEF cd, path
    <3> QED
      BY <3>1, <3>2 DEF TInv, SettingsOK
  <2>2. CASE NotBuiltin
    BY <2>2 DEF NotBuiltin, TInv, SettingsOK
  <2>3. ASSUME NEW line \in Lines, Read(line)
        PROVE  UNCHANGED current_directory /\ last_exit_code' \in {0, last_exit_code}
    BY <2>3 DEF Read
  <2>4. ASSUME ~ cd, ~ NotBuiltin, Step \/ UNCHANGED vars
        PROVE  UNCHANGED <<current_directory, last_exit_code>>
    BY <2>4 DEF Step, execute_command, PrintOnly, ls, exit, shutdown, reboot, alias, set,
       calculator, cat, touch, write, Opens, ReadOn, WriteAll, Close, Calls, CheckExit,
       Stays, vars
  <2> QED
    BY <2>1, <2>2, <2>3, <2>4 DEF Next, TInv, SettingsOK
<1> QED
  BY <1>1, <1>2, <1>3, <1>4 DEF SettingsOK

-----------------------------------------------------------------------------
(* What the shell calls is what a client of Vfs may call.                  *)
LEMMA OpensIsOpen ==
  ASSUME TInv, NEW name, NEW least \in {2, 3},
         NEW flags \in {O_RDONLY, O_WRONLY \cup O_CREAT}, NEW next,
         Opens(name, least, flags, next)
  PROVE  FdOK' /\ (VP!Next \/ UNCHANGED files)
<1>1. CASE UNCHANGED <<fd, files>>
  BY <1>1 DEF TInv, FdOK
<1>2. CASE /\ Len(args) >= least /\ FS!open(PathOf[args[2]], flags) /\ fd' = last'.ret
  <2>1. PathOf[args[2]] \in {PathOf[w] : w \in DOMAIN PathOf}
    <3>1. 2 \in 1 .. Len(args) /\ args \in Seq(Words)
      <4>1. args \in Seq(Words)
        BY DEF TInv, ArgsOK
      <4>2. Len(args) \in Nat
        BY <4>1, LenProperties
      <4> QED
        BY <1>2, <4>1, <4>2
    <3>2. args[2] \in Words
      BY <3>1
    <3> QED
      BY <3>2, WordsAssumption
  <2>2. VP!open(PathOf[args[2]], flags)
    BY <1>2 DEF FS!open, FS!Opened, FS!FDs, FS!FirstFree, FS!Used, FS!vfs_open,
       FS!LeadsTo, FS!vfs_finddir, FS!Names, FS!Nodes, FS!Returns, FS!Fails, VP!open,
       VP!Opened, VP!FDs, VP!FirstFree, VP!Used, VP!vfs_open, VP!LeadsTo,
       VP!vfs_finddir, VP!Names, VP!Nodes, VP!Returns, VP!Fails
  <2>3. VP!Next
    BY <2>1, <2>2 DEF VP!Next
  <2>4. FdOK'
    BY <1>2, FilesAssumption DEF FS!open, FS!Opened, FS!FDs, FS!Returns, FS!Fails, FdOK
  <2> QED
    BY <2>3, <2>4
<1> QED
  BY <1>1, <1>2 DEF Opens

LEMMA FilesStep ==
  ASSUME TInv, [Next]_vars
  PROVE  FdOK' /\ (VP!Next \/ UNCHANGED files)
<1>1. fd \in VP!Arguments
  BY FilesAssumption DEF TInv, FdOK, VP!Arguments
<1>2. CASE cat \/ touch \/ write
  BY <1>2, OpensIsOpen DEF cat, touch, write
<1>3. CASE ReadOn
  <2>1. PICK size \in Sizes : FS!read(fd, size) /\ UNCHANGED fd
    BY <1>3 DEF ReadOn, Calls
  <2>2. VP!read(fd, size)
    BY <2>1 DEF FS!read, FS!Valid, FS!Used, FS!FDs, FS!NotOpenedForReading, FS!Fails,
       FS!Returns, FS!Transfer, FS!Transferred, FS!Advance, FS!Signed, FS!O_RDONLY,
       FS!O_RDWR, VP!read, VP!Valid, VP!Used, VP!FDs, VP!NotOpenedForReading, VP!Fails,
       VP!Returns, VP!Transfer, VP!Transferred, VP!Advance, VP!Signed, VP!O_RDONLY,
       VP!O_RDWR
  <2> QED
    BY <1>1, <2>1, <2>2 DEF VP!Next, TInv, FdOK
<1>4. CASE WriteAll
  <2>1. PICK size \in Sizes : FS!write(fd, size) /\ UNCHANGED fd
    BY <1>4 DEF WriteAll, Calls
  <2>2. VP!write(fd, size)
    BY <2>1 DEF FS!write, FS!Valid, FS!Used, FS!FDs, FS!NotOpenedForWriting, FS!Fails,
       FS!Returns, FS!Transfer, FS!Transferred, FS!Advance, FS!Signed, FS!O_WRONLY,
       FS!O_RDWR, VP!write, VP!Valid, VP!Used, VP!FDs, VP!NotOpenedForWriting, VP!Fails,
       VP!Returns, VP!Transfer, VP!Transferred, VP!Advance, VP!Signed, VP!O_WRONLY,
       VP!O_RDWR
  <2> QED
    BY <1>1, <2>1, <2>2 DEF VP!Next, TInv, FdOK
<1>5. CASE Close
  <2>1. FS!close(fd) /\ UNCHANGED fd
    BY <1>5 DEF Close, Calls
  <2>2. VP!close(fd)
    BY <2>1 DEF FS!close, FS!Valid, FS!Used, FS!FDs, FS!Fails, FS!Returns, FS!Free,
       VP!close, VP!Valid, VP!Used, VP!FDs, VP!Fails, VP!Returns, VP!Free
  <2> QED
    BY <1>1, <2>1, <2>2 DEF VP!Next, TInv, FdOK
<1>6. ASSUME ~ (cat \/ touch \/ write), ~ ReadOn, ~ WriteAll, ~ Close
      PROVE  UNCHANGED <<fd, files>>
  BY <1>6 DEF Next, Step, execute_command, PrintOnly, ls, exit, shutdown, reboot, cd,
     alias, set, calculator, NotBuiltin, CheckExit, Read, Stays, vars
<1> QED
  BY <1>2, <1>3, <1>4, <1>5, <1>6 DEF TInv, FdOK

LEMMA NextTInv == ASSUME TInv, [Next]_vars PROVE TInv'
<1>1. [VP!Next]_(VP!vars)
  BY FilesStep DEF VP!vars, files
<1>2. VP!IInv'
  BY <1>1, VfsAssumptions, VP!NextIInv DEF TInv
<1> QED
  BY <1>2, ArgsStep, AliasesStep, SettingsStep, FilesStep DEF TInv

LEMMA InitTInv == Init => TInv
<1> SUFFICES ASSUME Init PROVE TInv
  OBVIOUS
<1>1. AliasesOK
  <2>1. AliasInv
    BY InitAliasInv
  <2>2. aliases = DefaultAliases
    BY DEF Init
  <2> QED
    BY <2>1, <2>2, DefaultsAssumption, LimitsAssumption DEF AliasesOK, Commands
<1>2. ArgsOK
  <2>1. args = <<>> /\ pc = "prompt"
    BY DEF Init
  <2>2. <<>> \in Seq(Words) /\ Len(<<>>) = 0
    OBVIOUS
  <2> QED
    BY <2>1, <2>2, LimitsAssumption DEF ArgsOK
<1>3. SettingsOK
  <2>1. [debug |-> FALSE, color |-> TRUE, echo |-> TRUE]
          \in [{"debug", "color", "echo"} -> BOOLEAN]
    <3> DEFINE r == [debug |-> FALSE, color |-> TRUE, echo |-> TRUE]
    <3>1. DOMAIN r = {"debug", "color", "echo"}
      OBVIOUS
    <3>2. r = [x \in DOMAIN r |-> r[x]]
      OBVIOUS
    <3>3. r["debug"] = FALSE /\ r["color"] = TRUE /\ r["echo"] = TRUE
      OBVIOUS
    <3> HIDE DEF r
    <3>4. r \in [{"debug", "color", "echo"} -> BOOLEAN]
      BY <3>1, <3>2, <3>3
    <3> QED
      BY <3>4 DEF r
  <2>2. typed.bare = TRUE
    BY DEF Init
  <2> QED
    BY <2>1, <2>2 DEF Init, SettingsOK
<1>4. FdOK
  BY FilesAssumption DEF Init, FdOK
<1>5. VP!IInv
  <2>1. VP!Init
    BY DEF Init, FS!Init, FS!FDs, FS!Free, VP!Init, VP!FDs, VP!Free
  <2> QED
    BY <2>1, VfsAssumptions, VP!InitIInv
<1> QED
  BY <1>1, <1>2, <1>3, <1>4, <1>5 DEF TInv

(***************************************************************************)
(* Whatever is typed (shell.c:80-94, 97-116, 274-553): args holds fewer    *)
(* words than its array, the table of aliases never outgrows its own, and  *)
(* the descriptors have the types that vfs.c gives them.                   *)
(***************************************************************************)
THEOREM TypeCorrect == Spec => []TypeOK
<1>1. TInv => TypeOK
  <2> SUFFICES ASSUME TInv PROVE TypeOK
    OBVIOUS
  <2>1. FS!TypeOK
    BY DEF TInv, VP!IInv, VP!TypeOK, VP!Entry, VP!Nodes, VP!FDs, FS!TypeOK, FS!Entry,
       FS!Nodes, FS!FDs
  <2> QED
    BY <2>1 DEF TInv, ArgsOK, AliasesOK, SettingsOK, FdOK, TypeOK
<1> QED
  BY <1>1, InitTInv, NextTInv, PTL DEF Spec

(***************************************************************************)
(* For every table of aliases: what add_alias (shell.c:97-116) accepted    *)
(* last for a name that fits in alias[32] is what resolve_alias finds,     *)
(* until it is given another, whatever longer names have left before it.   *)
(***************************************************************************)
THEOREM AliasesStand == Spec => []AliasesAsPromised
<1>1. TInv => AliasesAsPromised
  <2> SUFFICES ASSUME TInv PROVE AliasesAsPromised
    OBVIOUS
  <2>1. AliasInv
    BY DEF TInv, AliasesOK
  <2>2. ASSUME NEW n \in DOMAIN promised
        PROVE  resolve_alias(<<n>>) = parse_command(promised[n])
    <3>1. Matches(n) # {} /\ n \notin Long
      BY <2>1 DEF AliasInv, Matches
    <3>2. aliases[First(Matches(n))].command = promised[n]
      BY <2>1, <3>1, Found DEF AliasInv
    <3>3. <<n>>[1] = n
      OBVIOUS
    <3> QED
      BY <3>1, <3>2, <3>3, Zenon DEF resolve_alias
  <2> QED
    BY <2>1, <2>2 DEF AliasInv, AliasesAsPromised
<1> QED
  BY <1>1, InitTInv, NextTInv, PTL DEF Spec

-----------------------------------------------------------------------------
(* Where a command is between its open and its close.                      *)
Using == {"read", "write", "close"}

(***************************************************************************)
(* The descriptor that Vfs counts as held is the one in the local variable *)
(* fd while a command uses it, and there is none otherwise.  That the      *)
(* table agrees with held (HeldIsUsed of Vfs, in TInv) is what makes close *)
(* give the descriptor back.                                               *)
(***************************************************************************)
HeldByCommand == held = IF pc \in Using THEN {fd} ELSE {}

(* cat, touch and write begin with open, and end there when it fails.      *)
LEMMA OpensHold ==
  ASSUME HeldByCommand, NEW name, NEW least, NEW flags, NEW next \in Using,
         Opens(name, least, flags, next)
  PROVE  HeldByCommand'
<1>1. pc = "execute" /\ held = {}
  BY DEF Opens, Command, HeldByCommand, Using
<1>2. CASE pc' = "check" /\ UNCHANGED <<fd, files>>
  BY <1>1, <1>2 DEF files, HeldByCommand, Using
<1>3. CASE /\ FS!open(PathOf[args[2]], flags)
           /\ fd' = last'.ret
           /\ pc' = IF last'.ret < 0 THEN "check" ELSE next
  <2>1. CASE FS!Fails("open", -1)
    <3>1. last'.ret = -1 /\ held' = {}
      BY <1>1, <2>1 DEF FS!Fails, FS!Returns
    <3>2. pc' = "check"
      BY <1>3, <3>1
    <3> QED
      BY <3>1, <3>2 DEF HeldByCommand, Using
  <2>2. ASSUME NEW d \in FS!FDs, FS!Opened(d, PathOf[args[2]], flags)
        PROVE  HeldByCommand'
    <3>1. last'.ret = d /\ held' = {d}
      BY <1>1, <2>2 DEF FS!Opened, FS!Returns
    <3>2. ~ (d < 0)
      BY FilesAssumption DEF FS!FDs
    <3>3. pc' = next /\ fd' = d
      BY <1>3, <3>1, <3>2
    <3> QED
      BY <3>1, <3>3 DEF HeldByCommand
  <2> QED
    BY <1>3, <2>1, <2>2 DEF FS!open
<1> QED
  BY <1>2, <1>3 DEF Opens

LEMMA HeldStep == ASSUME TInv, HeldByCommand, [Next]_vars PROVE HeldByCommand'
<1>1. CASE cat \/ touch \/ write
  <2>1. {"read", "close", "write"} \subseteq Using
    BY DEF Using
  <2> QED
    BY <1>1, <2>1, OpensHold DEF cat, touch, write
<1>2. CASE ReadOn \/ WriteAll
  <2>1. UNCHANGED <<held, fd>>
    BY <1>2 DEF ReadOn, WriteAll, Calls, FS!read, FS!write, FS!Fails, FS!Transfer
  <2>2. pc \in Using /\ pc' \in Using
    BY <1>2 DEF ReadOn, WriteAll, Calls, Using
  <2> QED
    BY <2>1, <2>2 DEF HeldByCommand
<1>3. CASE Close
  <2>1. pc = "close" /\ pc' = "check" /\ FS!close(fd)
    BY <1>3 DEF Close, Calls
  <2>2. held = {fd}
    BY <2>1 DEF HeldByCommand, Using
  <2>3. FS!Valid(fd)
    BY <2>2 DEF TInv, VP!IInv, VP!HeldIsUsed, VP!Used, VP!FDs, FS!Valid, FS!Used, FS!FDs
  <2>4. held' = {}
    BY <2>1, <2>2, <2>3 DEF FS!close
  <2> QED
    BY <2>1, <2>4 DEF HeldByCommand, Using
<1>4. CASE \/ PrintOnly \/ ls \/ exit \/ shutdown \/ reboot \/ cd \/ alias \/ set
           \/ calculator \/ NotBuiltin \/ CheckExit \/ \E line \in Lines : Read(line)
  <2>1. pc \notin Using /\ pc' \notin Using /\ UNCHANGED held
    BY <1>4 DEF PrintOnly, ls, exit, shutdown, reboot, cd, alias, set, calculator,
       NotBuiltin, CheckExit, Read, Command, Stays, Using, files
  <2> QED
    BY <2>1 DEF HeldByCommand
<1>5. CASE UNCHANGED vars
  BY <1>5 DEF vars, files, HeldByCommand
<1> QED
  BY <1>1, <1>2, <1>3, <1>4, <1>5 DEF Next, Step, execute_command

(***************************************************************************)
(* Whatever is typed and whatever the file system answers, the shell       *)
(* prompts, and is left, with every descriptor given back                  *)
(* (shell.c:396-482).                                                      *)
(***************************************************************************)
THEOREM NoDescriptorLeaks == Spec => []NothingHeldAtPrompt
<1>1. Init => HeldByCommand
  BY DEF Init, FS!Init, HeldByCommand, Using
<1>2. HeldByCommand => NothingHeldAtPrompt
  BY DEF HeldByCommand, Using, NothingHeldAtPrompt
<1> QED
  BY <1>1, <1>2, InitTInv, NextTInv, HeldStep, PTL DEF Spec

-----------------------------------------------------------------------------
(* Divided by 2 or more, a number gets smaller.                            *)
LEMMA SmallQuotient ==
  ASSUME NEW a \in Nat, NEW b \in Nat, b >= 2, a > 0
  PROVE  a \div b \in Nat /\ a \div b < a
<1> DEFINE q == a \div b
           r == a % b
<1>1. q \in Int /\ r \in Int /\ a = b * q + r /\ 0 <= r /\ r < b
  OBVIOUS
<1> HIDE DEF q, r
<1>2. q >= 0
  <2>1. CASE q <= -1
    <3>1. b * q <= -b
      BY <1>1, <2>1
    <3> QED
      BY <1>1, <3>1
  <2> QED
    BY <1>1, <2>1
<1>3. \A x \in Nat, y \in Nat : y >= 2 => y * x >= 2 * x
  OBVIOUS
<1>4. b * q >= 2 * q
  BY <1>1, <1>2, <1>3
<1>5. b * q \in Int
  BY <1>1
<1>6. q \in Nat /\ q < a
  BY <1>1, <1>2, <1>4, <1>5
<1> QED
  BY <1>6 DEF q

LEMMA DivideByOne ==
  ASSUME NEW a \in Nat PROVE a \div 1 = a
OBVIOUS

(* Of all divisions with a divisor the least int by -1 alone has a         *)
(* quotient that is no int.                                                *)
LEMMA OnlyOverflow ==
  ASSUME NEW a \in -MaxInt - 1 .. MaxInt, NEW b \in -MaxInt - 1 .. MaxInt,
         b # 0, Faults(a, b)
  PROVE  a = -MaxInt - 1 /\ b = -1
<1>1. MaxInt \in Nat /\ a \in Int /\ b \in Int /\ -MaxInt - 1 <= a /\ a <= MaxInt
  BY WordsAssumption
<1>2. /\ Abs(a) \in Nat /\ Abs(a) <= MaxInt + 1
      /\ Abs(b) \in Nat /\ Abs(b) > 0
  BY <1>1 DEF Abs
<1> DEFINE q == Abs(a) \div Abs(b)
<1>3. q \in Nat /\ (Abs(b) >= 2 => q <= MaxInt) /\ (Abs(b) = 1 => q = Abs(a))
  <2>1. CASE Abs(b) = 1
    BY <1>2, <2>1, DivideByOne
  <2>2. CASE Abs(b) >= 2 /\ Abs(a) > 0
    <3>1. q \in Nat /\ q < Abs(a)
      BY <1>2, <2>2, SmallQuotient
    <3> HIDE DEF q
    <3> QED
      BY <1>1, <1>2, <2>2, <3>1
  <2>3. CASE Abs(b) >= 2 /\ Abs(a) = 0
    <3>1. \A y \in Nat : y > 0 => 0 \div y = 0
      OBVIOUS
    <3>2. q = 0
      BY <1>2, <2>3, <3>1
    <3> HIDE DEF q
    <3> QED
      BY <1>1, <1>2, <2>3, <3>2
  <2> QED
    BY <1>2, <2>1, <2>2, <2>3
<1>4. Quotient(a, b) = IF (a < 0) = (b < 0) THEN q ELSE -q
  BY DEF Quotient
<1>5. Quotient(a, b) \notin -MaxInt - 1 .. MaxInt
  BY DEF Faults
<1> HIDE DEF q
<1>6. Abs(b) = 1 /\ q = Abs(a) /\ q = MaxInt + 1 /\ ((a < 0) = (b < 0))
  <2>1. ~ (q <= MaxInt)
    BY <1>1, <1>3, <1>4, <1>5
  <2>2. Abs(b) = 1 /\ q = Abs(a)
    BY <1>2, <1>3, <2>1
  <2>3. q = MaxInt + 1
    BY <1>1, <1>2, <2>1, <2>2
  <2>4. (a < 0) = (b < 0)
    BY <1>1, <1>4, <1>5, <2>3
  <2> QED
    BY <2>2, <2>3, <2>4
<1>7. a = -MaxInt - 1
  BY <1>1, <1>6 DEF Abs
<1>8. a < 0
  BY <1>1, <1>7
<1>9. b < 0
  BY <1>6, <1>8
<1> QED
  BY <1>1, <1>6, <1>7, <1>9 DEF Abs

LEMMA ResetStep ==
  ASSUME TInv, FaultsOnlyOnOverflow, [Next]_vars
  PROVE  FaultsOnlyOnOverflow'
<1>1. CASE calculator
  <2>1. CASE Stays("check")
    BY <2>1 DEF Stays, FaultsOnlyOnOverflow
  <2>2. CASE /\ Len(args) = 4 /\ Divides(Letter[args[3]], atoi[args[4]])
             /\ Faults(atoi[args[2]], atoi[args[4]])
             /\ Stays("reset")
    <3>1. args \in Seq(Words) /\ UNCHANGED args
      BY <2>2 DEF TInv, ArgsOK, Stays
    <3>2. args[2] \in Words /\ args[4] \in Words
      BY <2>2, <3>1
    <3>3. /\ atoi[args[2]] \in -MaxInt - 1 .. MaxInt
          /\ atoi[args[4]] \in -MaxInt - 1 .. MaxInt
      BY <3>2, WordsAssumption
    <3>4. atoi[args[4]] # 0
      BY <2>2 DEF Divides
    <3>5. atoi[args[2]] = -MaxInt - 1 /\ atoi[args[4]] = -1
      BY <2>2, <3>3, <3>4, OnlyOverflow
    <3> QED
      BY <3>1, <3>5 DEF FaultsOnlyOnOverflow
  <2> QED
    BY <1>1, <2>1, <2>2 DEF calculator
<1>2. CASE UNCHANGED vars
  BY <1>2 DEF vars, FaultsOnlyOnOverflow
<1>3. ASSUME Next, ~ calculator PROVE pc' # "reset"
  BY <1>3 DEF Next, Step, execute_command, PrintOnly, ls, exit, shutdown, reboot, cd,
     alias, set, cat, touch, write, Opens, ReadOn, WriteAll, Close, Calls, NotBuiltin,
     CheckExit, Read, Stays
<1>4. CASE Next /\ ~ calculator
  BY <1>3, <1>4 DEF FaultsOnlyOnOverflow
<1> QED
  BY <1>1, <1>2, <1>4

(***************************************************************************)
(* For every width of int: no line that is typed resets the machine by the *)
(* calculator (shell.c:232-271) but the least int divided by -1, / or %.   *)
(***************************************************************************)
THEOREM OnlyOverflowResets == Spec => []FaultsOnlyOnOverflow
<1>1. Init => FaultsOnlyOnOverflow
  BY DEF Init, FaultsOnlyOnOverflow
<1> QED
  BY <1>1, InitTInv, NextTInv, ResetStep, PTL DEF Spec

-----------------------------------------------------------------------------
(***************************************************************************)
(* The shell is a client of Vfs: whatever its commands do to the files     *)
(* (shell.c:396-482) is a step of the specification that Vfs' own theorems *)
(* are about, which therefore hold under it; the independence of the       *)
(* descriptors (vfs.c:226-368) is the one the shell does not restate.      *)
(***************************************************************************)
THEOREM ShellIsClient == Spec => VP!Spec /\ VP!DescriptorsIndependent
<1>1. ASSUME TInv, [Next]_vars PROVE [VP!Next]_(VP!vars)
  BY <1>1, FilesStep DEF VP!vars, files
<1>2. Init => VP!Init
  BY DEF Init, FS!Init, FS!FDs, FS!Free, VP!Init, VP!FDs, VP!Free
<1>3. Spec => VP!Spec
  BY <1>1, <1>2, InitTInv, NextTInv, PTL DEF Spec, VP!Spec
<1>4. VP!Spec => VP!DescriptorsIndependent
  BY VfsAssumptions, VP!Independence
<1> QED
  BY <1>3, <1>4, PTL
=============================================================================
