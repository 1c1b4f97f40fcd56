-------------------------- MODULE LineEditorProofs --------------------------
(***************************************************************************)
(* Proofs about LineEditor's line, history and screen, for every size of   *)
(* the line buffer, of the history and of the screen, all names of         *)
(* commands, and every prompt and output.                                  *)
(***************************************************************************)
EXTENDS LineEditor, SequenceTheorems, WellFoundedInduction, TLAPS

(* What the line buffer can hold besides its terminating 0.                *)
Full    == MAX_INPUT - 2
Strings == {s \in Seq(Printable) : Len(s) <= Full}

(***************************************************************************)
(* The inductive invariant, about all but the screen.  A line gets into    *)
(* the history and comes back from it, so both are bounded together; and   *)
(* RecallsCommands holds since every entry before history_pos is filled,   *)
(* whether the history has wrapped around or not.                          *)
(***************************************************************************)
LineOK == input \in Strings /\ position = Len(input)

HistoryOK ==
  /\ history \in [0 .. HISTORY_SIZE - 1 -> Strings]
  /\ history_pos \in 0 .. HISTORY_SIZE - 1
  /\ \A k \in 0 .. history_pos - 1 : history[k] # <<>>

WalkOK == current_history = -1 \/ current_history \in 0 .. history_pos - 1

IInv == LineOK /\ HistoryOK /\ WalkOK

-----------------------------------------------------------------------------
(* Strings as the buffer gets them.                                        *)
LEMMA Prefix ==
  ASSUME NEW s \in Seq(Printable), NEW p \in 0 .. Len(s)
  PROVE  SubSeq(s, 1, p) \in Seq(Printable) /\ Len(SubSeq(s, 1, p)) = p
<1>1. Len(s) \in Nat
  BY LenProperties
<1> QED
  BY <1>1

LEMMA Whole == ASSUME NEW s \in Seq(Printable) PROVE SubSeq(s, 1, Len(s)) = s
BY SubSeqFull

(* A nonempty set of indices has a least one.                              *)
LEMMA LeastIndex ==
  ASSUME NEW T, T \subseteq Nat, T # {}
  PROVE  Min(T) \in T /\ \A y \in T : Min(T) <= y
<1>1. \E x \in T : \A y \in T : ~ (<<y, x>> \in OpToRel(<, Nat))
  BY NatLessThanWellFounded, WFMin
<1>2. \E x \in T : \A y \in T : x <= y
  <2>1. PICK x \in T : \A y \in T : ~ (<<y, x>> \in OpToRel(<, Nat))
    BY <1>1
  <2>2. ASSUME NEW y \in T PROVE x <= y
    <3>1. x \in Nat /\ y \in Nat
      OBVIOUS
    <3>2. ~ (y < x)
      BY <2>1, <3>1 DEF OpToRel
    <3> QED
      BY <3>1, <3>2
  <2> QED
    BY <2>2
<1> QED
  BY <1>2 DEF Min

-----------------------------------------------------------------------------
LEMMA InitIInv == Init => IInv
<1> SUFFICES ASSUME Init PROVE IInv
  OBVIOUS
<1>1. <<>> \in Strings /\ Len(<<>>) = 0
  BY SizesAssumption DEF Strings, Full
<1>2. LineOK
  BY <1>1 DEF Init, LineOK
<1>3. HistoryOK
  BY <1>1, SizesAssumption DEF Init, HistoryOK
<1> QED
  BY <1>2, <1>3 DEF Init, WalkOK, IInv

LEMMA LineFacts ==
  ASSUME LineOK
  PROVE  /\ input \in Seq(Printable) /\ position \in Nat /\ position <= Full
         /\ position = Len(input) /\ Full \in Nat
         /\ Terminated(position) = input
<1>1. input \in Seq(Printable) /\ position = Len(input) /\ position <= Full
  BY DEF LineOK, Strings
<1>2. Len(input) \in Nat /\ Full \in Nat
  BY <1>1, SizesAssumption, LenProperties DEF Full
<1> QED
  BY <1>1, <1>2, Whole DEF Terminated

-----------------------------------------------------------------------------
(* Return executes the line, which the history may take up.                *)
LEMMA EnterKeepsIInv == ASSUME IInv, NEW c, Enter(c) PROVE IInv'
<1>1. Terminated(position) = input /\ input \in Strings
  BY LineFacts DEF IInv, LineOK
<1>2. LineOK'
  <2>1. input' = <<>> /\ position' = 0
    BY DEF Enter, NewLine
  <2>2. <<>> \in Strings /\ Len(<<>>) = 0
    BY SizesAssumption DEF Strings, Full
  <2> QED
    BY <2>1, <2>2 DEF LineOK
<1>3. HistoryOK'
  <2>1. Execute(input)
    BY <1>1 DEF Enter
  <2>2. CASE UNCHANGED <<history, history_pos>>
    BY <2>2 DEF IInv, HistoryOK
  <2>3. CASE /\ input # <<>>
             /\ history' = [history EXCEPT ![history_pos] = input]
             /\ history_pos' = (history_pos + 1) % HISTORY_SIZE
    <3>1. history_pos \in 0 .. HISTORY_SIZE - 1
          /\ history \in [0 .. HISTORY_SIZE - 1 -> Strings]
      BY DEF IInv, HistoryOK
    <3>2. history' \in [0 .. HISTORY_SIZE - 1 -> Strings]
      BY <1>1, <2>3, <3>1
    <3>3. \/ history_pos' = 0
          \/ history_pos' = history_pos + 1 /\ history_pos + 1 \in 0 .. HISTORY_SIZE - 1
      <4>1. CASE history_pos + 1 = HISTORY_SIZE
        BY <2>3, <4>1, SizesAssumption
      <4>2. CASE history_pos + 1 # HISTORY_SIZE
        BY <2>3, <3>1, <4>2, SizesAssumption
      <4> QED
        BY <4>1, <4>2
    <3>4. history_pos' \in 0 .. HISTORY_SIZE - 1
      BY <3>3, SizesAssumption
    <3>5. ASSUME NEW k \in 0 .. history_pos' - 1 PROVE history'[k] # <<>>
      <4>1. k \in 0 .. history_pos /\ k \in 0 .. HISTORY_SIZE - 1
        BY <3>1, <3>3, SizesAssumption
      <4>2. CASE k = history_pos
        BY <2>3, <3>1, <4>2
      <4>3. CASE k # history_pos
        <5>1. k \in 0 .. history_pos - 1
          BY <3>1, <4>1, <4>3
        <5>2. history'[k] = history[k]
          BY <2>3, <3>1, <4>1, <4>3
        <5> QED
          BY <5>1, <5>2 DEF IInv, HistoryOK
      <4> QED
        BY <4>2, <4>3
    <3> QED
      BY <3>2, <3>4, <3>5 DEF HistoryOK
  <2> QED
    BY <2>1, <2>2, <2>3 DEF Execute, add_to_history, past
<1>4. WalkOK'
  BY DEF Enter, WalkOK
<1> QED
  BY <1>2, <1>3, <1>4 DEF IInv

-----------------------------------------------------------------------------
(* The arrows put an entry of the history in the place of the line.        *)
LEMMA BecomesKeepsLine ==
  ASSUME NEW str \in Strings, Becomes(str)
  PROVE  LineOK' /\ UNCHANGED <<history, history_pos>>
BY DEF Becomes, LineOK, past

LEMMA WalkingKeepsIInv == ASSUME IInv, NEW c, Up(c) \/ Down(c) PROVE IInv'
<1>1. history_pos \in 0 .. HISTORY_SIZE - 1 /\ HISTORY_SIZE \in Nat
  BY SizesAssumption DEF IInv, HistoryOK
<1>2. \A k \in 0 .. history_pos - 1 : history[k] \in Strings
  BY <1>1 DEF IInv, HistoryOK
<1>3. CASE Up(c)
  <2>1. current_history' \in 0 .. history_pos - 1
    <3>1. history_pos > 0
      BY <1>3 DEF Up, IsUp
    <3>2. CASE current_history = -1
      BY <1>1, <1>3, <3>1, <3>2 DEF Up
    <3>3. CASE current_history \in 0 .. history_pos - 1
      <4>1. current_history' = IF current_history > 0 THEN current_history - 1
                                                      ELSE current_history
        BY <1>1, <1>3, <3>3 DEF Up
      <4> QED
        BY <1>1, <3>3, <4>1
    <3> QED
      BY <3>2, <3>3 DEF IInv, WalkOK
  <2>2. Becomes(history[current_history'])
    BY <1>3 DEF Up
  <2>3. LineOK' /\ UNCHANGED <<history, history_pos>>
    BY <1>2, <2>1, <2>2, BecomesKeepsLine
  <2> QED
    BY <2>1, <2>3 DEF IInv, HistoryOK, WalkOK
<1>4. CASE Down(c)
  <2>1. current_history \in 0 .. history_pos - 1
    BY <1>4 DEF Down, IsDown, IInv, WalkOK
  <2>2. CASE /\ current_history < history_pos - 1
             /\ current_history' = current_history + 1
             /\ Becomes(history[current_history'])
    <3>1. current_history' \in 0 .. history_pos - 1
      BY <1>1, <2>1, <2>2
    <3>2. LineOK' /\ UNCHANGED <<history, history_pos>>
      BY <1>2, <2>2, <3>1, BecomesKeepsLine
    <3> QED
      BY <3>1, <3>2 DEF IInv, HistoryOK, WalkOK
  <2>3. CASE current_history' = -1 /\ Becomes(<<>>)
    <3>1. <<>> \in Strings
      BY SizesAssumption DEF Strings, Full
    <3>2. LineOK' /\ UNCHANGED <<history, history_pos>>
      BY <2>3, <3>1, BecomesKeepsLine
    <3> QED
      BY <2>3, <3>2 DEF IInv, HistoryOK, WalkOK
  <2> QED
    BY <1>4, <2>2, <2>3 DEF Down
<1> QED
  BY <1>3, <1>4

-----------------------------------------------------------------------------
(* Keys that change the line alone.                                        *)
LEMMA EditingKeepsIInv ==
  ASSUME IInv, UNCHANGED <<past, current_history>>, LineOK'
  PROVE  IInv'
<1>1. UNCHANGED <<history, history_pos, current_history>>
  BY DEF past
<1> QED
  BY <1>1 DEF IInv, HistoryOK, WalkOK

LEMMA BackspaceKeepsIInv == ASSUME IInv, NEW c, Backspace(c) PROVE IInv'
<1>1. /\ input \in Seq(Printable) /\ position \in Nat /\ position <= Full
      /\ position = Len(input) /\ Full \in Nat /\ position > 0
  BY LineFacts DEF IInv, Backspace
<1>2. input' \in Seq(Printable) /\ Len(input') = position - 1
  <2>1. position - 1 \in 0 .. Len(input)
    BY <1>1
  <2> QED
    BY <1>1, <2>1, Prefix DEF Backspace, Terminated
<1>3. LineOK'
  BY <1>1, <1>2 DEF Backspace, LineOK, Strings, Full
<1> QED
  BY <1>3, EditingKeepsIInv DEF Backspace

LEMMA InsertKeepsIInv == ASSUME IInv, NEW c, Insert(c) PROVE IInv'
<1>1. /\ input \in Seq(Printable) /\ position \in Nat /\ position = Len(input)
      /\ Full \in Nat /\ position < Full
  BY LineFacts DEF IInv, Insert, HasRoom, Full
<1>2. input' = Append(input, c) /\ position' = position + 1 /\ c \in Printable
  BY LineFacts DEF IInv, Insert
<1>3. input' \in Seq(Printable) /\ Len(input') = position + 1
  BY <1>1, <1>2, AppendProperties
<1>4. LineOK'
  BY <1>1, <1>2, <1>3 DEF LineOK, Strings, Full
<1> QED
  BY <1>4, EditingKeepsIInv DEF Insert

(* A name that the line completes to is at least as long as the line.      *)
LEMMA CompletionIsLonger ==
  ASSUME LineOK, NEW k \in Completions
  PROVE  /\ commands[k] \in Seq(Printable) /\ Len(commands[k]) \in Nat
         /\ position <= Len(commands[k]) /\ Len(commands[k]) <= Full
<1> DEFINE cmd == commands[k]
           T   == {position, Len(input) + 1, Len(cmd) + 1}
<1>1. k \in DOMAIN commands /\ Completes(k)
  BY DEF Completions
<1>2. cmd \in Seq(32 .. 126) /\ Len(cmd) <= Full
  <2>1. commands \in Seq(Seq(32 .. 126))
    BY CommandsAssumption
  <2> QED
    BY <1>1, <2>1, CommandsAssumption DEF Full
<1>3. cmd \in Seq(Printable) /\ Len(cmd) \in Nat /\ DOMAIN cmd = 1 .. Len(cmd)
  BY <1>2, LenProperties DEF Printable
<1>4. position \in Nat /\ position = Len(input)
  BY LineFacts
<1>5. /\ \A j \in 1 .. Min(T) : j \in DOMAIN cmd
      /\ Min(T) \in T /\ \A y \in T : Min(T) <= y
  <2>1. \A j \in 1 .. Min(T) : j \in DOMAIN cmd
    BY <1>1 DEF Completes
  <2>2. T \subseteq Nat /\ T # {}
    BY <1>3, <1>4
  <2> HIDE DEF T
  <2> QED
    BY <2>1, <2>2, LeastIndex
<1> DEFINE n == Min(T)
<1>6. /\ n \in {position, Len(input) + 1, Len(cmd) + 1}
      /\ n <= position /\ n <= Len(cmd) + 1
      /\ \A j \in 1 .. n : j \in 1 .. Len(cmd)
  BY <1>3, <1>5
<1> HIDE DEF n, T, cmd
<1>7. position <= Len(cmd)
  <2> SUFFICES ASSUME position > Len(cmd) PROVE FALSE
    BY <1>3, <1>4
  <2>1. n = Len(cmd) + 1
    BY <1>3, <1>4, <1>6
  <2>2. n \in 1 .. n
    BY <1>3, <2>1
  <2>3. n \in 1 .. Len(cmd)
    BY <1>6, <2>2
  <2> QED
    BY <1>3, <2>1, <2>3
<1> QED
  BY <1>2, <1>3, <1>7 DEF cmd

LEMMA TabKeepsIInv == ASSUME IInv, NEW c, Tab(c) PROVE IInv'
<1> DEFINE cmd  == commands[Min(Completions)]
           rest == SubSeq(cmd, position + 1, Len(cmd))
<1>1. Min(Completions) \in Completions
  <2>1. Completions # {}
    BY DEF Tab
  <2>2. Completions \subseteq Nat
    <3>1. DOMAIN commands \subseteq Nat
      BY CommandsAssumption, LenProperties
    <3> QED
      BY <3>1 DEF Completions
  <2> QED
    BY <2>1, <2>2, LeastIndex
<1>2. /\ cmd \in Seq(Printable) /\ Len(cmd) \in Nat /\ position <= Len(cmd)
      /\ Len(cmd) <= Full
  BY <1>1, CompletionIsLonger DEF IInv
<1>3. /\ input \in Seq(Printable) /\ position \in Nat /\ position = Len(input)
      /\ Full \in Nat /\ Terminated(position) = input
  BY LineFacts DEF IInv
<1>4. input' = input \o rest /\ position' = position + Len(rest)
  BY <1>3 DEF Tab
<1> HIDE DEF cmd
<1>5. rest \in Seq(Printable) /\ Len(rest) = Len(cmd) - position
  BY <1>2, <1>3
<1> HIDE DEF rest
<1>6. input' \in Seq(Printable) /\ Len(input') = Len(cmd) /\ position' = Len(cmd)
  BY <1>2, <1>3, <1>4, <1>5
<1>7. LineOK'
  BY <1>2, <1>6 DEF LineOK, Strings, Full
<1> QED
  BY <1>7, EditingKeepsIInv DEF Tab

LEMMA NextIInv == ASSUME IInv, [Next]_vars PROVE IInv'
<1>1. CASE UNCHANGED vars
  <2>1. UNCHANGED <<past, current_history, input, position>>
    BY <1>1 DEF vars, line
  <2>2. LineOK'
    BY <2>1 DEF IInv, LineOK
  <2> QED
    BY <2>1, <2>2, EditingKeepsIInv
<1>2. ASSUME NEW c \in Chars,
             Enter(c) \/ Up(c) \/ Down(c) \/ Backspace(c) \/ Tab(c) \/ Insert(c)
               \/ Ignore(c)
      PROVE  IInv'
  BY <1>1, <1>2, EnterKeepsIInv, WalkingKeepsIInv, BackspaceKeepsIInv, TabKeepsIInv,
     InsertKeepsIInv DEF Ignore
<1> QED
  BY <1>1, <1>2 DEF Next

-----------------------------------------------------------------------------
(***************************************************************************)
(* Whatever is typed, wiped, recalled or completed (shell.c:592-683), the  *)
(* terminating 0 stands at input[position] between any two keys.           *)
(***************************************************************************)
THEOREM LineEndsAtPosition == Spec => []EndsAtPosition
<1>1. IInv => EndsAtPosition
  BY DEF IInv, LineOK, EndsAtPosition
<1> QED
  BY <1>1, InitIInv, NextIInv, PTL DEF Spec

(***************************************************************************)
(* However often the history has wrapped around (shell.c:146), the arrows  *)
(* reach only entries that hold a command.                                 *)
(***************************************************************************)
THEOREM WalkFindsCommands == Spec => []RecallsCommands
<1>1. IInv => RecallsCommands
  <2> SUFFICES ASSUME IInv, current_history # -1
               PROVE  current_history < history_pos /\ history[current_history] # <<>>
    BY DEF RecallsCommands
  <2>1. current_history \in 0 .. history_pos - 1 /\ history_pos \in Int
    BY DEF IInv, WalkOK, HistoryOK
  <2> QED
    BY <2>1 DEF IInv, HistoryOK
<1> QED
  BY <1>1, InitIInv, NextIInv, PTL DEF Spec

(***************************************************************************)
(* Every line, typed, recalled or completed, leaves room for the 0 in the  *)
(* buffer of shell.c:556, and for a copy of it in any entry of history.    *)
(***************************************************************************)
THEOREM LinesFit ==
  Spec => [](/\ Len(input) < MAX_INPUT
             /\ \A k \in 0 .. HISTORY_SIZE - 1 : Len(history[k]) < MAX_INPUT)
<1>1. IInv => /\ Len(input) < MAX_INPUT
              /\ \A k \in 0 .. HISTORY_SIZE - 1 : Len(history[k]) < MAX_INPUT
  <2>1. \A s \in Strings : Len(s) < MAX_INPUT
    <3>1. \A s \in Seq(Printable) : Len(s) \in Nat
      BY LenProperties
    <3> QED
      BY <3>1, SizesAssumption DEF Strings, Full
  <2> QED
    BY <2>1 DEF IInv, LineOK, HistoryOK
<1> QED
  BY <1>1, InitIInv, NextIInv, PTL DEF Spec

-----------------------------------------------------------------------------
(* Sequences given by their elements: one more at the end, all moved up by *)
(* one place.                                                              *)
LEMMA IsAppend ==
  ASSUME NEW S, NEW s \in Seq(S), NEW t \in Seq(S), NEW x \in S,
         Len(t) = Len(s) + 1, \A k \in 1 .. Len(s) : t[k] = s[k], t[Len(t)] = x
  PROVE  t = Append(s, x)
<1>1. /\ Append(s, x) \in Seq(S) /\ Len(Append(s, x)) = Len(s) + 1
      /\ \A k \in 1 .. Len(s) : Append(s, x)[k] = s[k]
      /\ Append(s, x)[Len(s) + 1] = x
  BY AppendProperties
<1>2. Len(s) \in Nat
  BY LenProperties
<1>3. \A k \in 1 .. Len(s) + 1 : k \in 1 .. Len(s) \/ k = Len(s) + 1
  BY <1>2
<1>4. \A k \in 1 .. Len(t) : t[k] = Append(s, x)[k]
  BY <1>1, <1>3
<1> QED
  BY <1>1, <1>4, SeqEqual

LEMMA IsTail ==
  ASSUME NEW S, NEW s \in Seq(S), NEW t \in Seq(S), NEW x \in S,
         Len(t) = Len(s), Len(s) > 0,
         \A k \in 1 .. Len(s) - 1 : t[k] = s[k + 1], t[Len(s)] = x
  PROVE  t = Tail(Append(s, x))
<1> DEFINE u == Append(s, x)
<1>1. /\ u \in Seq(S) /\ Len(u) = Len(s) + 1
      /\ \A k \in 1 .. Len(s) : u[k] = s[k]
      /\ u[Len(s) + 1] = x
  BY AppendProperties
<1>2. Len(s) \in Nat
  BY LenProperties
<1> HIDE DEF u
<1>3. u # <<>>
  BY <1>1, <1>2, EmptySeq
<1>4. /\ Tail(u) \in Seq(S) /\ Len(Tail(u)) = Len(u) - 1
      /\ \A k \in 1 .. Len(Tail(u)) : Tail(u)[k] = u[k + 1]
  BY <1>1, <1>3, HeadTailProperties
<1>5. Len(Tail(u)) = Len(s)
  BY <1>1, <1>2, <1>4
<1>6. ASSUME NEW k \in 1 .. Len(t) PROVE t[k] = Tail(u)[k]
  <2>1. Tail(u)[k] = u[k + 1]
    BY <1>4, <1>5
  <2>2. CASE k = Len(s)
    BY <1>1, <2>1, <2>2
  <2>3. CASE k # Len(s)
    <3>1. k \in 1 .. Len(s) - 1 /\ k + 1 \in 1 .. Len(s)
      BY <1>2, <2>3
    <3> QED
      BY <1>1, <2>1, <3>1
  <2> QED
    BY <2>2, <2>3
<1>7. t = Tail(u)
  BY <1>4, <1>5, <1>6, SeqEqual
<1> QED
  BY <1>7 DEF u

-----------------------------------------------------------------------------
(***************************************************************************)
(* What the ring holds, in the order in which show_history goes through    *)
(* it: e entries that were never filled, and after them the commands, the  *)
(* oldest first.  This is the strengthening that HistoryIsLog needs.       *)
(***************************************************************************)
Gap(e) == \A k \in 0 .. HISTORY_SIZE - 1 : (entries[k] = <<>>) <=> k < e

Segment(e, n) == [k \in 1 .. n - e |-> entries[e + k - 1]]

Packed == \E e \in 0 .. HISTORY_SIZE : Gap(e)

LEMMA SegmentIsSeq ==
  ASSUME NEW e \in Nat, NEW n \in Nat, e <= n
  PROVE  /\ Segment(e, n) \in Seq({entries[k] : k \in e .. n - 1})
         /\ Len(Segment(e, n)) = n - e
<1>1. n - e \in Nat
  OBVIOUS
<1>2. \A k \in 1 .. n - e : e + k - 1 \in e .. n - 1
  OBVIOUS
<1>3. Segment(e, n) \in [1 .. n - e -> {entries[k] : k \in e .. n - 1}]
  BY <1>2 DEF Segment
<1> HIDE DEF Segment
<1> QED
  BY <1>1, <1>3, SeqDef, LenProperties

LEMMA SegmentGrows ==
  ASSUME NEW e \in Nat, NEW n \in Nat, e < n
  PROVE  Segment(e, n) = Append(Segment(e, n - 1), entries[n - 1])
<1> DEFINE S == {entries[k] : k \in e .. n - 1}
           s == Segment(e, n - 1)
           t == Segment(e, n)
           x == entries[n - 1]
<1>1. n - 1 \in Nat /\ e <= n - 1 /\ (n - 1) - e \in Nat /\ n - e \in Nat
  OBVIOUS
<1>2. t \in Seq(S) /\ Len(t) = n - e
  <2>1. e <= n
    OBVIOUS
  <2> QED
    BY <2>1, SegmentIsSeq
<1>3. s \in Seq(S) /\ Len(s) = (n - 1) - e
  <2>1. /\ s \in Seq({entries[k] : k \in e .. (n - 1) - 1})
        /\ Len(s) = (n - 1) - e
    BY <1>1, SegmentIsSeq
  <2>2. {entries[k] : k \in e .. (n - 1) - 1} \subseteq S
    OBVIOUS
  <2> HIDE DEF s, S
  <2> QED
    BY <2>1, <2>2, SeqMonotonic
<1>4. x \in S
  <2>1. n - 1 \in e .. n - 1
    OBVIOUS
  <2> QED
    BY <2>1
<1>5. \A k \in 1 .. n - e : t[k] = IF k <= (n - 1) - e THEN s[k] ELSE x
  <2> SUFFICES ASSUME NEW k \in 1 .. n - e
               PROVE  t[k] = IF k <= (n - 1) - e THEN s[k] ELSE x
    OBVIOUS
  <2>1. t[k] = entries[e + k - 1]
    BY DEF Segment
  <2>2. CASE k <= (n - 1) - e
    <3>1. k \in 1 .. (n - 1) - e
      BY <2>2
    <3> QED
      BY <2>1, <2>2, <3>1 DEF Segment
  <2>3. CASE ~ (k <= (n - 1) - e)
    <3>1. e + k - 1 = n - 1
      BY <2>3
    <3> QED
      BY <2>1, <2>3, <3>1
  <2> QED
    BY <2>2, <2>3
<1> HIDE DEF S, s, t, x
<1>6. Len(t) = Len(s) + 1 /\ (\A k \in 1 .. Len(s) : t[k] = s[k]) /\ t[Len(t)] = x
  BY <1>1, <1>2, <1>3, <1>5
<1>7. t = Append(s, x)
  BY <1>2, <1>3, <1>4, <1>6, IsAppend
<1> QED
  BY <1>7 DEF s, t, x

LEMMA EmptySegment == ASSUME NEW e \in Nat PROVE Segment(e, e) = <<>>
<1>1. Segment(e, e) \in Seq({entries[k] : k \in e .. e - 1})
      /\ Len(Segment(e, e)) = e - e
  <2>1. e <= e
    OBVIOUS
  <2> QED
    BY <2>1, SegmentIsSeq
<1>2. Len(Segment(e, e)) = 0
  BY <1>1
<1> QED
  BY <1>1, <1>2, EmptySeq

(***************************************************************************)
(* The loop of show_history, of which listed[n] is the first n rounds,     *)
(* prints the entries after the gap: a function with their segments for    *)
(* values satisfies the same equation, and two that do are equal by        *)
(* induction on n.                                                         *)
(***************************************************************************)
ListsOldestFirst ==
  \A e \in 0 .. HISTORY_SIZE : Gap(e) => show_history = Segment(e, HISTORY_SIZE)

LEMMA OldestFirst == ListsOldestFirst
<1> SUFFICES ASSUME NEW e \in 0 .. HISTORY_SIZE, Gap(e)
             PROVE  show_history = Segment(e, HISTORY_SIZE)
  BY DEF ListsOldestFirst
<1> DEFINE
      Round(f, n) == IF n = 0 THEN <<>>
                     ELSE IF entries[n - 1] = <<>> THEN f[n - 1]
                          ELSE Append(f[n - 1], entries[n - 1])
      Rounds(f)   == [n \in 0 .. HISTORY_SIZE |-> Round(f, n)]
      G           == [n \in 0 .. HISTORY_SIZE |-> IF n <= e THEN <<>> ELSE Segment(e, n)]
<1>1. HISTORY_SIZE \in Nat /\ e \in Nat /\ e <= HISTORY_SIZE
  BY SizesAssumption
<1>2. \A n \in 0 .. HISTORY_SIZE :
         G[n] = Round(G, n)
  <2> SUFFICES ASSUME NEW n \in 0 .. HISTORY_SIZE PROVE G[n] = Round(G, n)
    OBVIOUS
  <2>1. CASE n = 0
    BY <1>1, <2>1
  <2>2. CASE n # 0 /\ n <= e
    <3>1. n - 1 \in 0 .. HISTORY_SIZE - 1 /\ n - 1 < e /\ n - 1 \in 0 .. HISTORY_SIZE
          /\ n - 1 <= e
      BY <1>1, <2>2
    <3>2. entries[n - 1] = <<>>
      BY <3>1 DEF Gap
    <3>3. G[n] = <<>> /\ G[n - 1] = <<>>
      BY <2>2, <3>1
    <3> HIDE DEF G
    <3> QED
      BY <2>2, <3>2, <3>3
  <2>3. CASE e < n
    <3>1. /\ n - 1 \in 0 .. HISTORY_SIZE - 1 /\ ~ (n - 1 < e)
          /\ n - 1 \in 0 .. HISTORY_SIZE /\ n # 0 /\ ~ (n <= e) /\ n \in Nat
      BY <1>1, <2>3
    <3>2. entries[n - 1] # <<>>
      BY <3>1 DEF Gap
    <3>3. G[n - 1] = Segment(e, n - 1)
      <4>1. CASE n - 1 = e
        BY <1>1, <3>1, <4>1, EmptySegment
      <4>2. CASE n - 1 # e
        BY <1>1, <3>1, <4>2
      <4> QED
        BY <4>1, <4>2
    <3>4. G[n] = Segment(e, n)
      BY <3>1
    <3>5. Segment(e, n) = Append(Segment(e, n - 1), entries[n - 1])
      BY <1>1, <2>3, <3>1, SegmentGrows
    <3> HIDE DEF G
    <3> QED
      BY <3>1, <3>2, <3>3, <3>4, <3>5
  <2> QED
    BY <1>1, <2>1, <2>2, <2>3
<1>3. G = Rounds(G)
  BY <1>2
<1>4. listed = Rounds(listed)
  <2> HIDE DEF G
  <2> QED
    BY <1>3 DEF listed
<1>5. \A n \in 0 .. HISTORY_SIZE : listed[n] = G[n]
  <2> DEFINE T == {n \in 0 .. HISTORY_SIZE : listed[n] # G[n]}
  <2> SUFFICES ASSUME T # {} PROVE FALSE
    OBVIOUS
  <2>1. T \subseteq Nat
    BY <1>1
  <2> DEFINE n == Min(T)
  <2>2. n \in T /\ \A y \in T : n <= y
    <3> HIDE DEF T
    <3> QED
      BY <2>1, LeastIndex
  <2> HIDE DEF n
  <2>3. n \in 0 .. HISTORY_SIZE /\ listed[n] # G[n]
    BY <2>2
  <2>4. listed[n] = Round(listed, n)
    <3> HIDE DEF Round
    <3> QED
      BY <1>4, <2>3
  <2>5. G[n] = Round(G, n)
    BY <1>2, <2>3
  <2>6. n # 0 => listed[n - 1] = G[n - 1]
    <3> SUFFICES ASSUME n # 0 PROVE listed[n - 1] = G[n - 1]
      OBVIOUS
    <3>1. n - 1 \in 0 .. HISTORY_SIZE /\ ~ (n <= n - 1)
      BY <1>1, <2>3
    <3>2. n - 1 \notin T
      BY <2>2, <3>1
    <3> HIDE DEF G
    <3> QED
      BY <3>1, <3>2
  <2> HIDE DEF G, T
  <2> QED
    BY <2>3, <2>4, <2>5, <2>6
<1>6. HISTORY_SIZE \in 0 .. HISTORY_SIZE
  BY <1>1
<1>7. listed[HISTORY_SIZE] = G[HISTORY_SIZE]
  BY <1>5, <1>6
<1>8. G[HISTORY_SIZE] = Segment(e, HISTORY_SIZE)
  <2>1. CASE HISTORY_SIZE <= e
    <3>1. e = HISTORY_SIZE
      BY <1>1, <2>1
    <3> QED
      BY <1>1, <1>6, <3>1, EmptySegment
  <2>2. CASE ~ (HISTORY_SIZE <= e)
    BY <1>6, <2>2
  <2> QED
    BY <2>1, <2>2
<1> QED
  BY <1>7, <1>8 DEF show_history

-----------------------------------------------------------------------------
(* The ring that history_pos counts in.                                    *)
LEMMA Around ==
  /\ \A x \in 0 .. HISTORY_SIZE - 1 : x % HISTORY_SIZE = x
  /\ \A x \in HISTORY_SIZE .. 2 * HISTORY_SIZE - 1 : x % HISTORY_SIZE = x - HISTORY_SIZE
<1> DEFINE H == HISTORY_SIZE
<1>1. H \in Nat /\ H > 0
  BY SizesAssumption
<1> HIDE DEF H
<1>2. \A x \in 0 .. H - 1 : x % H = x
  BY <1>1
<1>3. \A x \in H .. 2 * H - 1 : x % H = x - H
  BY <1>1
<1> QED
  BY <1>2, <1>3 DEF H

(* The next command takes the place of the oldest entry, and the others    *)
(* move up.                                                                *)
LEMMA OrderMovesOn ==
  ASSUME HistoryOK, NEW cmd,
         history' = [history EXCEPT ![history_pos] = cmd],
         history_pos' = (history_pos + 1) % HISTORY_SIZE
  PROVE  /\ \A k \in 0 .. HISTORY_SIZE - 2 : entries'[k] = entries[k + 1]
         /\ entries'[HISTORY_SIZE - 1] = cmd
<1> DEFINE H == HISTORY_SIZE
<1>1. /\ H \in Nat /\ H > 0
      /\ history_pos \in 0 .. H - 1
      /\ DOMAIN history = 0 .. H - 1
  BY SizesAssumption DEF HistoryOK
<1>2. /\ \A x \in 0 .. H - 1 : x % H = x
      /\ \A x \in H .. 2 * H - 1 : x % H = x - H
  BY Around
<1>3. history_pos' = IF history_pos = H - 1 THEN 0 ELSE history_pos + 1
  <2> HIDE DEF H
  <2>0. history_pos' = (history_pos + 1) % H
    BY DEF H
  <2>1. CASE history_pos = H - 1
    <3>1. history_pos + 1 \in H .. 2 * H - 1 /\ history_pos + 1 = H
      BY <1>1, <2>1
    <3>2. (history_pos + 1) % H = (history_pos + 1) - H
      BY <1>2, <3>1
    <3> QED
      BY <1>1, <2>0, <2>1, <3>1, <3>2
  <2>2. CASE history_pos # H - 1
    <3>1. history_pos + 1 \in 0 .. H - 1
      BY <1>1, <2>2
    <3> QED
      BY <1>2, <2>0, <2>2, <3>1
  <2> QED
    BY <2>1, <2>2
<1>4. \A k \in 0 .. H - 1 : entries'[k] = history'[(history_pos' + k) % H]
  BY DEF entries
<1>5. \A k \in 0 .. H - 1 : entries[k] = history[(history_pos + k) % H]
  BY DEF entries
<1>6. \A i \in 0 .. H - 1 : history'[i] = IF i = history_pos THEN cmd ELSE history[i]
  BY <1>1
<1> HIDE DEF H
<1>7. history_pos' \in 0 .. H - 1
  BY <1>1, <1>3
<1>8. ASSUME NEW k \in 0 .. H - 2 PROVE entries'[k] = entries[k + 1]
  <2> DEFINE i == (history_pos' + k) % H
             j == (history_pos + (k + 1)) % H
  <2>1. i = j /\ i \in 0 .. H - 1 /\ i # history_pos
    <3>1. CASE history_pos = H - 1
      <4>1. history_pos' + k \in 0 .. H - 1 /\ history_pos' + k = k
        BY <1>1, <1>3, <3>1
      <4>2. /\ history_pos + (k + 1) \in H .. 2 * H - 1
            /\ (history_pos + (k + 1)) - H = k
        BY <1>1, <3>1
      <4>3. i = k /\ j = k
        BY <1>2, <4>1, <4>2
      <4> HIDE DEF i, j
      <4> QED
        BY <1>1, <3>1, <4>3
    <3>2. CASE history_pos # H - 1 /\ history_pos + (k + 1) < H
      <4>1. /\ history_pos' + k = history_pos + (k + 1)
            /\ history_pos + (k + 1) \in 0 .. H - 1
        BY <1>1, <1>3, <3>2
      <4>2. i = history_pos + (k + 1) /\ j = history_pos + (k + 1)
        BY <1>2, <4>1
      <4> HIDE DEF i, j
      <4> QED
        BY <1>1, <4>1, <4>2
    <3>3. CASE history_pos # H - 1 /\ ~ (history_pos + (k + 1) < H)
      <4>1. /\ history_pos' + k = history_pos + (k + 1)
            /\ history_pos + (k + 1) \in H .. 2 * H - 1
        BY <1>1, <1>3, <3>3
      <4>2. /\ i = (history_pos + (k + 1)) - H
            /\ j = (history_pos + (k + 1)) - H
        BY <1>2, <4>1
      <4> HIDE DEF i, j
      <4> QED
        BY <1>1, <4>1, <4>2
    <3> QED
      BY <3>1, <3>2, <3>3
  <2>2. k \in 0 .. H - 1 /\ k + 1 \in 0 .. H - 1
    BY <1>1
  <2>3. entries'[k] = history'[i] /\ entries[k + 1] = history[j]
    BY <1>4, <1>5, <2>2
  <2> HIDE DEF i, j
  <2> QED
    BY <1>6, <2>1, <2>3
<1>9. entries'[H - 1] = cmd
  <2>1. (history_pos' + (H - 1)) % H = history_pos
    <3>1. CASE history_pos = H - 1
      <4>1. history_pos' + (H - 1) = H - 1 /\ H - 1 \in 0 .. H - 1
        BY <1>1, <1>3, <3>1
      <4> QED
        BY <1>2, <3>1, <4>1
    <3>2. CASE history_pos # H - 1
      <4>1. /\ history_pos' + (H - 1) \in H .. 2 * H - 1
            /\ (history_pos' + (H - 1)) - H = history_pos
        BY <1>1, <1>3, <3>2
      <4> QED
        BY <1>2, <4>1
    <3> QED
      BY <3>1, <3>2
  <2>2. H - 1 \in 0 .. H - 1
    BY <1>1
  <2> QED
    BY <1>1, <1>4, <1>6, <2>1, <2>2
<1> QED
  BY <1>8, <1>9 DEF H

(* A repeat is the entry listed last.                                      *)
LEMMA RepeatIsLast ==
  ASSUME HistoryOK, NEW cmd, Repeats(cmd)
  PROVE  entries[HISTORY_SIZE - 1] = cmd
<1> DEFINE H == HISTORY_SIZE
<1>1. /\ H \in Nat /\ H > 0 /\ history_pos \in 0 .. H - 1 /\ history_pos > 0
      /\ history[history_pos - 1] = cmd
  BY SizesAssumption DEF HistoryOK, Repeats
<1>2. \A x \in H .. 2 * H - 1 : x % H = x - H
  BY Around
<1>3. \A k \in 0 .. H - 1 : entries[k] = history[(history_pos + k) % H]
  BY DEF entries
<1> HIDE DEF H
<1>4. /\ history_pos + (H - 1) \in H .. 2 * H - 1
      /\ (history_pos + (H - 1)) - H = history_pos - 1
      /\ H - 1 \in 0 .. H - 1
  BY <1>1
<1>5. (history_pos + (H - 1)) % H = history_pos - 1
  BY <1>2, <1>4
<1>6. entries[H - 1] = cmd
  BY <1>1, <1>3, <1>4, <1>5
<1> QED
  BY <1>6 DEF H

-----------------------------------------------------------------------------
(* The lists are sequences of strings, of as many as the gap leaves.       *)
LEMMA EntriesAreStrings ==
  HistoryOK => entries \in [0 .. HISTORY_SIZE - 1 -> Strings]
<1> SUFFICES ASSUME HistoryOK
             PROVE  entries \in [0 .. HISTORY_SIZE - 1 -> Strings]
  OBVIOUS
<1> DEFINE H == HISTORY_SIZE
<1>1. H \in Nat /\ H > 0 /\ history_pos \in Nat
  BY SizesAssumption DEF HistoryOK
<1>2. \A i \in 0 .. H - 1 : (history_pos + i) % H \in 0 .. H - 1
  <2> HIDE DEF H
  <2> QED
    BY <1>1
<1> QED
  BY <1>2 DEF HistoryOK, entries

SegmentsAreStrings ==
  HistoryOK => \A e \in 0 .. HISTORY_SIZE :
    /\ Segment(e, HISTORY_SIZE) \in Seq(Strings)
    /\ Len(Segment(e, HISTORY_SIZE)) = HISTORY_SIZE - e

LEMMA SegmentOfStrings == SegmentsAreStrings
<1> SUFFICES ASSUME NEW e \in 0 .. HISTORY_SIZE, HistoryOK
             PROVE  /\ Segment(e, HISTORY_SIZE) \in Seq(Strings)
                    /\ Len(Segment(e, HISTORY_SIZE)) = HISTORY_SIZE - e
  BY DEF SegmentsAreStrings
<1>1. HISTORY_SIZE \in Nat /\ e \in Nat /\ e <= HISTORY_SIZE
  BY SizesAssumption
<1>2. /\ Segment(e, HISTORY_SIZE) \in Seq({entries[k] : k \in e .. HISTORY_SIZE - 1})
      /\ Len(Segment(e, HISTORY_SIZE)) = HISTORY_SIZE - e
  BY <1>1, SegmentIsSeq
<1>3. {entries[k] : k \in e .. HISTORY_SIZE - 1} \subseteq Strings
  <2>1. e .. HISTORY_SIZE - 1 \subseteq 0 .. HISTORY_SIZE - 1
    BY <1>1
  <2> QED
    BY <2>1, EntriesAreStrings
<1> QED
  BY <1>2, <1>3, SeqMonotonic

(* Both hold after a step as before it.                                    *)
LEMMA ListingNext == ListsOldestFirst' /\ SegmentsAreStrings'
BY OldestFirst, SegmentOfStrings, PTL

(***************************************************************************)
(* A command that is recorded closes the gap by one entry, or takes the    *)
(* place of the oldest command when there is no gap.                       *)
(***************************************************************************)
LEMMA RecordStep ==
  ASSUME HistoryOK, HistoryOK', NEW e \in 0 .. HISTORY_SIZE, Gap(e),
         NEW cmd \in Strings, cmd # <<>>,
         history' = [history EXCEPT ![history_pos] = cmd],
         history_pos' = (history_pos + 1) % HISTORY_SIZE
  PROVE  /\ Packed'
         /\ show_history' = Log!Bounded(Append(show_history, cmd))
<1> DEFINE H == HISTORY_SIZE
           s == show_history
           t == show_history'
<1>1. H \in Nat /\ H > 0 /\ e \in Nat /\ e <= H
  BY SizesAssumption
<1>2. /\ \A k \in 0 .. H - 2 : entries'[k] = entries[k + 1]
      /\ entries'[H - 1] = cmd
  BY OrderMovesOn
<1>3. \A k \in 0 .. H - 1 : (entries[k] = <<>>) <=> k < e
  BY DEF Gap
<1>4. ListsOldestFirst' /\ SegmentsAreStrings'
  BY ListingNext
<1>5. s = Segment(e, H) /\ s \in Seq(Strings) /\ Len(s) = H - e
  BY OldestFirst, SegmentOfStrings DEF ListsOldestFirst, SegmentsAreStrings
<1>6. \A k \in 1 .. H - e : s[k] = entries[e + k - 1]
  BY <1>5 DEF Segment
<1>7. \A d \in 0 .. H : Gap(d)' => /\ t = Segment(d, H)'
                                   /\ t \in Seq(Strings) /\ Len(t) = H - d
                                   /\ \A k \in 1 .. H - d : t[k] = entries'[d + k - 1]
  <2> SUFFICES ASSUME NEW d \in 0 .. H, Gap(d)'
               PROVE  /\ t = Segment(d, H)'
                      /\ t \in Seq(Strings) /\ Len(t) = H - d
                      /\ \A k \in 1 .. H - d : t[k] = entries'[d + k - 1]
    OBVIOUS
  <2>1. t = Segment(d, H)'
    BY <1>4 DEF ListsOldestFirst
  <2>2. t \in Seq(Strings) /\ Len(t) = H - d
    BY <1>4, <2>1 DEF SegmentsAreStrings
  <2> QED
    BY <2>1, <2>2 DEF Segment
<1> HIDE DEF H, s, t
<1>8. CASE e > 0
  <2> DEFINE d == e - 1
  <2>1. d \in 0 .. H /\ H - d = (H - e) + 1
    BY <1>1, <1>8
  <2>2. Gap(d)'
    <3>1. \A k \in 0 .. H - 1 : (entries'[k] = <<>>) <=> k < d
      <4> SUFFICES ASSUME NEW k \in 0 .. H - 1
                   PROVE  (entries'[k] = <<>>) <=> k < d
        OBVIOUS
      <4>1. CASE k = H - 1
        BY <1>1, <1>2, <4>1
      <4>2. CASE k # H - 1
        <5>1. k \in 0 .. H - 2 /\ k + 1 \in 0 .. H - 1 /\ (k + 1 < e <=> k < d)
          BY <1>1, <4>2
        <5> QED
          BY <1>2, <1>3, <5>1
      <4> QED
        BY <4>1, <4>2
    <3> QED
      BY <3>1 DEF Gap, H
  <2>3. /\ t \in Seq(Strings) /\ Len(t) = H - d
        /\ \A k \in 1 .. H - d : t[k] = entries'[d + k - 1]
    BY <1>7, <2>1, <2>2
  <2>4. Len(t) = Len(s) + 1
    BY <1>5, <2>1, <2>3
  <2>5. \A k \in 1 .. Len(s) : t[k] = s[k]
    <3> SUFFICES ASSUME NEW k \in 1 .. H - e PROVE t[k] = s[k]
      BY <1>5
    <3>1. /\ k \in 1 .. H - d /\ d + k - 1 \in 0 .. H - 2
          /\ (d + k - 1) + 1 = e + k - 1
      BY <1>1, <1>8
    <3> HIDE DEF d
    <3>2. entries'[d + k - 1] = entries[(d + k - 1) + 1]
      BY <1>2, <3>1
    <3> QED
      BY <1>6, <2>3, <3>1, <3>2
  <2>6. t[Len(t)] = cmd
    <3>1. H - d \in 1 .. H - d /\ d + (H - d) - 1 = H - 1
      BY <1>1, <1>8
    <3> HIDE DEF d
    <3> QED
      BY <1>2, <2>3, <3>1
  <2>7. t = Append(s, cmd)
    <3> HIDE DEF d
    <3> QED
      BY <1>5, <2>3, <2>4, <2>5, <2>6, IsAppend
  <2>8. Log!Bounded(t) = t
    <3>1. ~ (Len(t) > H)
      BY <1>1, <1>8, <2>3
    <3> QED
      BY <3>1 DEF Log!Bounded, H
  <2>9. Packed'
    BY <2>1, <2>2 DEF Packed, H
  <2> QED
    BY <2>7, <2>8, <2>9 DEF s, t
<1>9. CASE e = 0
  <2>1. Gap(0)'
    <3>1. \A k \in 0 .. H - 1 : entries'[k] # <<>>
      <4> SUFFICES ASSUME NEW k \in 0 .. H - 1 PROVE entries'[k] # <<>>
        OBVIOUS
      <4>1. CASE k = H - 1
        BY <1>2, <4>1
      <4>2. CASE k # H - 1
        <5>1. k \in 0 .. H - 2 /\ k + 1 \in 0 .. H - 1 /\ ~ (k + 1 < e)
          BY <1>1, <1>9, <4>2
        <5> QED
          BY <1>2, <1>3, <5>1
      <4> QED
        BY <4>1, <4>2
    <3>2. \A k \in 0 .. H - 1 : ~ (k < 0)
      BY <1>1
    <3> QED
      BY <3>1, <3>2 DEF Gap, H
  <2>2. 0 \in 0 .. H /\ H - 0 = H
    BY <1>1
  <2>3. /\ t \in Seq(Strings) /\ Len(t) = H
        /\ \A k \in 1 .. H : t[k] = entries'[0 + k - 1]
    BY <1>7, <2>1, <2>2
  <2>4. Len(s) = H
    BY <1>1, <1>5, <1>9
  <2>5. \A k \in 1 .. H - 1 : t[k] = s[k + 1]
    <3> SUFFICES ASSUME NEW k \in 1 .. H - 1 PROVE t[k] = s[k + 1]
      OBVIOUS
    <3>1. /\ k \in 1 .. H /\ 0 + k - 1 = k - 1 /\ k - 1 \in 0 .. H - 2
          /\ (k - 1) + 1 = k /\ k + 1 \in 1 .. H - e /\ e + (k + 1) - 1 = k
      BY <1>1, <1>9
    <3>2. t[k] = entries'[k - 1] /\ entries'[k - 1] = entries[k]
      BY <1>2, <2>3, <3>1
    <3>3. s[k + 1] = entries[k]
      BY <1>6, <3>1
    <3> QED
      BY <3>2, <3>3
  <2>6. t[H] = cmd
    <3>1. H \in 1 .. H /\ 0 + H - 1 = H - 1
      BY <1>1
    <3> QED
      BY <1>2, <2>3, <3>1
  <2>7. t = Tail(Append(s, cmd))
    <3>1. /\ Len(t) = Len(s) /\ Len(s) > 0 /\ t[Len(s)] = cmd
          /\ \A k \in 1 .. Len(s) - 1 : t[k] = s[k + 1]
      BY <1>1, <2>3, <2>4, <2>5, <2>6
    <3> QED
      BY <1>5, <2>3, <3>1, IsTail
  <2>8. Log!Bounded(Append(s, cmd)) = Tail(Append(s, cmd))
    <3>1. Len(Append(s, cmd)) = H + 1
      BY <1>5, <2>4, AppendProperties
    <3>2. Len(Append(s, cmd)) > H
      BY <1>1, <3>1
    <3> QED
      BY <3>2 DEF Log!Bounded, H
  <2>9. Packed'
    BY <2>1, <2>2 DEF Packed, H
  <2> QED
    BY <2>7, <2>8, <2>9 DEF s, t
<1> QED
  BY <1>1, <1>8, <1>9

(* A command that is not recorded is the one listed last.                  *)
LEMMA RepeatStep ==
  ASSUME HistoryOK, NEW e \in 0 .. HISTORY_SIZE, Gap(e),
         NEW cmd, cmd # <<>>, Repeats(cmd)
  PROVE  show_history # <<>> /\ show_history[Len(show_history)] = cmd
<1> DEFINE H == HISTORY_SIZE
           s == show_history
<1>1. H \in Nat /\ H > 0 /\ e \in Nat /\ e <= H
  BY SizesAssumption
<1>2. entries[H - 1] = cmd
  BY RepeatIsLast
<1>3. ~ (H - 1 < e)
  <2>1. H - 1 \in 0 .. H - 1
    BY <1>1
  <2> QED
    BY <1>2, <2>1 DEF Gap
<1>4. s = Segment(e, H) /\ s \in Seq(Strings) /\ Len(s) = H - e
  BY OldestFirst, SegmentOfStrings DEF ListsOldestFirst, SegmentsAreStrings
<1>5. \A k \in 1 .. H - e : s[k] = entries[e + k - 1]
  BY <1>4 DEF Segment
<1> HIDE DEF H, s
<1>6. H - e \in 1 .. H - e /\ e + (H - e) - 1 = H - 1 /\ H - e # 0
  BY <1>1, <1>3
<1>7. s[Len(s)] = cmd
  BY <1>2, <1>4, <1>5, <1>6
<1>8. s # <<>>
  BY <1>4, <1>6, EmptySeq
<1> QED
  BY <1>7, <1>8 DEF s

(* All else leaves the list alone.                                         *)
LEMMA QuietHistory ==
  ASSUME UNCHANGED <<history, history_pos>>
  PROVE  UNCHANGED show_history /\ (Packed => Packed')
<1>1. entries' = entries
  BY DEF entries
<1>2. UNCHANGED listed
  BY <1>1 DEF listed
<1> QED
  BY <1>1, <1>2 DEF show_history, Packed, Gap

LEMMA InitLog == Init => Packed /\ Log!Init
<1> SUFFICES ASSUME Init PROVE Packed /\ Log!Init
  OBVIOUS
<1> DEFINE H == HISTORY_SIZE
<1>1. H \in Nat /\ H > 0 /\ HISTORY_SIZE \in 0 .. HISTORY_SIZE
  BY SizesAssumption
<1>2. \A k \in 0 .. H - 1 : (0 + k) % H \in 0 .. H - 1
  <2> HIDE DEF H
  <2> QED
    BY <1>1
<1>3. Gap(H)
  <2>1. \A k \in 0 .. H - 1 : entries[k] = <<>>
    BY <1>2 DEF Init, entries
  <2>2. \A k \in 0 .. H - 1 : k < H
    BY <1>1
  <2> QED
    BY <2>1, <2>2 DEF Gap
<1>4. show_history = <<>>
  BY <1>1, <1>3, OldestFirst, EmptySegment DEF ListsOldestFirst
<1> QED
  BY <1>1, <1>3, <1>4 DEF Packed, Log!Init, Init

LEMMA NextLog ==
  ASSUME IInv, IInv', Packed, [Next]_vars
  PROVE  Packed' /\ [Log!Execute]_<<show_history, latest>>
<1>1. CASE UNCHANGED past
  <2>1. UNCHANGED <<history, history_pos, latest>>
    BY <1>1 DEF past
  <2> QED
    BY <2>1, QuietHistory
<1>2. ASSUME NEW c, Enter(c)
      PROVE  Packed' /\ [Log!Execute]_<<show_history, latest>>
  <2>1. Terminated(position) = input /\ input \in Strings /\ HistoryOK /\ HistoryOK'
    BY LineFacts DEF IInv, LineOK
  <2>2. CASE input = <<>>
    BY <1>1, <1>2, <2>1, <2>2 DEF Enter, Execute
  <2>3. CASE input # <<>>
    <3>1. add_to_history(input) /\ latest' = input
      BY <1>2, <2>1, <2>3 DEF Enter, Execute
    <3>2. PICK e \in 0 .. HISTORY_SIZE : Gap(e)
      BY DEF Packed
    <3>3. CASE Repeats(input)
      <4>1. show_history # <<>> /\ show_history[Len(show_history)] = input
        BY <2>1, <2>3, <3>2, <3>3, RepeatStep
      <4>2. UNCHANGED <<history, history_pos>>
        BY <3>1, <3>3 DEF add_to_history
      <4> QED
        BY <3>1, <4>1, <4>2, QuietHistory DEF Log!Execute, Log!RepeatOnly
    <3>4. CASE ~ Repeats(input)
      <4>1. /\ history' = [history EXCEPT ![history_pos] = input]
            /\ history_pos' = (history_pos + 1) % HISTORY_SIZE
        BY <3>1, <3>4 DEF add_to_history
      <4>2. Packed' /\ show_history' = Log!Bounded(Append(show_history, input))
        BY <2>1, <2>3, <3>2, <4>1, RecordStep
      <4> QED
        BY <3>1, <4>2 DEF Log!Execute, Log!Record
    <3> QED
      BY <3>3, <3>4
  <2> QED
    BY <2>2, <2>3
<1>3. ASSUME NEW c, Up(c) \/ Down(c) \/ Backspace(c) \/ Tab(c) \/ Insert(c) \/ Ignore(c)
      PROVE  UNCHANGED past
  BY <1>3 DEF Up, Down, Becomes, Backspace, Tab, Insert, Ignore, vars
<1>4. CASE UNCHANGED vars
  BY <1>1, <1>4 DEF vars
<1> QED
  BY <1>1, <1>2, <1>3, <1>4 DEF Next

-----------------------------------------------------------------------------
(***************************************************************************)
(* add_to_history and show_history (shell.c:139-157) implement the log of  *)
(* CommandLog: for every size of the history, what is listed ends with the *)
(* command executed last, after the latest ones before it in their order.  *)
(***************************************************************************)
THEOREM HistoryKeepsLog == Spec => HistoryIsLog
<1>1. Init => IInv /\ Packed /\ Log!Init
  BY InitIInv, InitLog
<1>2. IInv /\ [Next]_vars => IInv'
  BY NextIInv
<1>3. IInv /\ IInv' /\ Packed /\ [Next]_vars
        => Packed' /\ [Log!Execute]_<<show_history, latest>>
  BY NextLog
<1> QED
  BY <1>1, <1>2, <1>3, PTL DEF Spec, HistoryIsLog, Log!Spec

-----------------------------------------------------------------------------
(***************************************************************************)
(* The screen.  A screen between two characters is Good: its cursor is on  *)
(* it, and the rows below the cursor are blank, which is what makes the    *)
(* row after a line feed a blank one, scrolled or not.                     *)
(***************************************************************************)
Good ==
  {t \in Screen(Printable) : \A y \in Rows : y > t.cursor_y => t.cells[y] = BlankRow}

(* The characters that the shell writes.                                   *)
Written == Printable \cup {NL, CR, BS, TAB}

LEMMA ScreenSize ==
  /\ COLS \in Nat /\ COLS > 0 /\ ROWS \in Nat /\ ROWS > 0
  /\ Space \in Printable /\ BlankRow \in [Columns -> Printable]
  /\ \A x \in Columns : BlankRow[x] = Space
BY ScreenAssumption DEF Space, Printable, BlankRow

(***************************************************************************)
(* terminal_writestring, character by character: f holds the screens that  *)
(* the first m characters of str make of t.                                *)
(***************************************************************************)
Writes(f, t, str, m) ==
  f = [n \in 0 .. m |-> IF n = 0 THEN t ELSE putchar(f[n - 1], str[n])]

LEMMA WritesExist ==
  ASSUME NEW t, NEW str, NEW L \in Nat
  PROVE  \E f : Writes(f, t, str, L)
<1> DEFINE T == {m \in 0 .. L : ~ \E f : Writes(f, t, str, m)}
<1> SUFFICES ASSUME T # {} PROVE FALSE
  <2>1. L \in 0 .. L
    OBVIOUS
  <2> QED
    BY <2>1
<1>1. T \subseteq Nat
  OBVIOUS
<1> DEFINE m == Min(T)
<1>2. m \in T /\ \A y \in T : m <= y
  <2> HIDE DEF T
  <2> QED
    BY <1>1, LeastIndex
<1> HIDE DEF m
<1>3. m \in 0 .. L /\ ~ \E f : Writes(f, t, str, m)
  BY <1>2
<1>4. CASE m = 0
  <2> DEFINE f == [n \in 0 .. 0 |-> t]
  <2>1. f = [n \in 0 .. 0 |-> IF n = 0 THEN t ELSE putchar(f[n - 1], str[n])]
    OBVIOUS
  <2> HIDE DEF f
  <2>2. Writes(f, t, str, 0)
    BY <2>1 DEF Writes
  <2> QED
    BY <1>3, <1>4, <2>2
<1>5. CASE m # 0
  <2>1. m - 1 \in 0 .. L /\ ~ (m <= m - 1) /\ m \in Nat
    BY <1>3, <1>5
  <2>2. m - 1 \notin T
    BY <1>2, <2>1
  <2>3. PICK f : Writes(f, t, str, m - 1)
    <3>1. \E f : Writes(f, t, str, m - 1)
      BY <2>1, <2>2
    <3> QED
      BY <3>1
  <2>4. \A n \in 0 .. m - 1 : f[n] = IF n = 0 THEN t ELSE putchar(f[n - 1], str[n])
    BY <2>3 DEF Writes
  <2> DEFINE g == [n \in 0 .. m |-> IF n = m THEN putchar(f[m - 1], str[m]) ELSE f[n]]
  <2>5. \A n \in 0 .. m : g[n] = IF n = 0 THEN t ELSE putchar(g[n - 1], str[n])
    <3> SUFFICES ASSUME NEW n \in 0 .. m
                 PROVE  g[n] = IF n = 0 THEN t ELSE putchar(g[n - 1], str[n])
      OBVIOUS
    <3>1. CASE n = m
      <4>1. m - 1 \in 0 .. m /\ m - 1 # m /\ m \in 0 .. m
        BY <2>1
      <4>2. g[n] = putchar(f[m - 1], str[m]) /\ g[n - 1] = f[m - 1]
        BY <3>1, <4>1
      <4> HIDE DEF g
      <4> QED
        BY <1>5, <3>1, <4>2
    <3>2. CASE n # m
      <4>1. n \in 0 .. m - 1
        BY <2>1, <3>2
      <4>2. g[n] = f[n]
        BY <3>2
      <4>3. n # 0 => g[n - 1] = f[n - 1]
        <5> SUFFICES ASSUME n # 0 PROVE g[n - 1] = f[n - 1]
          OBVIOUS
        <5>1. n - 1 \in 0 .. m /\ n - 1 # m
          BY <2>1, <3>2
        <5> QED
          BY <5>1
      <4> HIDE DEF g
      <4> QED
        BY <2>4, <4>1, <4>2, <4>3
    <3> QED
      BY <3>1, <3>2
  <2>6. g = [n \in 0 .. m |-> g[n]]
    OBVIOUS
  <2> HIDE DEF g
  <2>7. Writes(g, t, str, m)
    BY <2>5, <2>6 DEF Writes
  <2> QED
    BY <1>3, <2>7
<1> QED
  BY <1>4, <1>5

(* What one character leads from S[n - 1] to S[n], the string leads from   *)
(* S[0] to the last.                                                       *)
LEMMA WriteInduction ==
  ASSUME NEW t, NEW str, Len(str) \in Nat, NEW S,
         t \in S[0],
         \A n \in 1 .. Len(str) : \A u \in S[n - 1] : putchar(u, str[n]) \in S[n]
  PROVE  terminal_writestring(t, str) \in S[Len(str)]
<1> DEFINE L == Len(str)
           f == CHOOSE f : Writes(f, t, str, L)
<1>1. Writes(f, t, str, L)
  BY WritesExist
<1>2. terminal_writestring(t, str) = f[L]
  BY DEF terminal_writestring, Writes
<1>3. \A n \in 0 .. L : f[n] = IF n = 0 THEN t ELSE putchar(f[n - 1], str[n])
  <2> HIDE DEF f
  <2> QED
    BY <1>1 DEF Writes
<1> HIDE DEF f
<1>4. \A n \in 0 .. L : f[n] \in S[n]
  <2> DEFINE T == {n \in 0 .. L : f[n] \notin S[n]}
  <2> SUFFICES ASSUME T # {} PROVE FALSE
    OBVIOUS
  <2>1. T \subseteq Nat
    OBVIOUS
  <2> DEFINE m == Min(T)
  <2>2. m \in T /\ \A y \in T : m <= y
    <3> HIDE DEF T
    <3> QED
      BY <2>1, LeastIndex
  <2> HIDE DEF m
  <2>3. m \in 0 .. L /\ f[m] \notin S[m]
    BY <2>2
  <2>4. m # 0
    BY <1>3, <2>3
  <2>5. m - 1 \in 0 .. L /\ m \in 1 .. L /\ ~ (m <= m - 1)
    BY <2>3, <2>4
  <2>6. f[m - 1] \in S[m - 1]
    BY <2>2, <2>5
  <2>7. f[m] = putchar(f[m - 1], str[m])
    BY <1>3, <2>3, <2>4
  <2> QED
    BY <2>3, <2>5, <2>6, <2>7
<1>5. L \in 0 .. L
  OBVIOUS
<1> QED
  BY <1>2, <1>4, <1>5

-----------------------------------------------------------------------------
(* One character: a screen inside putchar, before Wrap and Scroll, is in   *)
(* Between, where the cursor may be past the edge or below the last row.   *)
Cells == [Rows -> [Columns -> Printable]]

BlankBelow(t) == \A y \in Rows : y > t.cursor_y => t.cells[y] = BlankRow

Between ==
  {t \in [cells : Cells, cursor_x : Nat, cursor_y : 0 .. ROWS] : BlankBelow(t)}

LEMMA GoodFacts ==
  ASSUME NEW t \in Good
  PROVE  /\ t = [cells |-> t.cells, cursor_x |-> t.cursor_x, cursor_y |-> t.cursor_y]
         /\ t.cells \in Cells /\ t.cursor_x \in Columns /\ t.cursor_y \in Rows
         /\ BlankBelow(t) /\ t \in Between
         /\ t.cursor_x \in Nat /\ t.cursor_x < COLS /\ t.cursor_y \in Nat /\ t.cursor_y < ROWS
<1>1. t \in [cells : Cells, cursor_x : Columns, cursor_y : Rows] /\ BlankBelow(t)
  BY DEF Good, Screen, Cells, BlankBelow
<1>2. Columns \subseteq Nat /\ Rows \subseteq 0 .. ROWS
      /\ (\A x \in Columns : x < COLS) /\ (\A y \in Rows : y \in Nat /\ y < ROWS)
  BY ScreenSize DEF Columns, Rows
<1> QED
  BY <1>1, <1>2 DEF Between

LEMMA IsGood ==
  ASSUME NEW t \in [cells : Cells, cursor_x : Columns, cursor_y : Rows], BlankBelow(t)
  PROVE  t \in Good
BY DEF Good, Screen, Cells, BlankBelow

LEMMA ScrollGood ==
  ASSUME NEW t \in Between, t.cursor_x < COLS
  PROVE  /\ Scroll(t) \in Good
         /\ t.cursor_y < ROWS => Scroll(t) = t
         /\ ~ (t.cursor_y < ROWS) =>
              Scroll(t).cursor_x = t.cursor_x /\ CursorRow(Scroll(t)) = BlankRow
<1>1. /\ t \in [cells : Cells, cursor_x : Nat, cursor_y : 0 .. ROWS] /\ BlankBelow(t)
      /\ t.cursor_x \in Nat /\ t.cursor_y \in 0 .. ROWS /\ t.cells \in Cells
  BY DEF Between
<1>2. t.cursor_x \in Columns
  BY <1>1, ScreenSize DEF Columns
<1>3. CASE t.cursor_y < ROWS
  <2>1. t.cursor_y \in Rows
    BY <1>1, <1>3, ScreenSize DEF Rows
  <2>2. t \in [cells : Cells, cursor_x : Columns, cursor_y : Rows]
    BY <1>1, <1>2, <2>1
  <2> QED
    BY <1>1, <1>3, <2>2, IsGood DEF Scroll
<1>4. CASE ~ (t.cursor_y < ROWS)
  <2> DEFINE cells == [y \in Rows |-> IF y = ROWS - 1 THEN BlankRow ELSE t.cells[y + 1]]
             u     == [cells |-> cells, cursor_x |-> t.cursor_x, cursor_y |-> ROWS - 1]
  <2>1. Scroll(t) = u
    BY <1>1, <1>4 DEF Scroll
  <2>2. cells \in Cells
    <3>1. \A y \in Rows : y # ROWS - 1 => y + 1 \in Rows
      BY ScreenSize DEF Rows
    <3> QED
      BY <1>1, <3>1, ScreenSize DEF Cells
  <2>3. ROWS - 1 \in Rows /\ \A y \in Rows : ~ (y > ROWS - 1)
    BY ScreenSize DEF Rows
  <2>4. cells[ROWS - 1] = BlankRow
    BY <2>3
  <2> HIDE DEF cells
  <2>5. u \in Good
    <3>1. u \in [cells : Cells, cursor_x : Columns, cursor_y : Rows]
      BY <1>2, <2>2, <2>3
    <3>2. BlankBelow(u)
      BY <2>3 DEF BlankBelow
    <3> QED
      BY <3>1, <3>2, IsGood
  <2>6. u.cursor_x = t.cursor_x /\ CursorRow(u) = BlankRow
    BY <2>4 DEF CursorRow
  <2> QED
    BY <1>4, <2>1, <2>5, <2>6
<1> QED
  BY <1>3, <1>4

LEMMA WrapBetween ==
  ASSUME NEW t \in Between, t.cursor_y = ROWS => t.cursor_x < COLS
  PROVE  /\ Wrap(t) \in Between /\ Wrap(t).cursor_x < COLS
         /\ t.cursor_x < COLS => Wrap(t) = t
<1>1. /\ t \in [cells : Cells, cursor_x : Nat, cursor_y : 0 .. ROWS] /\ BlankBelow(t)
      /\ t.cursor_x \in Nat /\ t.cursor_y \in 0 .. ROWS /\ t.cells \in Cells
  BY DEF Between
<1>2. CASE t.cursor_x < COLS
  BY <1>2 DEF Wrap
<1>3. CASE ~ (t.cursor_x < COLS)
  <2> DEFINE u == [cells |-> t.cells, cursor_x |-> 0, cursor_y |-> t.cursor_y + 1]
  <2>1. Wrap(t) = u
    BY <1>1, <1>3 DEF Wrap
  <2>2. t.cursor_y + 1 \in 0 .. ROWS
    BY <1>1, <1>3, ScreenSize
  <2>3. u \in [cells : Cells, cursor_x : Nat, cursor_y : 0 .. ROWS]
    BY <1>1, <2>2
  <2>4. \A y \in Rows : y > t.cursor_y + 1 => y > t.cursor_y
    BY <1>1 DEF Rows
  <2>5. BlankBelow(u)
    BY <1>1, <2>4 DEF BlankBelow
  <2> QED
    BY <1>3, <2>1, <2>3, <2>5, ScreenSize DEF Between
<1> QED
  BY <1>2, <1>3

(* The cell under the cursor, or another of its row, gets a character.     *)
LEMMA CellSet ==
  ASSUME NEW t \in Good, NEW x \in Columns, NEW c \in Printable,
         NEW n \in Nat
  PROVE  LET u == [cells |-> [t.cells EXCEPT ![t.cursor_y][x] = c],
                   cursor_x |-> n, cursor_y |-> t.cursor_y]
         IN  /\ u \in Between /\ u.cursor_x = n /\ u.cursor_y = t.cursor_y
             /\ CursorRow(u) = [CursorRow(t) EXCEPT ![x] = c]
<1> DEFINE cells == [t.cells EXCEPT ![t.cursor_y][x] = c]
           u     == [cells |-> cells, cursor_x |-> n, cursor_y |-> t.cursor_y]
<1>1. /\ t.cells \in Cells /\ t.cursor_y \in Rows /\ BlankBelow(t)
      /\ t.cursor_y \in Nat /\ t.cursor_y < ROWS
  BY GoodFacts
<1>2. cells = [t.cells EXCEPT ![t.cursor_y] = [t.cells[t.cursor_y] EXCEPT ![x] = c]]
  OBVIOUS
<1>3. t.cells[t.cursor_y] \in [Columns -> Printable]
  BY <1>1 DEF Cells
<1>4. [t.cells[t.cursor_y] EXCEPT ![x] = c] \in [Columns -> Printable]
  BY <1>3
<1>5. cells \in Cells
  BY <1>1, <1>2, <1>4 DEF Cells
<1>6. cells[t.cursor_y] = [t.cells[t.cursor_y] EXCEPT ![x] = c]
  BY <1>1, <1>2 DEF Cells
<1>7. \A y \in Rows : y > t.cursor_y => cells[y] = BlankRow
  <2> SUFFICES ASSUME NEW y \in Rows, y > t.cursor_y PROVE cells[y] = BlankRow
    OBVIOUS
  <2>1. y # t.cursor_y
    BY <1>1 DEF Rows
  <2>2. cells[y] = t.cells[y]
    BY <1>1, <1>2, <2>1 DEF Cells
  <2> QED
    BY <1>1, <2>2 DEF BlankBelow
<1> HIDE DEF cells
<1>8. BlankBelow(u)
  BY <1>7 DEF BlankBelow
<1>9. t.cursor_y \in 0 .. ROWS
  BY <1>1, ScreenSize
<1>10. u \in Between
  BY <1>5, <1>8, <1>9 DEF Between
<1>11. CursorRow(u) = [CursorRow(t) EXCEPT ![x] = c]
  BY <1>6 DEF CursorRow
<1> QED
  BY <1>10, <1>11 DEF cells

(* What Put does for each kind of character. *)
LEMMA PutCases ==
  ASSUME NEW t
  PROVE  /\ Put(t, NL) = [t EXCEPT !.cursor_x = 0, !.cursor_y = @ + 1]
         /\ Put(t, CR) = [t EXCEPT !.cursor_x = 0]
         /\ Put(t, BS) = IF t.cursor_x = 0 THEN t
                         ELSE [t EXCEPT !.cursor_x = @ - 1,
                                        !.cells[t.cursor_y][t.cursor_x - 1] = Space]
         /\ Put(t, TAB) = [t EXCEPT !.cursor_x = 8 * ((@ + 8) \div 8)]
         /\ \A c \in Printable :
              Put(t, c) = [t EXCEPT !.cells[t.cursor_y][t.cursor_x] = c, !.cursor_x = @ + 1]
<1>1. /\ NL # CR /\ NL # BS /\ NL # TAB /\ CR # BS /\ CR # TAB /\ BS # TAB
      /\ \A c \in Printable : c # NL /\ c # CR /\ c # BS /\ c # TAB
  BY DEF Printable, NL, CR, BS, TAB
<1> QED
  BY <1>1, Zenon DEF Put

(* Put, with the record it makes written out. *)
LEMMA PutNewLine ==
  ASSUME NEW t \in Good
  PROVE  /\ Put(t, NL) \in Between /\ Put(t, NL).cursor_x = 0
         /\ Put(t, NL).cursor_y = t.cursor_y + 1
         /\ Put(t, NL).cursor_y < ROWS => CursorRow(Put(t, NL)) = BlankRow
<1> DEFINE u == [cells |-> t.cells, cursor_x |-> 0, cursor_y |-> t.cursor_y + 1]
<1>1. /\ t = [cells |-> t.cells, cursor_x |-> t.cursor_x, cursor_y |-> t.cursor_y]
      /\ t.cells \in Cells /\ t.cursor_y \in Nat /\ t.cursor_y < ROWS /\ BlankBelow(t)
  BY GoodFacts
<1>2. Put(t, NL) = u
  <2>1. Put(t, NL) = [t EXCEPT !.cursor_x = 0, !.cursor_y = @ + 1]
    BY PutCases
  <2> QED
    BY <1>1, <2>1
<1>3. t.cursor_y + 1 \in 0 .. ROWS
  BY <1>1, ScreenSize
<1>4. \A y \in Rows : y > t.cursor_y + 1 => y > t.cursor_y
  BY <1>1 DEF Rows
<1>5. u \in Between
  BY <1>1, <1>3, <1>4 DEF Between, BlankBelow
<1>6. u.cursor_y < ROWS => CursorRow(u) = BlankRow
  <2> SUFFICES ASSUME t.cursor_y + 1 < ROWS PROVE t.cells[t.cursor_y + 1] = BlankRow
    BY DEF CursorRow
  <2>1. t.cursor_y + 1 \in Rows /\ t.cursor_y + 1 > t.cursor_y
    BY <1>1, ScreenSize DEF Rows
  <2> QED
    BY <1>1, <2>1 DEF BlankBelow
<1> QED
  BY <1>2, <1>5, <1>6

LEMMA PutBackspace ==
  ASSUME NEW t \in Good, t.cursor_x # 0
  PROVE  /\ Put(t, BS) \in Between /\ Put(t, BS).cursor_x = t.cursor_x - 1
         /\ Put(t, BS).cursor_y = t.cursor_y
         /\ CursorRow(Put(t, BS)) = [CursorRow(t) EXCEPT ![t.cursor_x - 1] = Space]
<1> DEFINE x == t.cursor_x - 1
           u == [cells |-> [t.cells EXCEPT ![t.cursor_y][x] = Space],
                 cursor_x |-> x, cursor_y |-> t.cursor_y]
<1>1. /\ t = [cells |-> t.cells, cursor_x |-> t.cursor_x, cursor_y |-> t.cursor_y]
      /\ t.cursor_x \in Nat /\ t.cursor_x < COLS
  BY GoodFacts
<1>2. x \in Nat /\ x \in Columns
  BY <1>1, ScreenSize DEF Columns
<1>3. Put(t, BS) = u
  <2>1. Put(t, BS) = [t EXCEPT !.cursor_x = @ - 1,
                               !.cells[t.cursor_y][t.cursor_x - 1] = Space]
    BY PutCases
  <2> QED
    BY <1>1, <2>1
<1>4. /\ u \in Between /\ u.cursor_x = x /\ u.cursor_y = t.cursor_y
      /\ CursorRow(u) = [CursorRow(t) EXCEPT ![x] = Space]
  BY <1>2, ScreenSize, CellSet
<1> QED
  BY <1>3, <1>4

LEMMA PutPrintable ==
  ASSUME NEW t \in Good, NEW c \in Printable
  PROVE  /\ Put(t, c) \in Between /\ Put(t, c).cursor_x = t.cursor_x + 1
         /\ Put(t, c).cursor_y = t.cursor_y
         /\ CursorRow(Put(t, c)) = [CursorRow(t) EXCEPT ![t.cursor_x] = c]
<1> DEFINE x == t.cursor_x
           u == [cells |-> [t.cells EXCEPT ![t.cursor_y][x] = c],
                 cursor_x |-> x + 1, cursor_y |-> t.cursor_y]
<1>1. /\ t = [cells |-> t.cells, cursor_x |-> t.cursor_x, cursor_y |-> t.cursor_y]
      /\ x \in Nat /\ x \in Columns
  BY GoodFacts
<1>3. Put(t, c) = u
  <2>1. Put(t, c) = [t EXCEPT !.cells[t.cursor_y][t.cursor_x] = c, !.cursor_x = @ + 1]
    BY PutCases
  <2> QED
    BY <1>1, <2>1
<1>4. x + 1 \in Nat
  BY <1>1
<1>5. /\ u \in Between /\ u.cursor_x = x + 1 /\ u.cursor_y = t.cursor_y
      /\ CursorRow(u) = [CursorRow(t) EXCEPT ![x] = c]
  <2>1. \A n \in Nat :
          LET v == [cells |-> [t.cells EXCEPT ![t.cursor_y][x] = c],
                    cursor_x |-> n, cursor_y |-> t.cursor_y]
          IN  /\ v \in Between /\ v.cursor_x = n /\ v.cursor_y = t.cursor_y
              /\ CursorRow(v) = [CursorRow(t) EXCEPT ![x] = c]
    BY <1>1, CellSet
  <2> QED
    BY <1>4, <2>1
<1> QED
  BY <1>3, <1>5

LEMMA PutBetween ==
  ASSUME NEW t \in Good, NEW c \in Written
  PROVE  /\ Put(t, c) \in Between
         /\ Put(t, c).cursor_y = ROWS => Put(t, c).cursor_x < COLS
<1>1. /\ t = [cells |-> t.cells, cursor_x |-> t.cursor_x, cursor_y |-> t.cursor_y]
      /\ t.cells \in Cells /\ BlankBelow(t) /\ t \in Between
      /\ t.cursor_x \in Nat /\ t.cursor_y \in Nat /\ t.cursor_y < ROWS
      /\ t.cursor_y # ROWS
  BY ScreenSize, GoodFacts
<1>2. CASE c = NL
  BY <1>2, PutNewLine, ScreenSize
<1>3. CASE c \in Printable
  BY <1>1, <1>3, PutPrintable
<1>4. CASE c = BS
  <2>1. CASE t.cursor_x = 0
    BY <1>1, <1>4, <2>1, PutCases
  <2>2. CASE t.cursor_x # 0
    BY <1>1, <1>4, <2>2, PutBackspace
  <2> QED
    BY <2>1, <2>2
<1>5. ASSUME NEW x \in Nat
      PROVE  [cells |-> t.cells, cursor_x |-> x, cursor_y |-> t.cursor_y] \in Between
  BY <1>1 DEF Between, BlankBelow
<1>6. CASE c = CR
  <2>1. Put(t, c) = [cells |-> t.cells, cursor_x |-> 0, cursor_y |-> t.cursor_y]
    <3>1. Put(t, c) = [t EXCEPT !.cursor_x = 0]
      BY <1>6, PutCases
    <3> QED
      BY <1>1, <3>1
  <2> QED
    BY <1>1, <1>5, <2>1
<1>7. CASE c = TAB
  <2> DEFINE x == 8 * ((t.cursor_x + 8) \div 8)
  <2>1. Put(t, c) = [cells |-> t.cells, cursor_x |-> x, cursor_y |-> t.cursor_y]
    <3>1. Put(t, c) = [t EXCEPT !.cursor_x = x]
      BY <1>7, PutCases
    <3> HIDE DEF x
    <3> QED
      BY <1>1, <3>1
  <2>2. x \in Nat
    BY <1>1
  <2> HIDE DEF x
  <2> QED
    BY <1>1, <1>5, <2>1, <2>2
<1> QED
  BY <1>2, <1>3, <1>4, <1>6, <1>7 DEF Written

(* What putchar does to the screen. *)
LEMMA PutcharGood ==
  ASSUME NEW t \in Good, NEW c \in Written PROVE putchar(t, c) \in Good
BY PutBetween, WrapBetween, ScrollGood DEF putchar

(* A put that stays within the row is all there is to putchar. *)
LEMMA WithinRow ==
  ASSUME NEW t \in Good, NEW c \in Written,
         Put(t, c).cursor_x < COLS, Put(t, c).cursor_y < ROWS
  PROVE  putchar(t, c) = Put(t, c)
<1>1. Put(t, c) \in Between /\ (Put(t, c).cursor_y = ROWS => Put(t, c).cursor_x < COLS)
  BY PutBetween
<1>2. Wrap(Put(t, c)) = Put(t, c)
  BY <1>1, WrapBetween
<1> QED
  BY <1>1, <1>2, ScrollGood DEF putchar

LEMMA PutcharNewLine ==
  ASSUME NEW t \in Good
  PROVE  putchar(t, NL).cursor_x = 0 /\ CursorRow(putchar(t, NL)) = BlankRow
<1> DEFINE u == Put(t, NL)
<1>1. /\ u \in Between /\ u.cursor_x = 0 /\ u.cursor_y = t.cursor_y + 1
      /\ u.cursor_y < ROWS => CursorRow(u) = BlankRow
  BY PutNewLine
<1> HIDE DEF u
<1>2. u.cursor_x < COLS
  BY <1>1, ScreenSize
<1>3. Wrap(u) = u
  BY <1>2 DEF Wrap
<1>4. putchar(t, NL) = Scroll(u)
  BY <1>3 DEF putchar, u
<1> QED
  BY <1>1, <1>2, <1>4, ScrollGood

-----------------------------------------------------------------------------
(* The screens whose cursor is in column x of a row that shows the first m *)
(* characters of s and nothing else.                                       *)
Upto(s, m, x) ==
  {t \in Good : t.cursor_x = x /\
     CursorRow(t) = [c \in Columns |-> IF c < m THEN s[c + 1] ELSE Space]}

(* A character typed, a space in the erased place, and a backspace.        *)
LEMMA PutcharNext ==
  ASSUME NEW s, NEW m \in Nat, m + 1 < COLS, s[m + 1] \in Printable, NEW t \in Upto(s, m, m)
  PROVE  putchar(t, s[m + 1]) \in Upto(s, m + 1, m + 1)
<1> DEFINE c == s[m + 1]
           u == Put(t, c)
<1>1. t \in Good /\ t.cursor_x = m /\ t.cursor_y < ROWS
      /\ CursorRow(t) = [k \in Columns |-> IF k < m THEN s[k + 1] ELSE Space]
  BY GoodFacts DEF Upto
<1>2. c \in Written
  BY DEF Written
<1>3. /\ u.cursor_x = m + 1 /\ u.cursor_y = t.cursor_y
      /\ CursorRow(u) = [CursorRow(t) EXCEPT ![m] = c]
  BY <1>1, PutPrintable
<1> HIDE DEF u
<1>4. putchar(t, c) = u
  BY <1>1, <1>2, <1>3, WithinRow DEF u
<1>5. CursorRow(u) = [k \in Columns |-> IF k < m + 1 THEN s[k + 1] ELSE Space]
  <2>1. \A k \in Columns : k < m + 1 <=> (k < m \/ k = m)
    BY ScreenSize DEF Columns
  <2> QED
    BY <1>1, <1>3, <2>1
<1>6. u \in Good
  BY <1>1, <1>2, <1>4, PutcharGood
<1> QED
  BY <1>3, <1>4, <1>5, <1>6 DEF Upto

LEMMA PutcharErase ==
  ASSUME NEW s, NEW m \in Nat, NEW k \in {m, m + 1}, NEW t \in Upto(s, k, m + 1)
  PROVE  putchar(t, BS) \in Upto(s, m, m)
<1> DEFINE u == Put(t, BS)
<1>1. /\ t \in Good /\ t.cursor_x = m + 1 /\ t.cursor_y < ROWS /\ m + 1 < COLS
      /\ CursorRow(t) = [x \in Columns |-> IF x < k THEN s[x + 1] ELSE Space]
  BY GoodFacts DEF Upto
<1>2. BS \in Written /\ t.cursor_x # 0 /\ t.cursor_x - 1 = m
  BY <1>1 DEF Written
<1>3. /\ u.cursor_x = m /\ u.cursor_y = t.cursor_y
      /\ CursorRow(u) = [CursorRow(t) EXCEPT ![m] = Space]
  BY <1>1, <1>2, PutBackspace
<1> HIDE DEF u
<1>4. putchar(t, BS) = u
  <2>1. m < COLS
    BY <1>1, ScreenSize
  <2> QED
    BY <1>1, <1>2, <1>3, <2>1, WithinRow DEF u
<1>5. CursorRow(u) = [x \in Columns |-> IF x < m THEN s[x + 1] ELSE Space]
  <2>1. \A x \in Columns : /\ x < m => x < k
                           /\ ~ (x < m) /\ x # m => ~ (x < k)
    BY ScreenSize DEF Columns
  <2>2. m \in Columns /\ ~ (m < m)
    BY <1>1, ScreenSize DEF Columns
  <2> QED
    BY <1>1, <1>3, <2>1, <2>2
<1>6. u \in Good
  BY <1>1, <1>2, <1>4, PutcharGood
<1> QED
  BY <1>3, <1>4, <1>5, <1>6 DEF Upto

LEMMA PutcharSpace ==
  ASSUME NEW s, NEW m \in Nat, m + 1 < COLS, NEW t \in Upto(s, m, m)
  PROVE  putchar(t, Space) \in Upto(s, m, m + 1)
<1> DEFINE u == Put(t, Space)
<1>1. t \in Good /\ t.cursor_x = m /\ t.cursor_y < ROWS
      /\ CursorRow(t) = [k \in Columns |-> IF k < m THEN s[k + 1] ELSE Space]
  BY GoodFacts DEF Upto
<1>2. Space \in Written /\ Space \in Printable
  BY ScreenSize DEF Written
<1>3. /\ u.cursor_x = m + 1 /\ u.cursor_y = t.cursor_y
      /\ CursorRow(u) = [CursorRow(t) EXCEPT ![m] = Space]
  BY <1>1, <1>2, PutPrintable
<1> HIDE DEF u
<1>4. putchar(t, Space) = u
  BY <1>1, <1>2, <1>3, WithinRow DEF u
<1>5. CursorRow(u) = [k \in Columns |-> IF k < m THEN s[k + 1] ELSE Space]
  <2>1. ~ (m < m)
    OBVIOUS
  <2> QED
    BY <1>1, <1>3, <2>1
<1>6. u \in Good
  BY <1>1, <1>2, <1>4, PutcharGood
<1> QED
  BY <1>3, <1>4, <1>5, <1>6 DEF Upto

-----------------------------------------------------------------------------
(* Strings: any, an output, and one that continues what is shown.          *)
LEMMA WriteGood ==
  ASSUME NEW t \in Good, NEW str \in Seq(Written)
  PROVE  terminal_writestring(t, str) \in Good
<1> DEFINE S == [n \in 0 .. Len(str) |-> Good]
<1>1. Len(str) \in Nat /\ \A n \in 1 .. Len(str) : str[n] \in Written
  BY LenProperties, ElementOfSeq
<1>2. 0 \in 0 .. Len(str) /\ Len(str) \in 0 .. Len(str)
      /\ \A n \in 1 .. Len(str) : n \in 0 .. Len(str) /\ n - 1 \in 0 .. Len(str)
  BY <1>1
<1>3. t \in S[0] /\ S[Len(str)] = Good
  BY <1>2
<1>4. \A n \in 1 .. Len(str) : \A u \in S[n - 1] : putchar(u, str[n]) \in S[n]
  BY <1>1, <1>2, PutcharGood
<1> HIDE DEF S
<1>5. terminal_writestring(t, str) \in S[Len(str)]
  BY <1>1, <1>3, <1>4, WriteInduction
<1> QED
  BY <1>3, <1>5

(* A string that ends its last row leaves the cursor on a blank one.       *)
LEMMA WriteRows ==
  ASSUME NEW s, NEW t \in Upto(s, 0, 0), NEW str \in Seq(Written),
         str # <<>> => str[Len(str)] = NL
  PROVE  terminal_writestring(t, str) \in Upto(s, 0, 0)
<1> DEFINE L == Len(str)
           S == [n \in 0 .. L |-> IF n = L THEN Upto(s, 0, 0) ELSE Good]
<1>1. L \in Nat /\ \A n \in 1 .. L : str[n] \in Written
  BY LenProperties, ElementOfSeq
<1>2. Upto(s, 0, 0) \subseteq Good
  BY DEF Upto
<1>3. \A u \in Good : putchar(u, NL) \in Upto(s, 0, 0)
  <2> SUFFICES ASSUME NEW u \in Good PROVE putchar(u, NL) \in Upto(s, 0, 0)
    OBVIOUS
  <2>1. putchar(u, NL) \in Good
    BY PutcharGood DEF Written
  <2>2. putchar(u, NL).cursor_x = 0 /\ CursorRow(putchar(u, NL)) = BlankRow
    BY PutcharNewLine
  <2>3. BlankRow = [c \in Columns |-> IF c < 0 THEN s[c + 1] ELSE Space]
    <3>1. \A c \in Columns : ~ (c < 0)
      BY ScreenSize DEF Columns
    <3> QED
      BY <3>1 DEF BlankRow
  <2> QED
    BY <2>1, <2>2, <2>3 DEF Upto
<1>4. L # 0 => str[L] = NL
  BY EmptySeq
<1>5. t \in S[0] /\ S[L] = Upto(s, 0, 0)
  BY <1>1, <1>2
<1>6. \A n \in 1 .. L : \A u \in S[n - 1] : putchar(u, str[n]) \in S[n]
  <2> SUFFICES ASSUME NEW n \in 1 .. L, NEW u \in S[n - 1]
               PROVE  putchar(u, str[n]) \in S[n]
    OBVIOUS
  <2>1. n \in 0 .. L /\ n - 1 \in 0 .. L /\ n - 1 # L /\ L # 0
    BY <1>1
  <2>2. u \in Good
    BY <2>1
  <2>3. CASE n = L
    BY <1>3, <1>4, <2>1, <2>2, <2>3
  <2>4. CASE n # L
    BY <1>1, <2>1, <2>2, <2>4, PutcharGood
  <2> QED
    BY <2>3, <2>4
<1> HIDE DEF S
<1>7. terminal_writestring(t, str) \in S[L]
  BY <1>1, <1>5, <1>6, WriteInduction
<1> QED
  BY <1>5, <1>7

(* A string within the row continues what is shown.                        *)
LEMMA WriteText ==
  ASSUME NEW s, NEW m \in Nat, NEW t \in Upto(s, m, m), NEW str, NEW L \in Nat,
         Len(str) = L, m + L < COLS,
         \A k \in 1 .. L : str[k] = s[m + k] /\ s[m + k] \in Printable
  PROVE  terminal_writestring(t, str) \in Upto(s, m + L, m + L)
<1> DEFINE S == [n \in 0 .. L |-> Upto(s, m + n, m + n)]
<1>1. t \in S[0] /\ S[L] = Upto(s, m + L, m + L)
  <2>1. 0 \in 0 .. L /\ L \in 0 .. L /\ m + 0 = m
    OBVIOUS
  <2> QED
    BY <2>1
<1>2. \A n \in 1 .. L : \A u \in S[n - 1] : putchar(u, str[n]) \in S[n]
  <2> SUFFICES ASSUME NEW n \in 1 .. L, NEW u \in S[n - 1]
               PROVE  putchar(u, str[n]) \in S[n]
    OBVIOUS
  <2> DEFINE i == m + (n - 1)
  <2>1. /\ i \in Nat /\ i + 1 = m + n /\ i + 1 < COLS
        /\ n \in 0 .. L /\ n - 1 \in 0 .. L
    BY ScreenSize
  <2>2. u \in Upto(s, i, i) /\ S[n] = Upto(s, i + 1, i + 1)
    BY <2>1
  <2> HIDE DEF i, S
  <2>3. str[n] = s[i + 1] /\ s[i + 1] \in Printable
    BY <2>1
  <2> QED
    BY <2>1, <2>2, <2>3, PutcharNext
<1> HIDE DEF S
<1>3. terminal_writestring(t, str) \in S[L]
  BY <1>1, <1>2, WriteInduction
<1> QED
  BY <1>1, <1>3

(* The "\b \b" for each of p characters (shell.c:603, 613-616, 628-631).   *)
Erasing(p) == [k \in 1 .. 3 * p |-> IF k % 3 = 2 THEN Space ELSE BS]

LEMMA ErasingIsWritten ==
  ASSUME NEW p \in Nat
  PROVE  /\ Erasing(p) \in Seq(Written) /\ Len(Erasing(p)) = 3 * p
         /\ \A n \in 1 .. 3 * p : Erasing(p)[n] = IF n % 3 = 2 THEN Space ELSE BS
<1>1. 3 * p \in Nat
  OBVIOUS
<1>2. Space \in Written /\ BS \in Written
  BY ScreenSize DEF Written
<1>3. Erasing(p) \in [1 .. 3 * p -> Written]
  BY <1>2 DEF Erasing
<1>4. Erasing(p) \in Seq(Written)
  BY <1>1, <1>3, SeqDef
<1>5. Len(Erasing(p)) = 3 * p
  BY <1>1, <1>3, <1>4, LenProperties
<1> QED
  BY <1>4, <1>5 DEF Erasing

(* Three characters of Erasing for each one of the line.                   *)
LEMMA Thirds ==
  /\ \A x \in Nat : x % 3 = 1 => x > 0 /\ (x - 1) % 3 = 0 /\ (x - 1) \div 3 = x \div 3
  /\ \A x \in Nat : x % 3 = 2 => x > 0 /\ (x - 1) % 3 = 1 /\ (x - 1) \div 3 = x \div 3
  /\ \A x \in Nat : x % 3 = 0 /\ x > 0 =>
                      (x - 1) % 3 = 2 /\ (x - 1) \div 3 = x \div 3 - 1
  /\ \A x \in Nat : x % 3 \in {0, 1, 2} /\ x \div 3 \in Nat
  /\ \A p \in Nat : \A x \in Nat : x > 0 /\ x <= 3 * p => (x - 1) \div 3 < p
  /\ \A p \in Nat : 3 * p \in Nat /\ (3 * p) % 3 = 0 /\ (3 * p) \div 3 = p
OBVIOUS

LEMMA WriteErasing ==
  ASSUME NEW s, NEW m \in Nat, NEW p \in Nat, NEW t \in Upto(s, m + p, m + p)
  PROVE  terminal_writestring(t, Erasing(p)) \in Upto(s, m, m)
<1> DEFINE str   == Erasing(p)
           L     == 3 * p
           at(n) == m + (p - n \div 3)
           S     == [n \in 0 .. L |->
                       IF n % 3 = 0 THEN Upto(s, at(n), at(n))
                       ELSE IF n % 3 = 1 THEN Upto(s, at(n) - 1, at(n) - 1)
                       ELSE Upto(s, at(n) - 1, at(n))]
<1>1. /\ L \in Nat /\ Len(str) = L
      /\ \A n \in 1 .. L : str[n] = IF n % 3 = 2 THEN Space ELSE BS
  <2>1. /\ Len(Erasing(p)) = 3 * p
        /\ \A n \in 1 .. 3 * p : Erasing(p)[n] = IF n % 3 = 2 THEN Space ELSE BS
    BY ErasingIsWritten
  <2> QED
    BY <2>1, Thirds
<1>2. t \in S[0]
  <2>1. 0 \in 0 .. L /\ 0 % 3 = 0 /\ at(0) = m + p
    OBVIOUS
  <2> HIDE DEF at, L
  <2> QED
    BY <2>1
<1>3. S[L] = Upto(s, m, m)
  <2>1. L \in 0 .. L /\ L % 3 = 0 /\ at(L) = m
    OBVIOUS
  <2> HIDE DEF at, L
  <2> QED
    BY <2>1
<1>4. t.cursor_x = m + p /\ m + p < COLS
  BY GoodFacts DEF Upto
<1>5. \A n \in 1 .. L : \A u \in S[n - 1] : putchar(u, str[n]) \in S[n]
  <2> SUFFICES ASSUME NEW n \in 1 .. L, NEW u \in S[n - 1]
               PROVE  putchar(u, str[n]) \in S[n]
    OBVIOUS
  <2> DEFINE i == at(n - 1) - 1
  <2>1. /\ n \in Nat /\ n > 0 /\ n <= 3 * p /\ n - 1 \in Nat
        /\ n \in 0 .. L /\ n - 1 \in 0 .. L
    OBVIOUS
  <2>2. (n - 1) \div 3 < p /\ (n - 1) \div 3 \in Nat /\ n \div 3 \in Nat
    BY <2>1, Thirds
  <2>3. /\ i \in Nat /\ i + 1 <= m + p /\ (i + 1) - 1 = i
        /\ at(n) \in Int /\ at(n - 1) = i + 1
    BY <2>2
  <2>4. (n \div 3 = (n - 1) \div 3 => at(n) = i + 1)
        /\ ((n - 1) \div 3 = n \div 3 - 1 => at(n) = i)
    BY <2>2
  <2>5. CASE n % 3 = 1
    <3>1. (n - 1) % 3 = 0 /\ at(n) = i + 1
      BY <2>1, <2>4, <2>5, Thirds
    <3> HIDE DEF at, i, L
    <3>2. u \in Upto(s, i + 1, i + 1) /\ S[n] = Upto(s, i, i)
      BY <2>1, <2>3, <2>5, <3>1
    <3>3. str[n] = BS
      BY <1>1, <2>5
    <3> HIDE DEF S, str
    <3> QED
      BY <2>3, <3>2, <3>3, PutcharErase
  <2>6. CASE n % 3 = 2
    <3>1. (n - 1) % 3 = 1 /\ at(n) = i + 1
      BY <2>1, <2>4, <2>6, Thirds
    <3>2. i + 1 < COLS
      BY <1>4, <2>3, ScreenSize
    <3> HIDE DEF at, i, L
    <3>4. u \in Upto(s, i, i) /\ S[n] = Upto(s, i, i + 1)
      BY <2>1, <2>3, <2>6, <3>1
    <3>5. str[n] = Space
      BY <1>1, <2>6
    <3> HIDE DEF S, str
    <3> QED
      BY <2>3, <3>2, <3>4, <3>5, PutcharSpace
  <2>7. CASE n % 3 = 0
    <3>1. (n - 1) % 3 = 2 /\ at(n) = i
      BY <2>1, <2>4, <2>7, Thirds
    <3> HIDE DEF at, i, L
    <3>3. u \in Upto(s, i, i + 1) /\ S[n] = Upto(s, i, i)
      BY <2>1, <2>3, <2>7, <3>1
    <3>4. str[n] = BS
      BY <1>1, <2>7
    <3> HIDE DEF S, str
    <3> QED
      BY <2>3, <3>3, <3>4, PutcharErase
  <2> QED
    BY <2>1, <2>5, <2>6, <2>7, Thirds
<1> HIDE DEF S, str
<1>6. terminal_writestring(t, str) \in S[Len(str)]
  <2> HIDE DEF L
  <2> QED
    BY <1>1, <1>2, <1>5, WriteInduction
<1> QED
  BY <1>1, <1>3, <1>6 DEF str

-----------------------------------------------------------------------------
(* What is shown depends on the characters shown alone.                    *)
LEMMA UptoSame ==
  ASSUME NEW s, NEW r, NEW m \in Nat, NEW x, \A k \in 1 .. m : s[k] = r[k],
         NEW t \in Upto(s, m, x)
  PROVE  t \in Upto(r, m, x)
<1>1. \A c \in Columns : c < m => c + 1 \in 1 .. m
  BY ScreenSize DEF Columns
<1>2. [c \in Columns |-> IF c < m THEN s[c + 1] ELSE Space]
        = [c \in Columns |-> IF c < m THEN r[c + 1] ELSE Space]
  BY <1>1
<1> QED
  BY <1>2 DEF Upto

LEMMA Joined ==
  ASSUME NEW p \in Seq(Printable), NEW s \in Seq(Printable)
  PROVE  /\ p \o s \in Seq(Printable) /\ Len(p \o s) = Len(p) + Len(s)
         /\ Len(p) \in Nat /\ Len(s) \in Nat
         /\ \A k \in 1 .. Len(p) : (p \o s)[k] = p[k]
         /\ \A k \in 1 .. Len(s) : (p \o s)[Len(p) + k] = s[k]
<1>1. /\ p \o s \in Seq(Printable) /\ Len(p \o s) = Len(p) + Len(s)
      /\ \A i \in 1 .. Len(p) + Len(s) :
           (p \o s)[i] = IF i <= Len(p) THEN p[i] ELSE s[i - Len(p)]
  BY ConcatProperties
<1>2. Len(p) \in Nat /\ Len(s) \in Nat
  BY LenProperties
<1>3. ASSUME NEW k \in 1 .. Len(p) PROVE (p \o s)[k] = p[k]
  BY <1>1, <1>2, <1>3
<1>4. ASSUME NEW k \in 1 .. Len(s) PROVE (p \o s)[Len(p) + k] = s[k]
  <2>1. /\ Len(p) + k \in 1 .. Len(p) + Len(s) /\ ~ (Len(p) + k <= Len(p))
        /\ (Len(p) + k) - Len(p) = k
    BY <1>2
  <2> QED
    BY <1>1, <2>1
<1> QED
  BY <1>1, <1>2, <1>3, <1>4

(* Writing str after what is shown shows it all.                           *)
LEMMA WriteOn ==
  ASSUME NEW p \in Seq(Printable), NEW str \in Seq(Printable),
         Len(p) + Len(str) < COLS, NEW t \in Upto(p, Len(p), Len(p))
  PROVE  terminal_writestring(t, str)
           \in Upto(p \o str, Len(p) + Len(str), Len(p) + Len(str))
<1> DEFINE m == Len(p)
           L == Len(str)
           s == p \o str
<1>1. /\ m \in Nat /\ L \in Nat /\ \A k \in 1 .. m : p[k] = s[k]
      /\ \A k \in 1 .. L : s[m + k] = str[k]
  BY Joined
<1>2. \A k \in 1 .. L : str[k] \in Printable
  BY ElementOfSeq
<1>3. m + L < COLS /\ L = Len(str)
  OBVIOUS
<1>4. t \in Upto(p, m, m)
  OBVIOUS
<1> HIDE DEF m, L, s
<1>5. t \in Upto(s, m, m)
  BY <1>1, <1>4, UptoSame
<1>6. \A k \in 1 .. L : str[k] = s[m + k] /\ s[m + k] \in Printable
  BY <1>1, <1>2
<1>7. terminal_writestring(t, str) \in Upto(s, m + L, m + L)
  BY <1>1, <1>3, <1>5, <1>6, WriteText
<1> QED
  BY <1>7 DEF m, L, s

(* Wiping the end of what is shown leaves its beginning.                   *)
LEMMA WipeOff ==
  ASSUME NEW p \in Seq(Printable), NEW str \in Seq(Printable),
         NEW t \in Upto(p \o str, Len(p) + Len(str), Len(p) + Len(str))
  PROVE  terminal_writestring(t, Erasing(Len(str))) \in Upto(p, Len(p), Len(p))
<1> DEFINE s == p \o str
<1>1. /\ Len(p) \in Nat /\ Len(str) \in Nat
      /\ \A k \in 1 .. Len(p) : s[k] = p[k]
  BY Joined
<1>2. terminal_writestring(t, Erasing(Len(str))) \in Upto(s, Len(p), Len(p))
  BY <1>1, WriteErasing
<1> HIDE DEF s
<1> QED
  BY <1>1, <1>2, UptoSame

-----------------------------------------------------------------------------
(***************************************************************************)
(* The inductive invariant of the screen, which with IInv gives TypeOK and *)
(* ShowsTheLine.  Without echo, or once the row is full, what is shown is  *)
(* any Good screen; each new line finds the cursor at the start of a blank *)
(* row again.                                                              *)
(***************************************************************************)
Shown == prompt \o input

ShownOK == screen \in Upto(Shown, Len(Shown), Len(Shown))

ScreenInv ==
  /\ screen \in Good
  /\ prompt \in Prompts
  /\ wrapped \in BOOLEAN /\ echo_enabled \in BOOLEAN
  /\ latest \in Strings
  /\ echo_enabled /\ ~ wrapped => ShownOK

LEMMA PromptText == \A p \in Prompts : p \in Seq(Printable)
BY PromptsAssumption DEF Printable

LEMMA TextIsWritten == \A s \in Seq(Printable) : s \in Seq(Written)
<1>1. Printable \subseteq Written
  BY DEF Written
<1> QED
  BY <1>1, SeqMonotonic

LEMMA ClearScreen == \A s : terminal_initialize \in Upto(s, 0, 0)
<1> SUFFICES ASSUME NEW s PROVE terminal_initialize \in Upto(s, 0, 0)
  OBVIOUS
<1> DEFINE t == terminal_initialize
<1>1. /\ t.cells = [y \in Rows |-> BlankRow] /\ t.cursor_x = 0 /\ t.cursor_y = 0
      /\ t = [cells |-> t.cells, cursor_x |-> t.cursor_x, cursor_y |-> t.cursor_y]
  BY DEF terminal_initialize
<1>2. 0 \in Columns /\ 0 \in Rows
  BY ScreenSize DEF Columns, Rows
<1>3. t.cells \in Cells
  BY <1>1, ScreenSize DEF Cells
<1> HIDE DEF t
<1>4. t \in Good
  <2>1. t \in [cells : Cells, cursor_x : Columns, cursor_y : Rows]
    BY <1>1, <1>2, <1>3
  <2>2. BlankBelow(t)
    BY <1>1 DEF BlankBelow
  <2> QED
    BY <2>1, <2>2, IsGood
<1>5. CursorRow(t) = [c \in Columns |-> IF c < 0 THEN s[c + 1] ELSE Space]
  <2>1. \A c \in Columns : ~ (c < 0)
    BY ScreenSize DEF Columns
  <2>2. CursorRow(t) = BlankRow
    BY <1>1, <1>2 DEF CursorRow
  <2> QED
    BY <2>1, <2>2 DEF BlankRow
<1> QED
  BY <1>1, <1>4, <1>5 DEF Upto, t

(* A prompt on a blank row.                                                *)
LEMMA PromptShown ==
  ASSUME NEW t \in Upto(<<>>, 0, 0), NEW p \in Prompts
  PROVE  /\ terminal_writestring(t, p) \in Good
         /\ ~ Fills(Len(p)) => LET s == p \o <<>>
                               IN  terminal_writestring(t, p) \in Upto(s, Len(s), Len(s))
<1>1. p \in Seq(Printable) /\ p \in Seq(Written) /\ t \in Good
  BY PromptText, TextIsWritten DEF Upto
<1>2. terminal_writestring(t, p) \in Good
  BY <1>1, WriteGood
<1>3. ASSUME ~ Fills(Len(p)) PROVE terminal_writestring(t, p) \in Upto(p, Len(p), Len(p))
  <2>1. <<>> \in Seq(Printable) /\ Len(<<>>) = 0 /\ <<>> \o p = p
    BY <1>1, ConcatEmptySeq
  <2>2. Len(p) \in Nat
    BY <1>1, LenProperties
  <2>3. 0 + Len(p) = Len(p) /\ Len(p) < COLS
    BY <1>3, <2>2, ScreenSize DEF Fills
  <2>4. terminal_writestring(t, p)
           \in Upto(<<>> \o p, Len(<<>>) + Len(p), Len(<<>>) + Len(p))
    BY <1>1, <2>1, <2>3, WriteOn
  <2> QED
    BY <2>1, <2>3, <2>4
<1>4. p \o <<>> = p
  BY <1>1, ConcatEmptySeq
<1> QED
  BY <1>2, <1>3, <1>4

LEMMA InitScreen == Init => ScreenInv
<1> SUFFICES ASSUME Init PROVE ScreenInv
  OBVIOUS
<1>1. terminal_initialize \in Upto(<<>>, 0, 0) /\ prompt \in Prompts
  BY ClearScreen DEF Init
<1>2. /\ screen \in Good /\ (~ wrapped => ShownOK)
  BY <1>1, PromptShown DEF Init, ShownOK, Shown
<1>3. <<>> \in Strings
  BY SizesAssumption DEF Strings, Full
<1> QED
  BY <1>2, <1>3 DEF Init, ScreenInv, Fills

(* A command ends its last row, or there is none.                          *)
LEMMA LeftBlank ==
  ASSUME screen \in Good, NEW cmd, NEW t \in Left(cmd)
  PROVE  t \in Upto(<<>>, 0, 0)
<1>1. putchar(screen, NL) \in Upto(<<>>, 0, 0)
  <2>1. putchar(screen, NL) \in Good
    BY PutcharGood DEF Written
  <2>2. putchar(screen, NL).cursor_x = 0 /\ CursorRow(putchar(screen, NL)) = BlankRow
    BY PutcharNewLine
  <2>3. \A c \in Columns : ~ (c < 0)
    BY ScreenSize DEF Columns
  <2>4. BlankRow = [c \in Columns |-> IF c < 0 THEN <<>>[c + 1] ELSE Space]
    BY <2>3 DEF BlankRow
  <2> QED
    BY <2>1, <2>2, <2>4 DEF Upto
<1>2. CASE t = putchar(screen, NL)
  BY <1>1, <1>2
<1>3. CASE \E u \in {putchar(screen, NL), terminal_initialize} :
             \E output \in Outputs : t = terminal_writestring(u, output)
  <2>1. PICK u \in {putchar(screen, NL), terminal_initialize}, output \in Outputs :
               t = terminal_writestring(u, output)
    BY <1>3
  <2>2. u \in Upto(<<>>, 0, 0)
    BY <1>1, <2>1, ClearScreen
  <2>3. output \in Seq(Written) /\ (output # <<>> => output[Len(output)] = NL)
    BY OutputsAssumption DEF Written, Printable
  <2> QED
    BY <2>1, <2>2, <2>3, WriteRows
<1> QED
  BY <1>2, <1>3 DEF Left

LEMMA EnterKeepsScreen ==
  ASSUME IInv, ScreenInv, NEW c, Enter(c) PROVE ScreenInv'
<1>1. Terminated(position) = input /\ input \in Strings
  BY LineFacts DEF IInv, LineOK
<1>2. latest' \in Strings /\ echo_enabled' \in BOOLEAN
  <2>1. Execute(input)
    BY <1>1 DEF Enter
  <2> QED
    BY <1>1, <2>1 DEF Execute, ScreenInv, past
<1>3. /\ input' = <<>> /\ prompt' \in Prompts /\ wrapped' = Fills(Len(prompt'))
      /\ \E t \in Left(input) : screen' = terminal_writestring(t, prompt')
  BY <1>1 DEF Enter, NewLine
<1>4. PICK t \in Left(input) : screen' = terminal_writestring(t, prompt')
  BY <1>3
<1>5. t \in Upto(<<>>, 0, 0)
  BY LeftBlank DEF ScreenInv
<1>6. screen' \in Good /\ (~ wrapped' => ShownOK')
  BY <1>3, <1>4, <1>5, PromptShown DEF ShownOK, Shown
<1>7. wrapped' \in BOOLEAN
  BY <1>3 DEF Fills
<1> QED
  BY <1>2, <1>3, <1>6, <1>7 DEF ScreenInv

LEMMA BecomesKeepsScreen ==
  ASSUME IInv, ScreenInv, NEW str \in Strings, Becomes(str) PROVE ScreenInv'
<1>1. /\ input \in Seq(Printable) /\ prompt \in Seq(Printable) /\ str \in Seq(Printable)
      /\ position = Len(input) /\ Len(input) \in Nat /\ str \in Seq(Written)
  BY LineFacts, PromptText, TextIsWritten DEF IInv, ScreenInv, Strings
<1>2. /\ input' = str /\ screen' = terminal_writestring(Wiped, str)
      /\ wrapped' = (wrapped \/ Fills(Len(prompt) + Len(str)))
      /\ UNCHANGED <<latest, echo_enabled, prompt>>
  BY DEF Becomes, past
<1>3. Wiped = terminal_writestring(screen, Erasing(Len(input)))
  BY <1>1 DEF Wiped, Erasing
<1>4. screen' \in Good
  <2>1. Erasing(Len(input)) \in Seq(Written)
    BY <1>1, ErasingIsWritten
  <2>2. Wiped \in Good
    BY <1>3, <2>1, WriteGood DEF ScreenInv
  <2> QED
    BY <1>1, <1>2, <2>2, WriteGood
<1>5. ASSUME echo_enabled', ~ wrapped' PROVE ShownOK'
  <2>1. screen \in Upto(prompt \o input, Len(prompt) + Len(input), Len(prompt) + Len(input))
    BY <1>1, <1>2, <1>5, Joined DEF ScreenInv, ShownOK, Shown
  <2>2. Wiped \in Upto(prompt, Len(prompt), Len(prompt))
    BY <1>1, <1>3, <2>1, WipeOff
  <2>3. Len(prompt) + Len(str) < COLS
    <3>1. Len(prompt) \in Nat /\ Len(str) \in Nat
      BY <1>1, Joined
    <3>2. ~ Fills(Len(prompt) + Len(str))
      BY <1>2, <1>5, Zenon
    <3> QED
      BY <3>1, <3>2, ScreenSize DEF Fills
  <2>4. screen' \in Upto(prompt \o str, Len(prompt) + Len(str), Len(prompt) + Len(str))
    BY <1>1, <1>2, <2>2, <2>3, WriteOn
  <2>5. Shown' = prompt \o str
    BY <1>2 DEF Shown
  <2> QED
    BY <1>1, <2>4, <2>5, Joined DEF ShownOK
<1>6. wrapped' \in BOOLEAN
  BY <1>2 DEF Fills, ScreenInv
<1> QED
  BY <1>2, <1>4, <1>5, <1>6 DEF ScreenInv

LEMMA WalkingKeepsScreen ==
  ASSUME IInv, IInv', ScreenInv, NEW c, Up(c) \/ Down(c) PROVE ScreenInv'
<1>1. history \in [0 .. HISTORY_SIZE - 1 -> Strings] /\ history_pos \in 0 .. HISTORY_SIZE - 1
  BY DEF IInv, HistoryOK
<1>2. CASE \E str \in Strings : Becomes(str)
  BY <1>2, BecomesKeepsScreen
<1>3. CASE current_history' # -1 /\ Becomes(history[current_history'])
  <2>1. UNCHANGED history_pos
    BY <1>3 DEF Becomes, past
  <2>2. current_history' \in 0 .. history_pos - 1
    BY <1>3, <2>1 DEF IInv, WalkOK
  <2>3. history[current_history'] \in Strings
    <3>1. 0 .. history_pos - 1 \subseteq 0 .. HISTORY_SIZE - 1
      BY <1>1, SizesAssumption
    <3> QED
      BY <1>1, <2>2, <3>1
  <2> QED
    BY <1>2, <1>3, <2>3
<1>4. CASE Becomes(<<>>)
  <2>1. <<>> \in Strings
    BY SizesAssumption DEF Strings, Full
  <2> QED
    BY <1>2, <1>4, <2>1
<1>5. current_history # -1 => current_history \in 0 .. history_pos - 1
  BY DEF IInv, WalkOK
<1>6. CASE Up(c)
  <2>1. current_history' # -1
    BY <1>1, <1>5, <1>6, SizesAssumption DEF Up, IsUp
  <2> QED
    BY <1>3, <1>6, <2>1 DEF Up
<1>7. CASE Down(c)
  <2>1. current_history' = current_history + 1 => current_history' # -1
    BY <1>1, <1>5, <1>7, SizesAssumption DEF Down, IsDown
  <2> QED
    BY <1>3, <1>4, <1>7, <2>1 DEF Down
<1> QED
  BY <1>6, <1>7

-----------------------------------------------------------------------------
(* The keys that edit the line.                                            *)
LEMMA BackspaceKeepsScreen ==
  ASSUME IInv, ScreenInv, NEW c, Backspace(c) PROVE ScreenInv'
<1> DEFINE kept == SubSeq(input, 1, position - 1)
           tail == SubSeq(input, position, position)
<1>1. /\ input \in Seq(Printable) /\ prompt \in Seq(Printable)
      /\ position = Len(input) /\ Len(input) \in Nat /\ position > 0
  BY LineFacts, PromptText DEF IInv, ScreenInv, Backspace
<1>2. /\ input' = kept /\ screen' = terminal_writestring(screen, <<BS, Space, BS>>)
      /\ UNCHANGED <<latest, echo_enabled, prompt, wrapped>>
  BY DEF Backspace, past, Terminated
<1>3. <<BS, Space, BS>> = Erasing(1)
  <2>1. 3 * 1 = 3 /\ 1 % 3 = 1 /\ 2 % 3 = 2 /\ 3 % 3 = 0
    OBVIOUS
  <2>2. Erasing(1) \in Seq(Written) /\ Len(Erasing(1)) = 3
        /\ Erasing(1)[1] = BS /\ Erasing(1)[2] = Space /\ Erasing(1)[3] = BS
    <3>1. /\ Erasing(1) \in Seq(Written) /\ Len(Erasing(1)) = 3 * 1
          /\ \A n \in 1 .. 3 * 1 : Erasing(1)[n] = IF n % 3 = 2 THEN Space ELSE BS
      BY ErasingIsWritten
    <3> QED
      BY <2>1, <3>1
  <2>3. <<BS, Space, BS>> \in Seq(Written)
    BY ScreenSize DEF Written
  <2> QED
    BY <2>2, <2>3, SeqEqual
<1>4. screen' \in Good
  <2>1. Erasing(1) \in Seq(Written)
    BY ErasingIsWritten
  <2> QED
    BY <1>2, <1>3, <2>1, WriteGood DEF ScreenInv
<1>5. ASSUME echo_enabled', ~ wrapped' PROVE ShownOK'
  <2> DEFINE m == Len(prompt) + Len(kept)
             s == prompt \o input
             r == prompt \o kept
  <2>1. /\ kept \in Seq(Printable) /\ Len(kept) = position - 1
        /\ \A k \in 1 .. Len(kept) : kept[k] = input[k]
    BY <1>1
  <2>2. Len(prompt) \in Nat /\ m \in Nat /\ m + 1 = Len(prompt) + Len(input)
    BY <1>1, <2>1, Joined
  <2>3. screen \in Upto(s, m + 1, m + 1)
    BY <1>1, <1>2, <1>5, <2>2, Joined DEF ScreenInv, ShownOK, Shown
  <2>4. \A k \in 1 .. m : s[k] = r[k]
    <3> HIDE DEF kept
    <3> SUFFICES ASSUME NEW k \in 1 .. m PROVE s[k] = r[k]
      OBVIOUS
    <3>1. CASE k \in 1 .. Len(prompt)
      BY <1>1, <2>1, <3>1, Joined
    <3>2. CASE k \notin 1 .. Len(prompt)
      <4> DEFINE j == k - Len(prompt)
      <4>1. /\ j \in 1 .. Len(kept) /\ j \in 1 .. Len(input) /\ Len(prompt) + j = k
        BY <1>1, <2>1, <2>2, <3>2
      <4> HIDE DEF j
      <4> QED
        BY <1>1, <2>1, <4>1, Joined
    <3> QED
      BY <3>1, <3>2
  <2>5. screen' \in Upto(s, m, m)
    BY <1>2, <1>3, <2>2, <2>3, WriteErasing
  <2>6. Shown' = r /\ Len(r) = m
    BY <1>1, <1>2, <2>1, Joined DEF Shown
  <2> HIDE DEF m, s, r
  <2>7. screen' \in Upto(r, m, m)
    BY <2>2, <2>4, <2>5, UptoSame
  <2> QED
    BY <2>6, <2>7 DEF ShownOK
<1> QED
  BY <1>2, <1>4, <1>5 DEF ScreenInv

(* What is appended to the line is written after what is shown.            *)
LEMMA AppendedIsShown ==
  ASSUME NEW p \in Seq(Printable), NEW s \in Seq(Printable), NEW str \in Seq(Printable),
         Len(p) + (Len(s) + Len(str)) < COLS,
         NEW t \in Upto(p \o s, Len(p \o s), Len(p \o s))
  PROVE  LET r == p \o (s \o str)
         IN  terminal_writestring(t, str) \in Upto(r, Len(r), Len(r))
<1>1. /\ p \o s \in Seq(Printable) /\ s \o str \in Seq(Printable)
      /\ Len(p \o s) = Len(p) + Len(s)
      /\ Len(p) \in Nat /\ Len(s) \in Nat /\ Len(str) \in Nat
  BY Joined
<1>2. p \o (s \o str) = (p \o s) \o str
  BY ConcatAssociative
<1>3. Len((p \o s) \o str) = Len(p \o s) + Len(str)
  BY <1>1, Joined
<1>4. Len(p \o s) + Len(str) < COLS
  BY <1>1
<1> QED
  BY <1>1, <1>2, <1>3, <1>4, WriteOn

LEMMA TabKeepsScreen ==
  ASSUME IInv, ScreenInv, NEW c, Tab(c) PROVE ScreenInv'
<1> DEFINE cmd  == commands[Min(Completions)]
           rest == SubSeq(cmd, position + 1, Len(cmd))
<1>1. Min(Completions) \in Completions
  <2>1. Completions # {}
    BY DEF Tab
  <2>2. Completions \subseteq Nat
    <3>1. DOMAIN commands \subseteq Nat
      BY CommandsAssumption, LenProperties
    <3> QED
      BY <3>1 DEF Completions
  <2> QED
    BY <2>1, <2>2, LeastIndex
<1>2. cmd \in Seq(Printable) /\ Len(cmd) \in Nat /\ position <= Len(cmd)
  BY <1>1, CompletionIsLonger DEF IInv
<1>3. /\ input \in Seq(Printable) /\ position \in Nat /\ position = Len(input)
      /\ Terminated(position) = input /\ prompt \in Seq(Printable)
  BY LineFacts, PromptText DEF IInv, ScreenInv
<1>4. /\ input' = input \o rest /\ position' = position + Len(rest)
      /\ screen' = terminal_writestring(screen, rest)
      /\ wrapped' = (wrapped \/ Fills(Len(prompt) + position'))
      /\ UNCHANGED <<latest, echo_enabled, prompt>>
  BY <1>3 DEF Tab, past
<1> HIDE DEF cmd
<1>5. rest \in Seq(Printable)
  BY <1>2, <1>3
<1> HIDE DEF rest
<1>6. screen' \in Good
  BY <1>4, <1>5, TextIsWritten, WriteGood DEF ScreenInv
<1>7. ASSUME echo_enabled', ~ wrapped' PROVE ShownOK'
  <2>1. screen \in Upto(prompt \o input, Len(prompt \o input), Len(prompt \o input))
    BY <1>4, <1>7 DEF ScreenInv, ShownOK, Shown
  <2>2. Len(prompt) + (Len(input) + Len(rest)) < COLS
    <3>1. Len(prompt) \in Nat /\ Len(input) \in Nat /\ Len(rest) \in Nat
      BY <1>3, <1>5, Joined
    <3>2. ~ Fills(Len(prompt) + position')
      BY <1>4, <1>7, Zenon
    <3> QED
      BY <1>3, <1>4, <3>1, <3>2, ScreenSize DEF Fills
  <2> QED
    BY <1>3, <1>4, <1>5, <2>1, <2>2, AppendedIsShown DEF ShownOK, Shown
<1>8. wrapped' \in BOOLEAN
  BY <1>4 DEF Fills, ScreenInv
<1> QED
  BY <1>4, <1>6, <1>7, <1>8 DEF ScreenInv

LEMMA InsertKeepsScreen ==
  ASSUME IInv, ScreenInv, NEW c, Insert(c) PROVE ScreenInv'
<1>1. /\ input \in Seq(Printable) /\ prompt \in Seq(Printable) /\ c \in Printable
      /\ position = Len(input) /\ Len(input) \in Nat /\ Len(prompt) \in Nat
      /\ Terminated(position) = input
  BY LineFacts, PromptText, LenProperties DEF IInv, ScreenInv, Insert
<1>2. /\ input' = Append(input, c) /\ position' = position + 1
      /\ screen' = IF echo_enabled THEN putchar(screen, c) ELSE screen
      /\ wrapped' = (wrapped \/ Fills(Len(prompt) + position'))
      /\ UNCHANGED <<latest, echo_enabled, prompt>>
  BY <1>1 DEF Insert, past
<1>3. screen' \in Good
  BY <1>1, <1>2, PutcharGood DEF ScreenInv, Written
<1>4. ASSUME echo_enabled', ~ wrapped' PROVE ShownOK'
  <2> DEFINE m == Len(prompt) + Len(input)
             s == prompt \o input
             r == prompt \o Append(input, c)
  <2>1. /\ Append(input, c) \in Seq(Printable) /\ Len(Append(input, c)) = Len(input) + 1
        /\ Append(input, c)[Len(input) + 1] = c
        /\ \A k \in 1 .. Len(input) : Append(input, c)[k] = input[k]
    BY <1>1, AppendProperties
  <2>2. m \in Nat /\ Len(s) = m /\ Len(r) = m + 1
    BY <1>1, <2>1, Joined
  <2>3. screen \in Upto(s, m, m) /\ screen' = putchar(screen, c)
    BY <1>2, <1>4, <2>2 DEF ScreenInv, ShownOK, Shown
  <2>4. \A k \in 1 .. m : s[k] = r[k]
    <3> SUFFICES ASSUME NEW k \in 1 .. m PROVE s[k] = r[k]
      OBVIOUS
    <3>1. CASE k \in 1 .. Len(prompt)
      BY <1>1, <2>1, <3>1, Joined
    <3>2. CASE k \notin 1 .. Len(prompt)
      <4> DEFINE j == k - Len(prompt)
      <4>1. /\ j \in 1 .. Len(Append(input, c)) /\ j \in 1 .. Len(input)
            /\ Len(prompt) + j = k
        BY <1>1, <2>1, <3>2
      <4> HIDE DEF j
      <4> QED
        BY <1>1, <2>1, <4>1, Joined
    <3> QED
      BY <3>1, <3>2
  <2>5. r[m + 1] = c
    <3>1. Len(input) + 1 \in 1 .. Len(Append(input, c))
          /\ Len(prompt) + (Len(input) + 1) = m + 1
      BY <1>1, <2>1
    <3> QED
      BY <1>1, <2>1, <3>1, Joined
  <2>6. m + 1 < COLS
    <3>1. ~ Fills(Len(prompt) + position')
      BY <1>2, <1>4, Zenon
    <3> QED
      BY <1>1, <1>2, <2>2, <3>1, ScreenSize DEF Fills
  <2>7. Shown' = r
    BY <1>2 DEF Shown
  <2> HIDE DEF m, s, r
  <2>8. screen \in Upto(r, m, m)
    BY <2>2, <2>3, <2>4, UptoSame
  <2>9. putchar(screen, r[m + 1]) \in Upto(r, m + 1, m + 1)
    BY <1>1, <2>2, <2>5, <2>6, <2>8, PutcharNext
  <2> QED
    BY <2>2, <2>3, <2>5, <2>7, <2>9 DEF ShownOK
<1>5. wrapped' \in BOOLEAN
  BY <1>2 DEF Fills, ScreenInv
<1> QED
  BY <1>2, <1>3, <1>4, <1>5 DEF ScreenInv

LEMMA NextScreen == ASSUME IInv, IInv', ScreenInv, [Next]_vars PROVE ScreenInv'
<1>1. CASE UNCHANGED vars
  BY <1>1 DEF vars, line, past, ScreenInv, ShownOK, Shown
<1>2. ASSUME NEW c \in Chars,
             Enter(c) \/ Up(c) \/ Down(c) \/ Backspace(c) \/ Tab(c) \/ Insert(c)
               \/ Ignore(c)
      PROVE  ScreenInv'
  BY <1>1, <1>2, EnterKeepsScreen, WalkingKeepsScreen, BackspaceKeepsScreen,
     TabKeepsScreen, InsertKeepsScreen DEF Ignore
<1> QED
  BY <1>1, <1>2 DEF Next

(***************************************************************************)
(* The cursor's row shows the prompt and the line that Return will         *)
(* execute, as long as echo is on and they fit a row (shell.c:592-683,     *)
(* terminal.c:41-98): for every size of screen, every prompt, every output *)
(* that ends its last row, and whatever was typed, wiped, recalled or      *)
(* completed.                                                              *)
(***************************************************************************)
THEOREM RowShowsTheLine == Spec => []ShowsTheLine
<1>1. IInv /\ ScreenInv => ShowsTheLine
  <2> SUFFICES ASSUME IInv, ScreenInv, echo_enabled, ~ wrapped
               PROVE  /\ CursorRow(screen) = Shows(prompt \o Terminated(position))
                      /\ screen.cursor_x = Len(prompt \o Terminated(position))
    BY DEF ShowsTheLine
  <2>1. Terminated(position) = input
    BY LineFacts DEF IInv
  <2>2. screen \in Upto(Shown, Len(Shown), Len(Shown))
    BY DEF ScreenInv, ShownOK
  <2> QED
    BY <2>1, <2>2 DEF Upto, Shows, Shown
<1> QED
  BY <1>1, InitIInv, NextIInv, InitScreen, NextScreen, PTL DEF Spec

(***************************************************************************)
(* The line, the history and the screen keep their ranges: putchar never   *)
(* writes outside video_memory (terminal.c:41-98), and no line or entry of *)
(* the history outgrows its buffer (shell.c:140-147, 556).                 *)
(***************************************************************************)
THEOREM TypeCorrect == Spec => []TypeOK
<1>1. IInv /\ ScreenInv => TypeOK
  <2> SUFFICES ASSUME IInv, ScreenInv PROVE TypeOK
    OBVIOUS
  <2>1. \A s \in Strings : /\ Len(s) < MAX_INPUT /\ Len(s) \in 0 .. MAX_INPUT - 1
                           /\ \A k \in DOMAIN s : s[k] \in Printable
    <3>1. \A s \in Seq(Printable) : /\ Len(s) \in Nat
                                    /\ \A k \in DOMAIN s : s[k] \in Printable
      BY LenProperties, ElementOfSeq
    <3> QED
      BY <3>1, SizesAssumption DEF Strings, Full
  <2>2. /\ Len(input) < MAX_INPUT /\ \A k \in DOMAIN input : input[k] \in Printable
        /\ position \in 0 .. MAX_INPUT - 1 /\ Len(latest) < MAX_INPUT
    BY <2>1 DEF IInv, LineOK, ScreenInv
  <2>3. /\ DOMAIN history = 0 .. HISTORY_SIZE - 1
        /\ \A k \in DOMAIN history : Len(history[k]) < MAX_INPUT
        /\ history_pos \in 0 .. HISTORY_SIZE - 1
    BY <2>1 DEF IInv, HistoryOK
  <2>4. current_history \in -1 .. HISTORY_SIZE - 1
    BY <2>3, SizesAssumption DEF IInv, WalkOK
  <2>5. screen \in Screen(Printable)
    BY DEF ScreenInv, Good
  <2> QED
    BY <2>2, <2>3, <2>4, <2>5 DEF TypeOK, ScreenInv
<1> QED
  BY <1>1, InitIInv, NextIInv, InitScreen, NextScreen, PTL DEF Spec
=============================================================================
