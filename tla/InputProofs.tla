----------------------------- MODULE InputProofs -----------------------------
(***************************************************************************)
(* Proofs about the way of a line from the keys to the shell's arguments:  *)
(* of Keyboard, for every buffer size, every translation table and any     *)
(* number of keystrokes; and of Strings, for every size of the buffer and  *)
(* width of int.  Neither part uses the other.                             *)
(***************************************************************************)
EXTENDS Keyboard, Strings, SequenceTheorems, WellFoundedInduction, TLAPS

-----------------------------------------------------------------------------
(***************************************************************************)
(* KEYBOARD.  FifoUnlessRaced speaks of the moments when nobody holds a    *)
(* character halfway.  InFlight says where they are at every other one:    *)
(* slot k of the buffer holds the k-th waiting character, or the one after *)
(* it if the shift loop has already moved slot k.                          *)
(***************************************************************************)
Moved(k) == IF pc \in Window \/ (pc = "shift" /\ k < i) THEN 1 ELSE 0

InFlight ==
  races = 0 =>
    /\ Len(accepted) = Len(returned) + key_buffer_pos
    /\ \A k \in 1 .. Len(returned) : returned[k] = accepted[k]
    /\ \A k \in 0 .. key_buffer_pos - 1 :
         k + Moved(k) < key_buffer_pos =>
           key_buffer[k] = accepted[Len(returned) + k + 1 + Moved(k)]
    /\ pc \in {"shift"} \cup Window => c = accepted[Len(returned) + 1]
    /\ pc = "store" => eax = key_buffer_pos

(* At the store, what counts is the position the store will write.         *)
LossAtStore ==
  pc = "store" => Len(accepted) <= Len(returned) + eax + races

OnlyTyped ==
  /\ \A k \in DOMAIN returned : returned[k] \in Typed
  /\ \A k \in 0 .. key_buffer_pos - 1 : key_buffer[k] \in Typed
  /\ pc \in {"shift"} \cup Window => c \in Typed

-----------------------------------------------------------------------------
(* The table gives a natural number for every scancode (lines 98-100).     *)
LEMMA AsciiType == ASSUME NEW s \in Scancodes PROVE Ascii(s) \in Nat
  BY TableAssumption, ScancodesAssumption DEF Ascii

(* The initial state has the types that TypeOK lists.                      *)
LEMMA InitTypeOK == Init => TypeOK
<1> SUFFICES ASSUME Init PROVE TypeOK
  OBVIOUS
<1>1. key_buffer \in [0 .. BufSize - 1 -> Nat] /\ key_buffer_pos \in 0 .. BufSize - 1
  BY BufSizeAssumption DEF Init
<1>2. port \in Seq(Scancodes) /\ accepted \in Seq(Nat) /\ returned \in Seq(Nat)
  BY DEF Init
<1> QED
  BY <1>1, <1>2 DEF Init, TypeOK, Labels, Waiting, Window

(* No step of the handler or of keyboard_getchar leaves them: the buffer   *)
(* index stays inside key_buffer whatever the interleaving.                *)
LEMMA NextTypeOK == TypeOK /\ [Next]_vars => TypeOK'
<1> USE BufSizeAssumption DEF TypeOK, Labels, Waiting, Window
<1> SUFFICES ASSUME TypeOK, [Next]_vars PROVE TypeOK'
  OBVIOUS
<1>1. ASSUME NEW s \in Scancodes, KeyEvent(s) PROVE TypeOK'
  BY <1>1 DEF KeyEvent, buffer, frame, history
<1>2. CASE enable_interrupts \/ disable_interrupts
  <2>1. /\ IF_flag' \in BOOLEAN
        /\ UNCHANGED <<buffer, port, sent, pc, frame, history>>
    BY <1>2 DEF enable_interrupts, disable_interrupts
  <2> QED
    BY <2>1 DEF buffer, frame, history
<1>3. CASE keyboard_handler
  <2>1. port # <<>> /\ Head(port) \in Scancodes /\ port' \in Seq(Scancodes)
    BY <1>3 DEF keyboard_handler
  <2>2. CASE Store(Head(port))
    <3> DEFINE x == Ascii(Head(port))
    <3>1. x \in Nat
      BY <2>1, AsciiType
    <3>2. key_buffer_pos < BufSize - 1 /\ key_buffer_pos' = key_buffer_pos + 1
      BY <2>2 DEF Store, HasRoom
    <3>3. /\ key_buffer' \in [0 .. BufSize - 1 -> Nat]
          /\ accepted' \in Seq(Nat) /\ races' \in Nat
      BY <2>2, <3>1 DEF Store
    <3>4. /\ pc' \in {pc, "test"} /\ (pc' # pc => pc = "sleep")
          /\ UNCHANGED <<IF_flag, sent, c, i, eax, returned>>
      BY <1>3 DEF keyboard_handler, frame
    <3>5. key_buffer_pos' \in 0 .. BufSize - 1 /\ key_buffer_pos < key_buffer_pos'
      BY <3>2
    <3>6. /\ pc' \in {"take", "shift", "load"} => key_buffer_pos' > 0
          /\ pc' = "shift" => i' < key_buffer_pos'
          /\ pc' = "store" => eax' \in 1 .. key_buffer_pos'
      BY <3>2, <3>4
    <3>7. pc' \in Labels
      BY <3>4
    <3> HIDE DEF x
    <3> QED
      BY <2>1, <3>3, <3>4, <3>5, <3>6, <3>7
  <2>3. CASE Ignore(Head(port))
    BY <1>3, <2>1, <2>3 DEF keyboard_handler, Ignore, buffer, frame
  <2> QED
    BY <1>3, <2>2, <2>3 DEF keyboard_handler
<1>4. CASE Call
  BY <1>4 DEF Call, Goto, buffer, frame, history
<1>11. CASE Test
  BY <1>11 DEF Test, Goto, buffer, frame, history
<1>12. CASE Halt
  BY <1>12 DEF Halt, Goto, buffer, frame, history
<1>5. CASE Take
  BY <1>5 DEF Take, Goto, buffer, history
<1>6. CASE Shift
  BY <1>6 DEF Shift, MoreToShift, history
<1>7. CASE ShiftDone
  BY <1>7 DEF ShiftDone, Goto, buffer, frame, history
<1>8. CASE LoadPos
  BY <1>8 DEF LoadPos, Goto, buffer, history
<1>9. CASE StorePos
  BY <1>9 DEF StorePos, Goto, frame
<1>10. CASE UNCHANGED vars
  BY <1>10 DEF vars, buffer, frame, history
<1> QED
  BY <1>1, <1>2, <1>3, <1>4, <1>5, <1>6, <1>7, <1>8, <1>9, <1>10, <1>11, <1>12
     DEF Next, Getchar

(***************************************************************************)
(* Type correctness of the keyboard path; with it, that no write to        *)
(* key_buffer (lines 80 and 103) is ever out of bounds.                    *)
(***************************************************************************)
THEOREM TypeCorrect == Spec => []TypeOK
  BY InitTypeOK, NextTypeOK, PTL DEF Spec

(***************************************************************************)
(* The variant behind GetcharCompletes: that key_buffer has an end bounds  *)
(* the loop of line 79, which line 103 lengthens while it runs.            *)
(***************************************************************************)
THEOREM CallsAdvance == Spec => GetcharAdvances
<1> DEFINE Advances ==
      pc \notin Waiting =>
        /\ StepsLeft > 0
        /\ IF Getchar THEN StepsLeft' < StepsLeft ELSE StepsLeft' = StepsLeft
<1>1. ASSUME TypeOK, TypeOK', [Next]_vars PROVE [Advances]_vars
  <2> SUFFICES ASSUME Next, pc \notin Waiting
               PROVE  /\ StepsLeft > 0
                      /\ IF Getchar THEN StepsLeft' < StepsLeft ELSE StepsLeft' = StepsLeft
    BY <1>1
  <2>1. /\ BufSize \in Nat \ {0} /\ i \in Nat /\ i' \in Nat
        /\ pc = "shift" => i < BufSize
    BY <1>1, BufSizeAssumption DEF TypeOK
  <2>2. pc \in {"take", "shift", "load", "store"}
    BY <1>1 DEF TypeOK, Labels, Waiting, Window
  <2>3. StepsLeft > 0
    BY <2>1, <2>2 DEF StepsLeft
  <2>4. CASE Getchar
    <3>1. CASE Take
      <4>1. pc = "take" /\ pc' = "shift" /\ i' = 0
        BY <3>1 DEF Take, Goto
      <4> QED
        BY <2>1, <2>3, <2>4, <4>1 DEF StepsLeft
    <3>2. CASE Shift
      <4>1. pc = "shift" /\ pc' = "shift" /\ i' = i + 1
        BY <3>2 DEF Shift
      <4> QED
        BY <2>1, <2>3, <2>4, <4>1 DEF StepsLeft
    <3>3. CASE ShiftDone
      <4>1. pc = "shift" /\ pc' = "load"
        BY <3>3 DEF ShiftDone, Goto
      <4> QED
        BY <2>1, <2>3, <2>4, <4>1 DEF StepsLeft
    <3>4. CASE LoadPos
      <4>1. pc = "load" /\ pc' = "store"
        BY <3>4 DEF LoadPos, Goto
      <4> QED
        BY <2>3, <2>4, <4>1 DEF StepsLeft
    <3>5. CASE StorePos
      <4>1. pc = "store" /\ pc' = "caller"
        BY <3>5 DEF StorePos, Goto
      <4> QED
        BY <2>3, <2>4, <4>1 DEF StepsLeft
    <3>6. CASE Test \/ Halt
      BY <2>2, <3>6 DEF Test, Halt, Goto
    <3> QED
      BY <2>4, <3>1, <3>2, <3>3, <3>4, <3>5, <3>6 DEF Getchar
  <2>5. CASE ~ Getchar
    <3>1. UNCHANGED <<pc, i>>
      BY <2>2, <2>5 DEF Next, KeyEvent, enable_interrupts, disable_interrupts,
         keyboard_handler, Call, Goto, frame
    <3> QED
      BY <2>3, <2>5, <3>1 DEF StepsLeft
  <2> QED
    BY <2>4, <2>5
<1> QED
  BY <1>1, InitTypeOK, NextTypeOK, PTL DEF Spec, GetcharAdvances

-----------------------------------------------------------------------------
(***************************************************************************)
(* The loss bound (lines 79-82 against line 103), with no assumption on    *)
(* how often the handler interrupts.                                       *)
(***************************************************************************)
LEMMA NextLoss ==
  TypeOK /\ LossBounded /\ LossAtStore /\ [Next]_vars
    => LossBounded' /\ LossAtStore'
<1> USE DEF TypeOK, LossBounded, LossAtStore
<1> SUFFICES ASSUME TypeOK, LossBounded, LossAtStore, [Next]_vars
             PROVE  LossBounded' /\ LossAtStore'
  OBVIOUS
<1>1. CASE keyboard_handler
  <2>1. port # <<>> /\ Head(port) \in Scancodes
    BY <1>1 DEF keyboard_handler
  <2>2. CASE Store(Head(port))
    <3>1. Ascii(Head(port)) \in Nat
      BY <2>1, AsciiType
    <3>2. Len(accepted') = Len(accepted) + 1
      BY <2>2, <3>1 DEF Store
    <3>3. races' = IF pc = "store" \/ pc = "load" THEN races + 1 ELSE races
      BY <2>2 DEF Store, Window
    <3> QED
      BY <1>1, <2>2, <3>2, <3>3 DEF keyboard_handler, Store, frame
  <2>3. CASE Ignore(Head(port))
    BY <1>1, <2>3 DEF keyboard_handler, Ignore, buffer, frame
  <2> QED
    BY <1>1, <2>2, <2>3 DEF keyboard_handler
<1>2. CASE StorePos
  <2>1. Len(returned') = Len(returned) + 1
    BY <1>2 DEF StorePos
  <2> QED
    BY <1>2, <2>1 DEF StorePos, Goto, frame
<1>3. CASE LoadPos
  BY <1>3 DEF LoadPos, Goto, buffer, history
<1>4. CASE Shift
  BY <1>4 DEF Shift, history
<1>5. CASE Call \/ Test \/ Halt \/ Take \/ ShiftDone
  BY <1>5 DEF Call, Test, Halt, Take, ShiftDone, Goto, buffer, history
<1>6. CASE \/ \E s \in Scancodes : KeyEvent(s)
           \/ enable_interrupts \/ disable_interrupts
           \/ UNCHANGED vars
  BY <1>6 DEF KeyEvent, enable_interrupts, disable_interrupts, vars, buffer,
              frame, history
<1> QED
  BY <1>1, <1>2, <1>3, <1>4, <1>5, <1>6 DEF Next, Getchar

(***************************************************************************)
(* LossBounded is an invariant: whatever the interleaving, at most one     *)
(* character is lost for each that arrives inside the window.              *)
(***************************************************************************)
THEOREM LossIsBounded == Spec => []LossBounded
<1>1. Init => LossBounded /\ LossAtStore
  BY DEF Init, LossBounded, LossAtStore
<1> QED
  BY <1>1, TypeCorrect, NextLoss, PTL DEF Spec

-----------------------------------------------------------------------------
(***************************************************************************)
(* Typed only grows, and grows by what the handler stores.                 *)
(***************************************************************************)
LEMMA TypedGrows ==
  ASSUME TypeOK, NEW x \in Nat, accepted' = Append(accepted, x)
  PROVE  x \in Typed' /\ Typed \subseteq Typed'
<1>1. /\ Len(accepted') = Len(accepted) + 1
      /\ DOMAIN accepted' = 1 .. Len(accepted) + 1
      /\ DOMAIN accepted = 1 .. Len(accepted)
      /\ accepted'[Len(accepted) + 1] = x
      /\ \A k \in 1 .. Len(accepted) : accepted'[k] = accepted[k]
      /\ Len(accepted) \in Nat
  BY DEF TypeOK
<1> QED
  BY <1>1 DEF Typed

LEMMA NextOnlyTyped == TypeOK /\ OnlyTyped /\ [Next]_vars => OnlyTyped'
<1> SUFFICES ASSUME TypeOK, OnlyTyped, [Next]_vars PROVE OnlyTyped'
  OBVIOUS
<1> USE DEF OnlyTyped
<1>1. CASE keyboard_handler
  <2>1. port # <<>> /\ Head(port) \in Scancodes
    BY <1>1 DEF keyboard_handler, TypeOK
  <2>2. CASE Store(Head(port))
    <3>1. Ascii(Head(port)) \in Nat
      BY <2>1, AsciiType
    <3>2. Ascii(Head(port)) \in Typed' /\ Typed \subseteq Typed'
      BY <2>2, <3>1, TypedGrows DEF Store
    <3>3. \A k \in 0 .. key_buffer_pos' - 1 :
            key_buffer'[k] = IF k = key_buffer_pos THEN Ascii(Head(port))
                                                   ELSE key_buffer[k]
      BY <2>2, BufSizeAssumption DEF Store, HasRoom, TypeOK
    <3>4. \A k \in 0 .. key_buffer_pos' - 1 :
            k # key_buffer_pos => k \in 0 .. key_buffer_pos - 1
      BY <2>2 DEF Store, TypeOK
    <3>5. \A k \in 0 .. key_buffer_pos' - 1 : key_buffer'[k] \in Typed'
      BY <3>2, <3>3, <3>4
    <3>6. /\ returned' = returned /\ c' = c
          /\ pc' \in {"shift"} \cup Window => pc \in {"shift"} \cup Window
      BY <1>1 DEF keyboard_handler, frame, Window
    <3> QED
      BY <3>2, <3>5, <3>6
  <2>3. CASE Ignore(Head(port))
    BY <1>1, <2>3 DEF keyboard_handler, Ignore, buffer, frame, Typed, Window
  <2> QED
    BY <1>1, <2>2, <2>3 DEF keyboard_handler
<1>2. CASE StorePos
  <2>1. /\ DOMAIN returned' = 1 .. Len(returned) + 1
        /\ DOMAIN returned = 1 .. Len(returned)
        /\ Len(returned) \in Nat
        /\ returned'[Len(returned) + 1] = c
        /\ \A k \in 1 .. Len(returned) : returned'[k] = returned[k]
    BY <1>2 DEF StorePos, TypeOK
  <2>2. c \in Typed /\ Typed' = Typed /\ key_buffer' = key_buffer
    BY <1>2 DEF StorePos, Goto, Window, Typed
  <2>3. \A k \in 0 .. key_buffer_pos' - 1 : k \in 0 .. key_buffer_pos - 1
    BY <1>2 DEF StorePos, Goto, TypeOK
  <2>4. pc' = "caller"
    BY <1>2 DEF StorePos, Goto
  <2>5. \A k \in DOMAIN returned' : returned'[k] \in Typed
    BY <2>1, <2>2
  <2> QED
    BY <2>2, <2>3, <2>4, <2>5 DEF Window
<1>3. CASE Take
  BY <1>3 DEF Take, Goto, Window, buffer, history, Typed, TypeOK
<1>4. CASE Shift
  <2>1. \A k \in 0 .. key_buffer_pos - 1 :
          key_buffer'[k] = IF k = i THEN key_buffer[i + 1] ELSE key_buffer[k]
    BY <1>4, BufSizeAssumption DEF Shift, MoreToShift, TypeOK
  <2>2. i + 1 \in 0 .. key_buffer_pos - 1
    BY <1>4 DEF Shift, MoreToShift, TypeOK
  <2>3. /\ key_buffer_pos' = key_buffer_pos /\ c' = c /\ pc = "shift"
        /\ returned' = returned /\ Typed' = Typed
    BY <1>4 DEF Shift, history, Typed
  <2> QED
    BY <2>1, <2>2, <2>3
<1>5. CASE Call \/ Test \/ Halt \/ ShiftDone \/ LoadPos
  BY <1>5 DEF Call, Test, Halt, ShiftDone, LoadPos, Goto, Window, buffer,
              frame, history, Typed
<1>6. CASE \/ \E s \in Scancodes : KeyEvent(s)
           \/ enable_interrupts \/ disable_interrupts
           \/ UNCHANGED vars
  BY <1>6 DEF KeyEvent, enable_interrupts, disable_interrupts, vars, buffer,
              frame, history, Typed
<1> QED
  BY <1>1, <1>2, <1>3, <1>4, <1>5, <1>6 DEF Next, Getchar

(***************************************************************************)
(* OnlyTypedCharacters is an invariant: keyboard_getchar makes nothing up, *)
(* even when it loses or repeats characters.                               *)
(***************************************************************************)
THEOREM NothingMadeUp == Spec => []OnlyTypedCharacters
<1>1. Init => OnlyTyped
  BY DEF Init, OnlyTyped, Window
<1>2. TypeOK /\ OnlyTyped => OnlyTypedCharacters
  <2> SUFFICES ASSUME TypeOK, OnlyTyped PROVE OnlyTypedCharacters
    OBVIOUS
  <2>1. \A k \in DOMAIN Queue :
          k - 1 \in 0 .. key_buffer_pos - 1 /\ Queue[k] = key_buffer[k - 1]
    BY DEF TypeOK, Queue
  <2> QED
    BY <2>1 DEF OnlyTyped, OnlyTypedCharacters
<1> QED
  BY <1>1, <1>2, TypeCorrect, NextOnlyTyped, PTL DEF Spec

-----------------------------------------------------------------------------
(***************************************************************************)
(* The first-in first-out order, outside the window.  One lemma per action *)
(* that disturbs InFlight.                                                 *)
(***************************************************************************)
LEMMA StoreKeepsOrder ==
  ASSUME TypeOK, InFlight, keyboard_handler, Store(Head(port))
  PROVE  InFlight'
<1> SUFFICES ASSUME races' = 0 PROVE InFlight'
  BY DEF InFlight
<1>1. races = 0 /\ pc \notin Window
  BY DEF Store, TypeOK
<1> DEFINE x == Ascii(Head(port))
<1>2. x \in Nat
  <2>1. port # <<>> /\ Head(port) \in Scancodes
    BY DEF keyboard_handler, TypeOK
  <2> QED
    BY <2>1, AsciiType
<1>3. /\ Len(accepted) \in Nat /\ Len(returned) \in Nat
      /\ Len(accepted') = Len(accepted) + 1
      /\ accepted'[Len(accepted) + 1] = x
      /\ \A k \in 1 .. Len(accepted) : accepted'[k] = accepted[k]
  BY <1>2 DEF Store, TypeOK
<1>4. /\ returned' = returned /\ c' = c /\ i' = i /\ eax' = eax
      /\ key_buffer_pos' = key_buffer_pos + 1
      /\ pc' \notin Window
      /\ pc' = "shift" <=> pc = "shift"
  BY <1>1 DEF keyboard_handler, Store, frame, Window
<1>5. \A k \in 0 .. key_buffer_pos' - 1 :
        key_buffer'[k] = IF k = key_buffer_pos THEN x ELSE key_buffer[k]
  BY BufSizeAssumption DEF Store, HasRoom, TypeOK
<1>6. Len(accepted) = Len(returned) + key_buffer_pos
  BY <1>1 DEF InFlight
<1>7. \A k \in 1 .. Len(returned') : returned'[k] = accepted'[k]
  BY <1>1, <1>3, <1>4, <1>6 DEF InFlight, TypeOK
<1>8. ASSUME pc' \in {"shift"} \cup Window
      PROVE  c' = accepted'[Len(returned') + 1]
  <2>1. pc = "shift"
    BY <1>4, <1>8
  <2>2. Len(returned) + 1 \in 1 .. Len(accepted)
    BY <1>3, <1>6, <2>1 DEF TypeOK
  <2>3. c = accepted[Len(returned) + 1]
    BY <1>1, <2>1 DEF InFlight
  <2> QED
    BY <1>3, <1>4, <2>2, <2>3
<1>9. ASSUME NEW k \in 0 .. key_buffer_pos' - 1,
             k + Moved(k)' < key_buffer_pos'
      PROVE  key_buffer'[k] = accepted'[Len(returned') + k + 1 + Moved(k)']
  <2>1. Moved(k)' = Moved(k) /\ Moved(k) \in {0, 1}
    BY <1>1, <1>4 DEF Moved
  <2>2. CASE k = key_buffer_pos
    <3>1. Moved(k) = 0
      BY <1>1, <2>2 DEF Moved, TypeOK
    <3>2. key_buffer'[k] = x
      BY <1>5, <2>2
    <3>3. Len(returned') + k + 1 + Moved(k)' = Len(accepted) + 1
      <4>1. key_buffer_pos \in Int
        BY DEF TypeOK
      <4>2. \A r, p, q \in Int : q = r + p => r + p + 1 + 0 = q + 1
        OBVIOUS
      <4> QED
        BY <1>3, <1>4, <1>6, <2>1, <2>2, <3>1, <4>1, <4>2
    <3> QED
      BY <1>3, <3>2, <3>3
  <2>3. CASE k # key_buffer_pos
    <3>1. k \in 0 .. key_buffer_pos - 1 /\ key_buffer'[k] = key_buffer[k]
      BY <1>4, <1>5, <2>3 DEF TypeOK
    <3>2. k + Moved(k) < key_buffer_pos
      BY <1>1, <3>1 DEF Moved, TypeOK
    <3>3. key_buffer[k] = accepted[Len(returned) + k + 1 + Moved(k)]
      BY <1>1, <3>1, <3>2 DEF InFlight
    <3>4. Len(returned) + k + 1 + Moved(k) \in 1 .. Len(accepted)
      <4>1. key_buffer_pos \in Int
        BY DEF TypeOK
      <4>2. \A r, p, q, h, m \in Int :
              q = r + p /\ 0 <= r /\ 0 <= h /\ 0 <= m /\ h + m < p
                => r + h + 1 + m \in 1 .. q
        OBVIOUS
      <4>3. k \in Int /\ 0 <= k /\ Moved(k) \in Int /\ 0 <= Moved(k)
        BY <2>1, <3>1, <4>1
      <4> QED
        BY <1>3, <1>6, <3>2, <4>1, <4>2, <4>3
    <3> QED
      BY <1>3, <1>4, <2>1, <3>1, <3>3, <3>4
  <2> QED
    BY <2>2, <2>3
<1>10. Len(accepted') = Len(returned') + key_buffer_pos'
  BY <1>3, <1>4, <1>6 DEF TypeOK
<1>11. pc' # "store"
  BY <1>4 DEF Window
<1> QED
  BY <1>7, <1>8, <1>9, <1>10, <1>11 DEF InFlight

LEMMA ShiftKeepsOrder == ASSUME TypeOK, InFlight, Shift PROVE InFlight'
<1> SUFFICES ASSUME races' = 0 PROVE InFlight'
  BY DEF InFlight
<1>1. /\ races = 0 /\ pc = "shift" /\ pc' = pc
      /\ accepted' = accepted /\ returned' = returned /\ c' = c
      /\ key_buffer_pos' = key_buffer_pos
      /\ i' = i + 1 /\ i + 1 < key_buffer_pos
  BY DEF Shift, MoreToShift, history, TypeOK
<1>2. \A k \in 0 .. key_buffer_pos - 1 :
        key_buffer'[k] = IF k = i THEN key_buffer[i + 1] ELSE key_buffer[k]
  BY BufSizeAssumption DEF Shift, MoreToShift, TypeOK
<1>3. \A k \in 0 .. key_buffer_pos - 1 :
        k + Moved(k) < key_buffer_pos =>
          key_buffer[k] = accepted[Len(returned) + k + 1 + Moved(k)]
  BY <1>1 DEF InFlight
<1>4. ASSUME NEW k \in 0 .. key_buffer_pos - 1, k + Moved(k)' < key_buffer_pos
      PROVE  key_buffer'[k] = accepted[Len(returned) + k + 1 + Moved(k)']
  <2>1. Moved(k)' = IF k < i + 1 THEN 1 ELSE 0
    BY <1>1 DEF Moved, Window
  <2>2. CASE k = i
    <3>1. i + 1 \in 0 .. key_buffer_pos - 1 /\ Moved(i + 1) = 0
      BY <1>1 DEF Moved, Window, TypeOK
    <3>2. key_buffer[i + 1] = accepted[Len(returned) + (i + 1) + 1 + 0]
      BY <1>1, <1>3, <3>1
    <3>3. key_buffer'[k] = key_buffer[i + 1]
      BY <1>2, <2>2
    <3>4. Len(returned) + (i + 1) + 1 + 0 = Len(returned) + k + 1 + Moved(k)'
      BY <2>1, <2>2 DEF TypeOK
    <3> QED
      BY <3>2, <3>3, <3>4
  <2>3. CASE k # i
    <3>1. Moved(k)' = Moved(k)
      BY <1>1, <2>1, <2>3 DEF Moved, Window, TypeOK
    <3> QED
      BY <1>2, <1>3, <1>4, <2>3, <3>1
  <2> QED
    BY <2>2, <2>3
<1> QED
  BY <1>1, <1>4 DEF InFlight, Window

LEMMA ShiftDoneKeepsOrder == ASSUME TypeOK, InFlight, ShiftDone PROVE InFlight'
<1> SUFFICES ASSUME races' = 0 PROVE InFlight'
  BY DEF InFlight
<1>1. /\ races = 0 /\ pc = "shift" /\ pc' = "load"
      /\ UNCHANGED <<accepted, returned, c, eax, i, key_buffer, key_buffer_pos>>
      /\ i = key_buffer_pos - 1
  BY DEF ShiftDone, MoreToShift, Goto, buffer, frame, history, TypeOK
<1>2. \A k \in 0 .. key_buffer_pos - 1 : Moved(k)' = 1
  BY <1>1 DEF Moved, Window
<1>3. \A k \in 0 .. key_buffer_pos - 1 : k + 1 < key_buffer_pos => Moved(k) = 1
  BY <1>1 DEF Moved, Window, TypeOK
<1> QED
  BY <1>1, <1>2, <1>3 DEF InFlight, Window

LEMMA StorePosKeepsOrder == ASSUME TypeOK, InFlight, StorePos PROVE InFlight'
<1> SUFFICES ASSUME races' = 0 PROVE InFlight'
  BY DEF InFlight
<1>1. /\ races = 0 /\ pc = "store" /\ pc' = "caller"
      /\ accepted' = accepted /\ key_buffer' = key_buffer
      /\ key_buffer_pos' = key_buffer_pos - 1
      /\ c = accepted[Len(returned) + 1]
  BY DEF StorePos, Goto, InFlight, Window
<1>2. /\ Len(returned) \in Nat /\ Len(returned') = Len(returned) + 1
      /\ returned'[Len(returned) + 1] = c
      /\ \A k \in 1 .. Len(returned) : returned'[k] = returned[k]
  BY DEF StorePos, TypeOK
<1>3. /\ Len(accepted) = Len(returned) + key_buffer_pos
      /\ \A k \in 1 .. Len(returned) : returned[k] = accepted[k]
  BY <1>1 DEF InFlight
<1>4. \A k \in 1 .. Len(returned') : returned'[k] = accepted[k]
  BY <1>1, <1>2, <1>3
<1>5. ASSUME NEW k \in 0 .. key_buffer_pos' - 1
      PROVE  key_buffer[k] = accepted[Len(returned') + k + 1]
  <2>1. k \in 0 .. key_buffer_pos - 1 /\ Moved(k) = 1 /\ k + 1 < key_buffer_pos
    BY <1>1 DEF Moved, Window, TypeOK
  <2>2. key_buffer[k] = accepted[Len(returned) + k + 1 + 1]
    BY <1>1, <2>1 DEF InFlight
  <2> QED
    BY <1>2, <2>2
<1>6. \A k \in 0 .. key_buffer_pos' - 1 : Moved(k)' = 0
  BY <1>1 DEF Moved, Window
<1>7. Len(accepted) = Len(returned') + key_buffer_pos'
  BY <1>1, <1>2, <1>3 DEF TypeOK
<1> QED
  BY <1>1, <1>2, <1>4, <1>5, <1>6, <1>7 DEF InFlight, Window

LEMMA NextInFlight == TypeOK /\ InFlight /\ [Next]_vars => InFlight'
<1> SUFFICES ASSUME TypeOK, InFlight, [Next]_vars PROVE InFlight'
  OBVIOUS
<1>1. CASE keyboard_handler
  <2>1. CASE Store(Head(port))
    BY <1>1, <2>1, StoreKeepsOrder
  <2>2. CASE Ignore(Head(port))
    BY <1>1, <2>2
       DEF keyboard_handler, Ignore, buffer, frame, InFlight, Moved, Window
  <2> QED
    BY <1>1, <2>1, <2>2 DEF keyboard_handler
<1>2. CASE Shift
  BY <1>2, ShiftKeepsOrder
<1>3. CASE ShiftDone
  BY <1>3, ShiftDoneKeepsOrder
<1>4. CASE StorePos
  BY <1>4, StorePosKeepsOrder
<1>5. CASE LoadPos
  BY <1>5 DEF LoadPos, Goto, InFlight, Moved, Window, buffer, history
<1>6. CASE Take
  <2>1. /\ pc = "take" /\ pc' = "shift" /\ c' = key_buffer[0] /\ i' = 0
        /\ UNCHANGED <<key_buffer, key_buffer_pos, accepted, returned, races>>
    BY <1>6 DEF Take, Goto, buffer, history
  <2>2. \A k \in 0 .. key_buffer_pos - 1 : Moved(k) = 0 /\ Moved(k)' = 0
    BY <2>1 DEF Moved, Window
  <2>3. races = 0 => key_buffer[0] = accepted[Len(returned) + 1]
    <3>1. 0 \in 0 .. key_buffer_pos - 1
      BY <2>1 DEF TypeOK
    <3>2. Moved(0) = 0 /\ 0 + Moved(0) < key_buffer_pos
      <4>1. 0 < key_buffer_pos
        BY <2>1 DEF TypeOK
      <4>2. Moved(0) = 0
        BY <2>2, <3>1
      <4> QED
        BY <4>1, <4>2
    <3>3. races = 0 => key_buffer[0] = accepted[Len(returned) + 0 + 1 + Moved(0)]
      <4>1. races = 0 =>
              \A k \in 0 .. key_buffer_pos - 1 :
                k + Moved(k) < key_buffer_pos =>
                  key_buffer[k] = accepted[Len(returned) + k + 1 + Moved(k)]
        BY DEF InFlight
      <4> QED
        BY <3>1, <3>2, <4>1
    <3>4. Len(returned) + 0 + 1 + Moved(0) = Len(returned) + 1
      BY <3>2 DEF TypeOK
    <3> QED
      BY <3>3, <3>4
  <2> QED
    BY <2>1, <2>2, <2>3 DEF InFlight, Window
<1>7. CASE Call \/ Test \/ Halt
  BY <1>7 DEF Call, Test, Halt, Goto, InFlight, Moved, Window, buffer, frame,
              history
<1>8. CASE \/ \E s \in Scancodes : KeyEvent(s)
           \/ enable_interrupts \/ disable_interrupts
           \/ UNCHANGED vars
  <2>1. UNCHANGED <<buffer, pc, frame, history>>
    BY <1>8 DEF KeyEvent, enable_interrupts, disable_interrupts, vars
  <2>2. UNCHANGED <<key_buffer, key_buffer_pos, pc, c, i, eax, accepted, returned, races>>
    BY <2>1 DEF buffer, frame, history
  <2>3. \A k \in 0 .. key_buffer_pos - 1 : Moved(k)' = Moved(k)
    BY <2>2 DEF Moved
  <2> QED
    BY <2>2, <2>3 DEF InFlight
<1> QED
  BY <1>1, <1>2, <1>3, <1>4, <1>5, <1>6, <1>7, <1>8 DEF Next, Getchar

(* What InFlight says outside keyboard_getchar is the equation itself.     *)
LEMMA InFlightImpliesFifo == TypeOK /\ InFlight => FifoUnlessRaced
<1> SUFFICES ASSUME TypeOK, InFlight, races = 0, pc \in Waiting
             PROVE  accepted = returned \o Queue
  BY DEF FifoUnlessRaced
<1>1. /\ Queue \in Seq(Nat) /\ Len(Queue) = key_buffer_pos
      /\ \A k \in 1 .. key_buffer_pos : Queue[k] = key_buffer[k - 1]
  <2>1. \A k \in 1 .. key_buffer_pos : key_buffer[k - 1] \in Nat
    BY BufSizeAssumption DEF TypeOK
  <2>2. Queue \in [1 .. key_buffer_pos -> Nat] /\ key_buffer_pos \in Nat
    BY <2>1 DEF Queue, TypeOK
  <2>3. Queue \in Seq(Nat)
    BY <2>2, SeqDef
  <2> QED
    BY <2>2, <2>3, LenProperties DEF Queue
<1>2. /\ returned \in Seq(Nat) /\ Len(returned) \in Nat
      /\ key_buffer_pos \in Nat
      /\ Len(accepted) = Len(returned) + key_buffer_pos
  BY DEF InFlight, TypeOK
<1>3. ASSUME NEW k \in 0 .. key_buffer_pos - 1
      PROVE  key_buffer[k] = accepted[Len(returned) + k + 1]
  <2>1. Moved(k) = 0
    BY DEF Moved, Waiting, Window
  <2>2. key_buffer[k] = accepted[Len(returned) + k + 1 + 0]
    BY <1>2, <2>1 DEF InFlight
  <2> QED
    BY <1>2, <2>2
<1>4. /\ returned \o Queue \in Seq(Nat)
      /\ Len(returned \o Queue) = Len(accepted)
      /\ \A k \in 1 .. Len(accepted) : (returned \o Queue)[k] =
            IF k <= Len(returned) THEN returned[k] ELSE Queue[k - Len(returned)]
  BY <1>1, <1>2, ConcatProperties
<1>5. ASSUME NEW k \in 1 .. Len(accepted)
      PROVE  accepted[k] = (returned \o Queue)[k]
  <2>1. CASE k <= Len(returned)
    <3>1. k \in 1 .. Len(returned)
      BY <1>2, <2>1
    <3> QED
      BY <1>4, <2>1, <3>1 DEF InFlight
  <2>2. CASE ~ (k <= Len(returned))
    <3> DEFINE n == k - Len(returned)
    <3>1. n \in 1 .. key_buffer_pos /\ n - 1 \in 0 .. key_buffer_pos - 1
      BY <1>2, <2>2
    <3>2. (returned \o Queue)[k] = key_buffer[n - 1]
      BY <1>1, <1>4, <2>2, <3>1
    <3>3. key_buffer[n - 1] = accepted[Len(returned) + (n - 1) + 1]
      BY <1>3, <3>1
    <3>4. Len(returned) + (n - 1) + 1 = k
      BY <1>2
    <3> QED
      BY <3>2, <3>3, <3>4
  <2> QED
    BY <2>1, <2>2
<1>6. accepted \in Seq(Nat)
  BY DEF TypeOK
<1> QED
  BY <1>4, <1>5, <1>6, SeqEqual

(***************************************************************************)
(* FifoUnlessRaced is an invariant: as long as no character arrives inside *)
(* the window, everything typed comes out once and in order, for every     *)
(* buffer size and however often the handler cuts into the shift loop.     *)
(***************************************************************************)
THEOREM Fifo == Spec => []FifoUnlessRaced
<1>1. Init => InFlight
  BY DEF Init, InFlight, Window
<1> QED
  BY <1>1, TypeCorrect, NextInFlight, InFlightImpliesFifo, PTL DEF Spec

-----------------------------------------------------------------------------
(***************************************************************************)
(* STRINGS, to the end of the module.  First, induction: a set that has 0, *)
(* and every number up to n whose smaller ones it has, has them all.       *)
(***************************************************************************)
LEMMA Induction ==
  ASSUME NEW n \in Nat, NEW T,
         0 \in T,
         \A k \in 1 .. n : (\A j \in 0 .. k - 1 : j \in T) => k \in T
  PROVE  \A k \in 0 .. n : k \in T
<1> DEFINE B == {k \in 0 .. n : k \notin T}
<1> SUFFICES ASSUME B # {} PROVE FALSE
  OBVIOUS
<1>1. B \subseteq Nat
  OBVIOUS
<1>2. \E x \in B : \A y \in B : ~ (<<y, x>> \in OpToRel(<, Nat))
  <2> HIDE DEF B
  <2> QED
    BY <1>1, NatLessThanWellFounded, WFMin
<1>3. PICK x \in B : \A y \in B : ~ (<<y, x>> \in OpToRel(<, Nat))
  BY <1>2
<1>4. \A y \in B : ~ (y < x)
  BY <1>1, <1>3 DEF OpToRel
<1>5. x \in 1 .. n
  <2>1. x \in 0 .. n /\ x \notin T
    OBVIOUS
  <2>2. x # 0
    BY <2>1
  <2> QED
    BY <2>1, <2>2
<1>6. ASSUME NEW j \in 0 .. x - 1 PROVE j \in T
  <2>1. j < x /\ j \in 0 .. n
    BY <1>5
  <2> QED
    BY <1>4, <2>1
<1> QED
  BY <1>3, <1>5, <1>6

(* A recursion that takes the value at k from that at a smaller number has *)
(* a solution: G[k] is what it does with that value, before[k] where it is.*)
Recursive(S, first, n, before, G) ==
  /\ first \in S
  /\ before \in [1 .. n -> Nat] /\ \A k \in 1 .. n : before[k] < k
  /\ G \in [1 .. n -> [S -> S]]

Solution(f, S, first, n, before, G) ==
  /\ f \in [0 .. n -> S]
  /\ f[0] = first
  /\ \A k \in 1 .. n : f[k] = G[k][f[before[k]]]

LEMMA RecursionExists ==
  ASSUME NEW S, NEW first, NEW n \in Nat, NEW before, NEW G,
         Recursive(S, first, n, before, G)
  PROVE  \E f : Solution(f, S, first, n, before, G)
<1> USE DEF Recursive
<1> DEFINE Solves(f, m) ==
             \A k \in 0 .. m : f[k] = IF k = 0 THEN first ELSE G[k][f[before[k]]]
           Solvable(m) == \E f \in [0 .. m -> S] : Solves(f, m)
           T == {m \in 0 .. n : Solvable(m)}
<1>1. 0 \in T
  <2> DEFINE f == [k \in 0 .. 0 |-> first]
  <2>1. f \in [0 .. 0 -> S] /\ Solves(f, 0)
    OBVIOUS
  <2>2. Solvable(0)
    BY <2>1
  <2> HIDE DEF Solvable
  <2> QED
    BY <2>2
<1>2. ASSUME NEW m \in 1 .. n, \A j \in 0 .. m - 1 : j \in T PROVE m \in T
  <2>1. m - 1 \in T
    <3>1. m - 1 \in 0 .. m - 1
      OBVIOUS
    <3> HIDE DEF T
    <3> QED
      BY <1>2, <3>1
  <2>2. PICK f \in [0 .. m - 1 -> S] : Solves(f, m - 1)
    <3>1. Solvable(m - 1)
      <4> HIDE DEF Solvable
      <4> QED
        BY <2>1
    <3> QED
      BY <3>1
  <2> DEFINE g == [k \in 0 .. m |-> IF k = m THEN G[m][f[before[m]]] ELSE f[k]]
  <2>3. before[m] \in 0 .. m - 1
    OBVIOUS
  <2>4. G[m][f[before[m]]] \in S
    BY <2>3
  <2>5. g \in [0 .. m -> S]
    BY <2>4
  <2>6. ASSUME NEW k \in 0 .. m
        PROVE  g[k] = IF k = 0 THEN first ELSE G[k][g[before[k]]]
    <3>1. CASE k = m
      <4>1. g[k] = G[m][f[before[m]]] /\ g[before[k]] = f[before[m]]
        BY <2>3, <3>1
      <4> QED
        BY <3>1, <4>1
    <3>2. CASE k # m /\ k # 0
      <4>1. k \in 1 .. n /\ k \in 0 .. m - 1
        BY <3>2
      <4>2. before[k] \in 0 .. m - 1
        BY <4>1
      <4>3. before[k] # m /\ before[k] \in 0 .. m
        BY <4>2
      <4>4. g[k] = f[k] /\ g[before[k]] = f[before[k]]
        BY <3>2, <4>3
      <4>5. f[k] = G[k][f[before[k]]]
        BY <2>2, <3>2, <4>1
      <4> QED
        BY <3>2, <4>4, <4>5
    <3>3. CASE k = 0
      <4>1. g[k] = f[k] /\ 0 \in 0 .. m - 1
        BY <3>3
      <4>2. f[0] = first
        BY <2>2, <4>1
      <4> QED
        BY <3>3, <4>1, <4>2
    <3> QED
      BY <3>1, <3>2, <3>3
  <2> HIDE DEF g
  <2>7. Solves(g, m)
    BY <2>6
  <2>8. Solvable(m)
    BY <2>5, <2>7
  <2> HIDE DEF Solvable
  <2> QED
    BY <2>8
<1>3. \A k \in 0 .. n : k \in T
  <2>1. \A m \in 1 .. n : (\A j \in 0 .. m - 1 : j \in T) => m \in T
    BY <1>2
  <2> HIDE DEF T
  <2> QED
    BY <1>1, <2>1, Induction
<1>4. PICK f \in [0 .. n -> S] : Solves(f, n)
  <2>1. n \in 0 .. n
    OBVIOUS
  <2>2. Solvable(n)
    <3> HIDE DEF Solvable
    <3> QED
      BY <1>3, <2>1
  <2> QED
    BY <2>2
<1>5. f[0] = first
  <2>1. 0 \in 0 .. n
    OBVIOUS
  <2> QED
    BY <1>4, <2>1
<1>6. ASSUME NEW k \in 1 .. n PROVE f[k] = G[k][f[before[k]]]
  <2>1. k \in 0 .. n /\ k # 0
    OBVIOUS
  <2> QED
    BY <1>4, <2>1
<1> QED
  BY <1>5, <1>6 DEF Solution

(* The first member of T from 0 on, if one is known.                       *)
LEMMA FirstMember ==
  ASSUME NEW n \in Nat, NEW T, n \in T
  PROVE  \E k \in 0 .. n : k \in T /\ \A j \in 0 .. k - 1 : j \notin T
<1> DEFINE U == {k \in 0 .. n : k \notin T}
<1> SUFFICES ASSUME \A k \in 0 .. n : k \in T => \E j \in 0 .. k - 1 : j \in T
             PROVE  FALSE
  OBVIOUS
<1>1. 0 \in U
  OBVIOUS
<1>2. ASSUME NEW k \in 1 .. n, \A j \in 0 .. k - 1 : j \in U PROVE k \in U
  BY <1>2
<1>3. \A k \in 0 .. n : k \in U
  <2>1. \A k \in 1 .. n : (\A j \in 0 .. k - 1 : j \in U) => k \in U
    BY <1>2
  <2> HIDE DEF U
  <2> QED
    BY <1>1, <2>1, Induction
<1>4. n \in 0 .. n
  OBVIOUS
<1> QED
  BY <1>3, <1>4

-----------------------------------------------------------------------------
(***************************************************************************)
(* Strings in the buffer.  Where its last byte is 0, every scan ends in it.*)
(***************************************************************************)
Memory == {m \in [Address -> 0 .. 127] : m[Size - 1] = 0}

LEMMA AddressType == Address \subseteq Nat /\ 0 \in Address /\ Size - 1 \in Address
BY SizeAssumption DEF Address

LEMMA strspnStops ==
  ASSUME NEW m \in Memory, NEW p \in Address, NEW accept
  PROVE  LET n == strspn(m, p, accept) IN
         /\ n \in Nat /\ p + n \in Address
         /\ \A k \in 0 .. n - 1 : m[p + k] # 0 /\ m[p + k] \in accept
         /\ m[p + n] = 0 \/ m[p + n] \notin accept
<1> DEFINE L == Size - 1 - p
           Stop == {k \in 0 .. L : m[p + k] = 0 \/ m[p + k] \notin accept}
           Good(n) ==
             /\ \A k \in 0 .. n - 1 : m[p + k] # 0 /\ m[p + k] \in accept
             /\ m[p + n] = 0 \/ m[p + n] \notin accept
<1>1. L \in Nat /\ p + L = Size - 1 /\ L \in 0 .. L
  BY SizeAssumption DEF Address
<1>2. m[Size - 1] = 0
  BY DEF Memory
<1>3. L \in Stop
  BY <1>1, <1>2
<1>4. \E n \in 0 .. L : n \in Stop /\ \A k \in 0 .. n - 1 : k \notin Stop
  <2> HIDE DEF L, Stop
  <2> QED
    BY <1>1, <1>3, FirstMember
<1>5. \E n \in 0 .. Size - p : Good(n)
  <2>1. PICK n \in 0 .. L : n \in Stop /\ \A k \in 0 .. n - 1 : k \notin Stop
    BY <1>4
  <2>2. \A k \in 0 .. n - 1 : k \in 0 .. L
    BY <1>1
  <2>3. Good(n)
    BY <2>1, <2>2
  <2>4. n \in 0 .. Size - p
    BY <1>1, SizeAssumption DEF Address
  <2> HIDE DEF Good
  <2> QED
    BY <2>3, <2>4
<1> DEFINE n == strspn(m, p, accept)
<1>6. n = CHOOSE x \in 0 .. Size - p : Good(x)
  BY DEF strspn
<1>7. n \in 0 .. Size - p /\ Good(n)
  <2> HIDE DEF Good, n
  <2> QED
    BY <1>5, <1>6
<1>8. n <= L
  <2> SUFFICES ASSUME ~ (n <= L) PROVE FALSE
    OBVIOUS
  <2>1. L \in 0 .. n - 1
    BY <1>1, <1>7, SizeAssumption DEF Address
  <2>2. m[p + L] # 0
    BY <1>7, <2>1
  <2> QED
    BY <1>1, <1>2, <2>2
<1>9. n \in Nat /\ p + n \in Address
  BY <1>1, <1>7, <1>8, SizeAssumption DEF Address
<1> QED
  BY <1>7, <1>9

LEMMA strcspnStops ==
  ASSUME NEW m \in Memory, NEW p \in Address, NEW reject
  PROVE  LET n == strcspn(m, p, reject) IN
         /\ n \in Nat /\ p + n \in Address
         /\ \A k \in 0 .. n - 1 : m[p + k] # 0 /\ m[p + k] \notin reject
         /\ m[p + n] = 0 \/ m[p + n] \in reject
<1> DEFINE L == Size - 1 - p
           Stop == {k \in 0 .. L : m[p + k] = 0 \/ m[p + k] \in reject}
           Good(n) ==
             /\ \A k \in 0 .. n - 1 : m[p + k] # 0 /\ m[p + k] \notin reject
             /\ m[p + n] = 0 \/ m[p + n] \in reject
<1>1. L \in Nat /\ p + L = Size - 1 /\ L \in 0 .. L
  BY SizeAssumption DEF Address
<1>2. m[Size - 1] = 0
  BY DEF Memory
<1>3. L \in Stop
  BY <1>1, <1>2
<1>4. \E n \in 0 .. L : n \in Stop /\ \A k \in 0 .. n - 1 : k \notin Stop
  <2> HIDE DEF L, Stop
  <2> QED
    BY <1>1, <1>3, FirstMember
<1>5. \E n \in 0 .. Size - p : Good(n)
  <2>1. PICK n \in 0 .. L : n \in Stop /\ \A k \in 0 .. n - 1 : k \notin Stop
    BY <1>4
  <2>2. \A k \in 0 .. n - 1 : k \in 0 .. L
    BY <1>1
  <2>3. Good(n)
    BY <2>1, <2>2
  <2>4. n \in 0 .. Size - p
    BY <1>1, SizeAssumption DEF Address
  <2> HIDE DEF Good
  <2> QED
    BY <2>3, <2>4
<1> DEFINE n == strcspn(m, p, reject)
<1>6. n = CHOOSE x \in 0 .. Size - p : Good(x)
  BY DEF strcspn
<1>7. n \in 0 .. Size - p /\ Good(n)
  <2> HIDE DEF Good, n
  <2> QED
    BY <1>5, <1>6
<1>8. n <= L
  <2> SUFFICES ASSUME ~ (n <= L) PROVE FALSE
    OBVIOUS
  <2>1. L \in 0 .. n - 1
    BY <1>1, <1>7, SizeAssumption DEF Address
  <2>2. m[p + L] # 0
    BY <1>7, <2>1
  <2> QED
    BY <1>1, <1>2, <2>2
<1>9. n \in Nat /\ p + n \in Address
  BY <1>1, <1>7, <1>8, SizeAssumption DEF Address
<1> QED
  BY <1>7, <1>9

(* A string is what stands before its 0, and is the same in every buffer   *)
(* that has those characters and that 0.                                   *)
LEMMA TextIs ==
  ASSUME NEW m \in Memory, NEW p \in Address, NEW n \in Nat, p + n \in Address,
         m[p + n] = 0, \A k \in 0 .. n - 1 : m[p + k] # 0
  PROVE  Text(m, p) = [k \in 1 .. n |-> m[p + k - 1]]
<1> DEFINE l == strcspn(m, p, {})
<1>1. /\ l \in Nat /\ p + l \in Address
      /\ \A k \in 0 .. l - 1 : m[p + k] # 0
      /\ m[p + l] = 0
  <2>1. /\ l \in Nat /\ p + l \in Address
        /\ \A k \in 0 .. l - 1 : m[p + k] # 0 /\ m[p + k] \notin {}
        /\ m[p + l] = 0 \/ m[p + l] \in {}
    BY strcspnStops
  <2> HIDE DEF l
  <2> QED
    BY <2>1
<1>2. Text(m, p) = [k \in 1 .. l |-> m[p + k - 1]]
  BY DEF Text
<1> HIDE DEF l
<1>3. ~ (l < n)
  <2> SUFFICES ASSUME l < n PROVE FALSE
    OBVIOUS
  <2>1. l \in 0 .. n - 1
    BY <1>1
  <2> QED
    BY <1>1, <2>1
<1>4. ~ (n < l)
  <2> SUFFICES ASSUME n < l PROVE FALSE
    OBVIOUS
  <2>1. n \in 0 .. l - 1
    BY <1>1
  <2> QED
    BY <1>1, <2>1
<1>5. l = n
  BY <1>1, <1>3, <1>4
<1> QED
  BY <1>2, <1>5

Characters(m, p, n) == [k \in 1 .. n |-> m[p + k - 1]]

LEMMA TextIsCharacters ==
  ASSUME NEW m \in Memory, NEW p \in Address, NEW n \in Nat, p + n \in Address,
         m[p + n] = 0, \A k \in 0 .. n - 1 : m[p + k] # 0
  PROVE  Text(m, p) = Characters(m, p, n)
BY TextIs DEF Characters

LEMMA TextType ==
  ASSUME NEW m \in Memory, NEW p \in Address
  PROVE  /\ Text(m, p) \in Seq(1 .. 127)
         /\ p + Len(Text(m, p)) \in Address
         /\ m[p + Len(Text(m, p))] = 0
         /\ \A k \in 0 .. Len(Text(m, p)) - 1 : m[p + k] # 0
         /\ \A k \in 1 .. Len(Text(m, p)) : Text(m, p)[k] = m[p + k - 1]
<1> DEFINE l == strcspn(m, p, {})
<1>1. /\ l \in Nat /\ p + l \in Address
      /\ \A k \in 0 .. l - 1 : m[p + k] # 0
      /\ m[p + l] = 0
  <2>1. /\ l \in Nat /\ p + l \in Address
        /\ \A k \in 0 .. l - 1 : m[p + k] # 0 /\ m[p + k] \notin {}
        /\ m[p + l] = 0 \/ m[p + l] \in {}
    BY strcspnStops
  <2> HIDE DEF l
  <2> QED
    BY <2>1
<1>2. Text(m, p) = [k \in 1 .. l |-> m[p + k - 1]]
  BY DEF Text
<1> HIDE DEF l
<1>3. ASSUME NEW k \in 1 .. l PROVE m[p + k - 1] \in 1 .. 127
  <2>1. k - 1 \in 0 .. l - 1 /\ p + (k - 1) = p + k - 1 /\ p + k - 1 \in Address
    BY <1>1, SizeAssumption DEF Address
  <2>2. m[p + k - 1] # 0 /\ m[p + k - 1] \in 0 .. 127
    BY <1>1, <2>1 DEF Memory
  <2> QED
    BY <2>2
<1>4. Text(m, p) \in Seq(1 .. 127) /\ Len(Text(m, p)) = l
  BY <1>1, <1>2, <1>3
<1> QED
  BY <1>1, <1>2, <1>4

LEMMA TextAgrees ==
  ASSUME NEW m \in Memory, NEW m_new \in Memory, NEW p \in Address,
         \A a \in Address : a >= p /\ a <= p + Len(Text(m, p)) => m_new[a] = m[a]
  PROVE  Text(m_new, p) = Text(m, p)
<1> DEFINE l == Len(Text(m, p))
<1>1. /\ l \in Nat /\ p + l \in Address /\ m[p + l] = 0
      /\ \A k \in 0 .. l - 1 : m[p + k] # 0
  BY TextType
<1>2. Text(m, p) = [k \in 1 .. l |-> m[p + k - 1]]
  BY <1>1, TextIs
<1> HIDE DEF l
<1>3. \A k \in 0 .. l : p + k \in Address /\ p + k >= p /\ p + k <= p + l
  BY <1>1, SizeAssumption DEF Address
<1>4. \A k \in 0 .. l : m_new[p + k] = m[p + k]
  BY <1>3 DEF l
<1>5. m_new[p + l] = 0 /\ \A k \in 0 .. l - 1 : m_new[p + k] # 0
  BY <1>1, <1>4
<1>6. Text(m_new, p) = [k \in 1 .. l |-> m_new[p + k - 1]]
  BY <1>1, <1>5, TextIs
<1>7. \A k \in 1 .. l : m_new[p + k - 1] = m[p + k - 1]
  <2> SUFFICES ASSUME NEW k \in 1 .. l PROVE m_new[p + k - 1] = m[p + k - 1]
    OBVIOUS
  <2>1. k - 1 \in 0 .. l /\ p + (k - 1) = p + k - 1
    BY <1>1 DEF Address
  <2> QED
    BY <1>4, <2>1
<1> QED
  BY <1>2, <1>6, <1>7
-----------------------------------------------------------------------------
(***************************************************************************)
(* strtok.  kept are the addresses it has returned; from is where it goes  *)
(* on: what comes there is still the text's, and no word begins before it  *)
(* that is not among kept.                                                 *)
(***************************************************************************)
Covers(kept, b) == \E k \in DOMAIN kept : kept[k] + 1 = b

Returned(m, text, kept) ==
  /\ \A j, k \in DOMAIN kept : j < k => kept[j] < kept[k]
  /\ \A k \in DOMAIN kept :
       kept[k] + 1 \in Starts(text) /\ IsWord(Text(m, kept[k]), text, kept[k] + 1)

SearchesAt(m, text, kept, from) ==
  /\ from \in 0 .. Len(text) /\ Len(text) \in Address
  /\ \A a \in from .. Len(text) - 1 : m[a] = text[a + 1]
  /\ m[Len(text)] = 0
  /\ from > 0 /\ from < Len(text) => text[from] \in Delim
  /\ \A b \in Starts(text) : b <= from => Covers(kept, b)
  /\ \A k \in DOMAIN kept :
       kept[k] < from /\ kept[k] + Len(Text(m, kept[k])) <= from

LEMMA NotTheNull == \A ch \in 1 .. 127 : ch # 0
OBVIOUS

(* A search at the end of the text, or with delimiters only up to it,      *)
(* finds nothing because nothing is left.                                  *)
LEMMA NothingLeft ==
  ASSUME NEW m \in Memory, NEW text \in Seq(1 .. 127), NEW kept \in Seq(Address),
         NEW from, SearchesAt(m, text, kept, from),
         NEW str \in from .. Len(text), m[str] = 0,
         \A a \in from .. str - 1 : m[a] \in Delim
  PROVE  \A b \in Starts(text) : Covers(kept, b)
<1> DEFINE L == Len(text)
<1>1. L \in Nat /\ from \in 0 .. L /\ DOMAIN text = 1 .. L
  BY DEF SearchesAt
<1>2. \A k \in 1 .. L : text[k] \in 1 .. 127
  BY ElementOfSeq
<1>3. \A a \in from .. L - 1 : m[a] = text[a + 1]
  BY DEF SearchesAt
<1>4. str \in from .. L
  OBVIOUS
<1> HIDE DEF L
<1>5. str = L
  <2> SUFFICES ASSUME str # L PROVE FALSE
    OBVIOUS
  <2>1. str \in from .. L - 1 /\ str + 1 \in 1 .. L
    BY <1>1, <1>4
  <2>2. text[str + 1] # 0
    BY <1>2, <2>1, NotTheNull, Zenon
  <2> QED
    BY <1>3, <2>1, <2>2
<1> SUFFICES ASSUME NEW b \in Starts(text), ~ (b <= from) PROVE FALSE
  BY <1>1 DEF SearchesAt
<1>6. b \in 1 .. L /\ text[b] \notin Delim
  BY <1>1 DEF Starts
<1>7. b - 1 \in from .. L - 1 /\ b - 1 + 1 = b
  BY <1>1, <1>6
<1>8. m[b - 1] = text[b] /\ m[b - 1] \in Delim
  BY <1>3, <1>5, <1>7
<1> QED
  BY <1>6, <1>8

(* A token: the next word of the text, cut off by a 0 where the delimiter  *)
(* after it was.                                                           *)
LEMMA TokenIsNext ==
  ASSUME NEW m \in Memory, NEW text \in Seq(1 .. 127), NEW kept \in Seq(Address),
         NEW from, SearchesAt(m, text, kept, from), Returned(m, text, kept),
         NEW str \in from .. Size - 1, m[str] # 0, m[str] \notin Delim,
         \A a \in from .. str - 1 : m[a] # 0 /\ m[a] \in Delim,
         NEW end \in str .. Size - 1, m[end] = 0 \/ m[end] \in Delim,
         \A a \in str .. end - 1 : m[a] # 0 /\ m[a] \notin Delim,
         NEW m_new, m_new = [m EXCEPT ![end] = 0],
         NEW next, next = IF m[end] # 0 THEN end + 1 ELSE end
  PROVE  /\ m_new \in Memory /\ next \in Address
         /\ Returned(m_new, text, Append(kept, str))
         /\ SearchesAt(m_new, text, Append(kept, str), next)
<1> DEFINE L == Len(text)
           found == Append(kept, str)
<1>1. /\ L \in Nat /\ from \in 0 .. L /\ DOMAIN text = 1 .. L /\ L \in 0 .. Size - 1
      /\ m[L] = 0
  BY DEF SearchesAt, Address
<1>2. \A k \in 1 .. L : text[k] \in 1 .. 127
  BY ElementOfSeq
<1>3. \A a \in from .. L - 1 : m[a] = text[a + 1]
  BY DEF SearchesAt
<1>4. /\ str \in Nat /\ end \in Nat /\ Size \in Nat /\ from \in Nat
      /\ from <= str /\ str <= end /\ end <= Size - 1
  BY <1>1, SizeAssumption
<1>5. str < end
  BY <1>4
<1> HIDE DEF L
(* The scans stop at the text's end at the latest. *)
<1>6. end <= L
  <2> SUFFICES ASSUME ~ (end <= L) PROVE FALSE
    OBVIOUS
  <2>1. L \in from .. str - 1 \/ L \in str .. end - 1
    BY <1>1, <1>4
  <2> QED
    BY <1>1, <2>1
<1>7. \A b \in from + 1 .. end : m[b - 1] = text[b] /\ b \in 1 .. L
  <2> SUFFICES ASSUME NEW b \in from + 1 .. end
               PROVE  m[b - 1] = text[b] /\ b \in 1 .. L
    OBVIOUS
  <2>1. b - 1 \in from .. L - 1 /\ b - 1 + 1 = b /\ b \in 1 .. L
    BY <1>1, <1>4, <1>6
  <2> QED
    BY <1>3, <2>1
<1>8. end < L => m[end] = text[end + 1] /\ text[end + 1] \in Delim /\ m[end] # 0
  <2> SUFFICES ASSUME end < L
               PROVE  m[end] = text[end + 1] /\ text[end + 1] \in Delim /\ m[end] # 0
    OBVIOUS
  <2>1. end \in from .. L - 1 /\ end + 1 \in 1 .. L
    BY <1>1, <1>4
  <2>2. m[end] = text[end + 1] /\ text[end + 1] # 0
    BY <1>2, <1>3, <2>1, NotTheNull, Zenon
  <2> QED
    BY <2>2, Zenon
<1>9. (end < L /\ next = end + 1) \/ (end = L /\ next = end)
  <2>1. end < L \/ end = L
    BY <1>1, <1>4, <1>6
  <2> QED
    BY <1>1, <1>8, <2>1, Zenon
<1>10. next \in 0 .. L /\ next \in Address /\ next >= end
  BY <1>1, <1>4, <1>9 DEF Address
(* The buffer. *)
<1>11. m \in [Address -> 0 .. 127] /\ m[Size - 1] = 0 /\ end \in Address
  BY <1>4 DEF Memory, Address
<1>12. m_new \in Memory
  <2>1. m_new \in [Address -> 0 .. 127] /\ m_new[Size - 1] = 0
    BY <1>11, AddressType
  <2> QED
    BY <2>1 DEF Memory
<1>13. \A a \in Address : a # end => m_new[a] = m[a]
  BY <1>11
<1>14. m_new[end] = 0
  BY <1>11
(* The token's own text. *)
<1>15. str \in Address /\ found \in Seq(Address) /\ Len(kept) \in Nat
       /\ Len(found) = Len(kept) + 1 /\ found[Len(kept) + 1] = str
       /\ \A k \in 1 .. Len(kept) : found[k] = kept[k] /\ kept[k] \in Address
  <2>1. str \in Address
    BY <1>4 DEF Address
  <2> QED
    BY <2>1, AppendProperties, ElementOfSeq, LenProperties
<1>16. Text(m_new, str) = [k \in 1 .. end - str |-> m[str + k - 1]]
  <2> DEFINE n == end - str
  <2>1. n \in Nat /\ str + n = end
    BY <1>4
  <2>2. \A k \in 0 .. n - 1 :
          str + k \in Address /\ str + k # end /\ str + k \in str .. end - 1
    BY <1>4, <2>1 DEF Address
  <2>3. \A k \in 0 .. n - 1 : m_new[str + k] = m[str + k] /\ m[str + k] # 0
    BY <1>13, <2>2
  <2> HIDE DEF n
  <2>4. Text(m_new, str) = [k \in 1 .. n |-> m_new[str + k - 1]]
    <3>1. str + n \in Address /\ m_new[str + n] = 0
      BY <1>11, <1>14, <2>1
    <3>2. \A k \in 0 .. n - 1 : m_new[str + k] # 0
      BY <2>3
    <3>3. str \in Address
      BY <1>15
    <3>4. Text(m_new, str) = Characters(m_new, str, n)
      BY <1>12, <2>1, <3>1, <3>2, <3>3, TextIsCharacters, Zenon
    <3> QED
      BY <3>4, Zenon DEF Characters
  <2>5. \A k \in 1 .. n : m_new[str + k - 1] = m[str + k - 1]
    <3> SUFFICES ASSUME NEW k \in 1 .. n
                 PROVE  m_new[str + k - 1] = m[str + k - 1]
      OBVIOUS
    <3>1. k - 1 \in 0 .. n - 1 /\ str + (k - 1) = str + k - 1
      BY <1>4, <2>1
    <3>2. m_new[str + (k - 1)] = m[str + (k - 1)]
      BY <2>3, <3>1, Zenon
    <3> QED
      BY <3>1, <3>2, Zenon
  <2>6. Text(m_new, str) = [k \in 1 .. n |-> m[str + k - 1]]
    BY <2>4, <2>5
  <2> QED
    BY <2>6 DEF n
<1> DEFINE w == Text(m_new, str)
<1>17. Len(w) = end - str /\ DOMAIN w = 1 .. end - str
       /\ \A k \in 1 .. end - str : w[k] = m[str + k - 1]
  <2>1. w \in Seq(1 .. 127)
    BY <1>12, <1>15, TextType
  <2> HIDE DEF w
  <2>2. w = [k \in 1 .. end - str |-> m[str + k - 1]]
    BY <1>16 DEF w
  <2>3. DOMAIN w = 1 .. Len(w) /\ Len(w) \in Nat
    BY <2>1, LenProperties
  <2>4. DOMAIN w = 1 .. end - str /\ end - str \in Nat
    BY <1>4, <2>2
  <2>5. Len(w) = end - str
    BY <1>4, <2>3, <2>4
  <2> QED
    BY <2>2, <2>4, <2>5
<1> HIDE DEF w
<1>18. IsWord(w, text, str + 1)
  <2>1. ASSUME NEW k \in DOMAIN w
        PROVE  /\ str + 1 + k - 1 \in DOMAIN text /\ w[k] = text[str + 1 + k - 1]
               /\ w[k] \notin Delim
    <3>1. k \in 1 .. end - str /\ w[k] = m[str + k - 1]
      BY <1>17
    <3>2. str + k \in from + 1 .. end /\ str + 1 + k - 1 = str + k
          /\ str + k - 1 \in str .. end - 1
      BY <1>4, <3>1
    <3>3. m[str + k - 1] = text[str + k] /\ str + k \in 1 .. L
      <4>1. str + k - 1 = (str + k) - 1
        BY <1>4, <3>1
      <4> QED
        BY <1>7, <3>2, <4>1, Zenon
    <3>4. m[str + k - 1] \notin Delim
      BY <1>4, <3>2, Zenon
    <3>5. DOMAIN text = 1 .. L
      BY <1>1
    <3> QED
      BY <3>1, <3>2, <3>3, <3>4, <3>5, Zenon
  <2>2. str + 1 + Len(w) \in DOMAIN text => text[str + 1 + Len(w)] \in Delim
    <3> SUFFICES ASSUME str + 1 + Len(w) \in DOMAIN text
                 PROVE  text[str + 1 + Len(w)] \in Delim
      OBVIOUS
    <3>1. str + 1 + Len(w) = end + 1 /\ end < L
      BY <1>1, <1>4, <1>17
    <3> QED
      BY <1>8, <3>1
  <2> QED
    BY <2>1, <2>2 DEF IsWord
<1>19. str + 1 \in Starts(text)
  <2>1. str + 1 \in 1 .. L /\ text[str + 1] = m[str]
    <3>1. str + 1 \in from + 1 .. end /\ str + 1 - 1 = str
      BY <1>4, <1>5
    <3> QED
      BY <1>7, <3>1
  <2>2. str + 1 > 1 => text[str + 1 - 1] \in Delim
    <3> SUFFICES ASSUME str + 1 > 1 PROVE text[str] \in Delim
      BY <1>4
    <3>1. CASE str = from
      BY <1>1, <1>4, <1>5, <1>6, <3>1 DEF SearchesAt, L
    <3>2. CASE str # from
      <4>1. str \in from + 1 .. end /\ str - 1 \in from .. str - 1
        BY <1>4, <3>2
      <4> QED
        BY <1>7, <4>1
    <3> QED
      BY <3>1, <3>2
  <2> QED
    BY <1>1, <2>1, <2>2 DEF Starts
(* The tokens before it. *)
<1>20. ASSUME NEW k \in 1 .. Len(kept)
       PROVE  /\ kept[k] \in Address /\ kept[k] < from
              /\ kept[k] + Len(Text(m, kept[k])) <= from
              /\ Text(m_new, kept[k]) = Text(m, kept[k])
  <2>1. k \in DOMAIN kept /\ kept[k] \in Address
    BY <1>15, LenProperties
  <2>2. kept[k] < from /\ kept[k] + Len(Text(m, kept[k])) <= from
    BY <2>1 DEF SearchesAt
  <2>3. ASSUME NEW a \in Address, a >= kept[k], a <= kept[k] + Len(Text(m, kept[k]))
        PROVE  m_new[a] = m[a]
    <3>1. Len(Text(m, kept[k])) \in Nat /\ kept[k] \in Nat /\ a \in Nat
      BY <2>1, TextType, LenProperties, AddressType
    <3>2. a # end
      BY <1>4, <1>5, <2>2, <2>3, <3>1
    <3> QED
      BY <1>13, <3>2
  <2>4. Text(m_new, kept[k]) = Text(m, kept[k])
    BY <1>12, <2>1, <2>3, TextAgrees
  <2> QED
    BY <2>1, <2>2, <2>4
<1>21. Returned(m_new, text, found)
  <2>1. DOMAIN found = 1 .. Len(kept) + 1
    BY <1>15, LenProperties
  <2> HIDE DEF found
  <2>2. ASSUME NEW j \in DOMAIN found, NEW k \in DOMAIN found, j < k
        PROVE  found[j] < found[k]
    <3>1. j \in 1 .. Len(kept) /\ found[j] = kept[j] /\ k \in Nat
      BY <1>15, <2>1, <2>2
    <3>2. CASE k \in 1 .. Len(kept)
      <4>1. found[k] = kept[k] /\ j \in DOMAIN kept /\ k \in DOMAIN kept
        BY <1>15, <3>1, <3>2, LenProperties
      <4> QED
        BY <2>2, <3>1, <4>1 DEF Returned
    <3>3. CASE k = Len(kept) + 1
      <4>1. kept[j] < from /\ kept[j] \in Nat
        BY <1>20, <3>1, AddressType
      <4> QED
        BY <1>4, <1>15, <3>1, <3>3, <4>1
    <3> QED
      BY <1>15, <2>1, <3>2, <3>3
  <2>3. ASSUME NEW k \in DOMAIN found
        PROVE  /\ found[k] + 1 \in Starts(text)
               /\ IsWord(Text(m_new, found[k]), text, found[k] + 1)
    <3>1. CASE k \in 1 .. Len(kept)
      <4>1. found[k] = kept[k] /\ k \in DOMAIN kept
        BY <1>15, <3>1, LenProperties
      <4>2. kept[k] + 1 \in Starts(text) /\ IsWord(Text(m, kept[k]), text, kept[k] + 1)
        BY <4>1 DEF Returned
      <4> QED
        BY <1>20, <3>1, <4>1, <4>2
    <3>2. CASE k = Len(kept) + 1
      BY <1>15, <1>18, <1>19, <3>2 DEF w
    <3> QED
      BY <1>15, <2>1, <3>1, <3>2
  <2> QED
    BY <2>2, <2>3 DEF Returned
<1>22. SearchesAt(m_new, text, found, next)
  <2>1. DOMAIN found = 1 .. Len(kept) + 1
    BY <1>15, LenProperties
  <2> HIDE DEF found
  <2>2. \A a \in next .. L - 1 : m_new[a] = text[a + 1]
    <3> SUFFICES ASSUME NEW a \in next .. L - 1 PROVE m_new[a] = text[a + 1]
      OBVIOUS
    <3>1. a \in Address /\ a # end /\ a \in from .. L - 1
      BY <1>1, <1>4, <1>9, <1>10 DEF Address
    <3> QED
      BY <1>3, <1>13, <3>1
  <2>3. m_new[L] = 0
    BY <1>1, <1>13, <1>14 DEF Address
  <2>4. next > 0 /\ next < L => text[next] \in Delim
    BY <1>1, <1>4, <1>8, <1>9
  <2>5. ASSUME NEW b \in Starts(text), b <= next PROVE Covers(found, b)
    <3>1. b \in 1 .. L /\ text[b] \notin Delim /\ (b > 1 => text[b - 1] \in Delim)
      BY <1>1 DEF Starts
    <3>2. CASE b <= from
      <4>1. PICK k \in DOMAIN kept : kept[k] + 1 = b
        BY <3>2 DEF SearchesAt, Covers
      <4>2. k \in 1 .. Len(kept)
        BY <4>1, LenProperties
      <4>3. k \in DOMAIN found /\ found[k] = kept[k]
        BY <1>15, <2>1, <4>2
      <4> QED
        BY <4>1, <4>3 DEF Covers
    <3>3. CASE b = str + 1
      <4>1. Len(kept) + 1 \in DOMAIN found
        BY <1>15, <2>1
      <4> QED
        BY <1>15, <3>3, <4>1 DEF Covers
    <3>4. CASE b \in from + 1 .. str
      <4>1. b \in from + 1 .. end /\ b - 1 \in from .. str - 1
        BY <1>4, <3>4
      <4>2. m[b - 1] = text[b] /\ m[b - 1] \in Delim
        BY <1>7, <4>1
      <4> QED
        BY <3>1, <4>2
    <3>5. CASE b \in str + 2 .. end
      <4>1. b - 1 \in from + 1 .. end /\ b - 1 - 1 \in str .. end - 1 /\ b > 1
        BY <1>4, <3>5
      <4>2. m[b - 1 - 1] = text[b - 1] /\ m[b - 1 - 1] \notin Delim
        BY <1>7, <4>1
      <4> QED
        BY <3>1, <4>1, <4>2
    <3>6. CASE b = end + 1
      <4>1. end < L
        BY <1>1, <1>4, <3>1, <3>6
      <4> QED
        BY <1>8, <3>1, <3>6, <4>1
    <3> QED
      BY <1>4, <1>9, <2>5, <3>1, <3>2, <3>3, <3>4, <3>5, <3>6
  <2>6. ASSUME NEW k \in DOMAIN found
        PROVE  found[k] < next /\ found[k] + Len(Text(m_new, found[k])) <= next
    <3>1. CASE k \in 1 .. Len(kept)
      <4>1. kept[k] \in Nat /\ Len(Text(m, kept[k])) \in Nat
        BY <1>20, <3>1, AddressType, TextType, LenProperties
      <4>2. /\ kept[k] < from /\ kept[k] + Len(Text(m, kept[k])) <= from
            /\ found[k] = kept[k] /\ Text(m_new, kept[k]) = Text(m, kept[k])
        BY <1>15, <1>20, <3>1
      <4>3. from <= next /\ next \in Nat
        BY <1>1, <1>4, <1>5, <1>10
      <4>4. kept[k] < next /\ kept[k] + Len(Text(m, kept[k])) <= next
        BY <1>4, <4>1, <4>2, <4>3
      <4> QED
        BY <4>2, <4>4
    <3>2. CASE k = Len(kept) + 1
      BY <1>4, <1>5, <1>10, <1>15, <1>17, <3>2 DEF w
    <3> QED
      BY <1>15, <2>1, <3>1, <3>2
  <2> QED
    BY <1>1, <1>10, <2>2, <2>3, <2>4, <2>5, <2>6 DEF SearchesAt, L, Address
<1> QED
  BY <1>10, <1>12, <1>21, <1>22

(* One call of strtok.                                                     *)
LEMMA SplitKeeps ==
  ASSUME mem \in Memory, NEW text \in Seq(1 .. 127), NEW kept \in Seq(Address),
         NEW from, SearchesAt(mem, text, kept, from), Returned(mem, text, kept),
         Split(from, kept)
  PROVE  /\ mem' \in Memory /\ last' \in Address \cup {NULL}
         /\ args' \in Seq(Address) /\ ended' \in BOOLEAN
         /\ Returned(mem', text, args')
         /\ ended' => \A b \in Starts(text) : Covers(args', b)
         /\ ~ ended' => SearchesAt(mem', text, args', last')
<1> DEFINE str == Token(from)
           end == str + strcspn(mem, str, Delim)
<1>1. from \in Address /\ from \in Nat /\ from <= Len(text) /\ Len(text) \in Nat
      /\ Len(text) \in Address
  BY LenProperties, AddressType, SizeAssumption DEF SearchesAt, Address
<1>2. /\ str \in Address /\ str \in Nat /\ from <= str
      /\ \A a \in from .. str - 1 : mem[a] # 0 /\ mem[a] \in Delim
      /\ mem[str] = 0 \/ mem[str] \notin Delim
  <2> DEFINE n == strspn(mem, from, Delim)
  <2>1. /\ n \in Nat /\ from + n \in Address
        /\ \A k \in 0 .. n - 1 : mem[from + k] # 0 /\ mem[from + k] \in Delim
        /\ mem[from + n] = 0 \/ mem[from + n] \notin Delim
    BY <1>1, strspnStops
  <2>2. str = from + n
    BY DEF Token
  <2> HIDE DEF n, str
  <2>3. ASSUME NEW a \in from .. str - 1 PROVE mem[a] # 0 /\ mem[a] \in Delim
    <3>1. a - from \in 0 .. n - 1 /\ from + (a - from) = a
      BY <1>1, <2>1, <2>2
    <3> QED
      BY <2>1, <3>1
  <2> QED
    BY <1>1, <2>1, <2>2, <2>3
<1>3. /\ end \in Address /\ end \in Nat /\ str <= end
      /\ \A a \in str .. end - 1 : mem[a] # 0 /\ mem[a] \notin Delim
      /\ mem[end] = 0 \/ mem[end] \in Delim
  <2> DEFINE n == strcspn(mem, str, Delim)
  <2>1. /\ n \in Nat /\ str + n \in Address
        /\ \A k \in 0 .. n - 1 : mem[str + k] # 0 /\ mem[str + k] \notin Delim
        /\ mem[str + n] = 0 \/ mem[str + n] \in Delim
    <3> HIDE DEF str
    <3> QED
      BY <1>2, strcspnStops
  <2>2. end = str + n
    OBVIOUS
  <2> HIDE DEF n, str, end
  <2>3. ASSUME NEW a \in str .. end - 1 PROVE mem[a] # 0 /\ mem[a] \notin Delim
    <3>1. a - str \in 0 .. n - 1 /\ str + (a - str) = a
      BY <1>2, <2>1, <2>2
    <3> QED
      BY <2>1, <3>1
  <2> QED
    BY <1>2, <2>1, <2>2, <2>3
<1>4. from # NULL
  BY <1>1, NullAssumption
<1>5. CASE mem[from] = 0
  <2>1. mem' = mem /\ last' = from /\ ended' = TRUE /\ args' = kept
    BY <1>4, <1>5, Zenon DEF Split
  <2>2. \A b \in Starts(text) : Covers(kept, b)
    <3>1. from \in from .. Len(text) /\ \A a \in from .. from - 1 : mem[a] \in Delim
      BY <1>1
    <3> QED
      BY <1>5, <3>1, NothingLeft
  <2> QED
    BY <1>1, <2>1, <2>2
<1>6. CASE mem[from] # 0 /\ mem[str] = 0
  <2>1. mem' = mem /\ last' = NULL /\ ended' = TRUE /\ args' = kept
    <3> HIDE DEF str
    <3> QED
      BY <1>4, <1>6, Zenon DEF Split, str
  <2>2. \A b \in Starts(text) : Covers(kept, b)
    <3> HIDE DEF str
    <3>1. str \in from .. Len(text)
      <4>1. ~ (Len(text) < str)
        <5> SUFFICES ASSUME Len(text) < str PROVE FALSE
          OBVIOUS
        <5>1. Len(text) \in from .. str - 1
          BY <1>1, <1>2
        <5>2. mem[Len(text)] = 0
          BY DEF SearchesAt
        <5> QED
          BY <1>2, <5>1, <5>2
      <4> QED
        BY <1>1, <1>2, <4>1
    <3>2. \A a \in from .. str - 1 : mem[a] \in Delim
      BY <1>2
    <3> QED
      BY <1>6, <3>1, <3>2, NothingLeft
  <2> QED
    BY <2>1, <2>2
<1>7. CASE mem[from] # 0 /\ mem[str] # 0
  <2> DEFINE m_new == [mem EXCEPT ![end] = 0]
             next  == IF mem[end] # 0 THEN end + 1 ELSE end
  <2>1. args' = Append(kept, str) /\ ended' = FALSE
        /\ IF mem[end] # 0 THEN mem' = m_new /\ last' = end + 1
                           ELSE mem' = mem /\ last' = end
    BY <1>4, <1>7, Zenon DEF Split
  <2> HIDE DEF str, end
  <2>2. mem' = m_new /\ last' = next
    <3>1. mem[end] = 0 => mem = m_new
      BY <1>3 DEF Memory
    <3> QED
      BY <2>1, <3>1, Zenon
  <2>3. str \in from .. Size - 1 /\ end \in str .. Size - 1
    BY <1>1, <1>2, <1>3, SizeAssumption DEF Address
  <2> HIDE DEF m_new, next
  <2>4. /\ m_new \in Memory /\ next \in Address
        /\ Returned(m_new, text, Append(kept, str))
        /\ SearchesAt(m_new, text, Append(kept, str), next)
    BY <1>2, <1>3, <1>7, <2>3, TokenIsNext DEF m_new, next
  <2>5. Append(kept, str) \in Seq(Address)
    BY <1>2, AppendProperties
  <2> QED
    BY <2>1, <2>2, <2>4, <2>5
<1> QED
  BY <1>5, <1>6, <1>7

-----------------------------------------------------------------------------
(***************************************************************************)
(* memmove: after k bytes, those k have what the source held at first, and *)
(* what is still to be read is as it was.                                  *)
(***************************************************************************)
Moves(f, m, d, s, n) ==
  f = [k \in 0 .. n |->
         IF k = 0 THEN m
         ELSE [f[k - 1] EXCEPT
                 ![d + Order(d, s, n, k)] = f[k - 1][s + Order(d, s, n, k)]]]

Done(d, s, n, k) == IF d < s THEN d .. d + k - 1 ELSE d + n - k .. d + n - 1

LEMMA MovesExist ==
  ASSUME NEW m \in [Address -> 0 .. 127], NEW d \in Address, NEW s \in Address,
         NEW n \in Address, d + n < Size, s + n <= Size
  PROVE  \E f : Moves(f, m, d, s, n)
<1> DEFINE S == [Address -> 0 .. 127]
           at(k) == Order(d, s, n, k)
           before == [k \in 1 .. n |-> k - 1]
           G == [k \in 1 .. n |-> [x \in S |-> [x EXCEPT ![d + at(k)] = x[s + at(k)]]]]
<1>1. n \in Nat
  BY AddressType
<1>2. \A k \in 1 .. n : d + at(k) \in Address /\ s + at(k) \in Address
  BY SizeAssumption DEF Address, Order
<1> HIDE DEF at
<1>3. before \in [1 .. n -> Nat] /\ \A k \in 1 .. n : before[k] < k
  BY <1>1
<1>4. G \in [1 .. n -> [S -> S]]
  <2> SUFFICES ASSUME NEW k \in 1 .. n, NEW x \in S
               PROVE  [x EXCEPT ![d + at(k)] = x[s + at(k)]] \in S
    OBVIOUS
  <2>1. x[s + at(k)] \in 0 .. 127
    BY <1>2
  <2> QED
    BY <2>1
<1>5. PICK f : Solution(f, S, m, n, before, G)
  <2> HIDE DEF G, before, S
  <2>1. m \in S
    BY DEF S
  <2>2. Recursive(S, m, n, before, G)
    BY <1>3, <1>4, <2>1 DEF Recursive
  <2> QED
    BY <1>1, <2>2, RecursionExists
<1>6. ASSUME NEW k \in 1 .. n
      PROVE  f[k] = [f[k - 1] EXCEPT ![d + at(k)] = f[k - 1][s + at(k)]]
  <2>1. k - 1 \in 0 .. n
    BY <1>1
  <2>2. before[k] = k - 1 /\ f[k - 1] \in S
    BY <1>5, <2>1 DEF Solution
  <2>3. G[k] = [x \in S |-> [x EXCEPT ![d + at(k)] = x[s + at(k)]]]
    BY <2>1
  <2>4. f[k] = G[k][f[before[k]]]
    BY <1>5 DEF Solution
  <2> HIDE DEF G, before, S
  <2> QED
    BY <2>2, <2>3, <2>4
<1>7. f = [k \in 0 .. n |->
             IF k = 0 THEN m ELSE [f[k - 1] EXCEPT ![d + at(k)] = f[k - 1][s + at(k)]]]
  <2>1. \A k \in 0 .. n :
          f[k] = IF k = 0 THEN m
                 ELSE [f[k - 1] EXCEPT ![d + at(k)] = f[k - 1][s + at(k)]]
    <3> SUFFICES ASSUME NEW k \in 0 .. n, k # 0 PROVE k \in 1 .. n
      BY <1>5, <1>6 DEF Solution
    <3> QED
      BY <1>1
  <2>2. f = [k \in 0 .. n |-> f[k]]
    BY <1>5 DEF Solution
  <2> QED
    BY <2>1, <2>2
<1> QED
  BY <1>7 DEF Moves, at

LEMMA MoveCopies ==
  ASSUME NEW m \in [Address -> 0 .. 127], NEW d \in Address, NEW s \in Address,
         NEW n \in Address, d + n < Size, s + n <= Size,
         NEW f, Moves(f, m, d, s, n)
  PROVE  f[n] = [a \in Address |-> IF a \in d .. d + n - 1 THEN m[s + a - d] ELSE m[a]]
<1> DEFINE Copied(k) ==
             [a \in Address |-> IF a \in Done(d, s, n, k) THEN m[s + a - d] ELSE m[a]]
           T == {k \in 0 .. n : f[k] = Copied(k)}
<1>1. n \in Nat /\ d \in Nat /\ s \in Nat /\ Size \in Nat
  BY AddressType, SizeAssumption
<1>2. \A k \in 0 .. n :
        f[k] = IF k = 0 THEN m
               ELSE [f[k - 1] EXCEPT
                       ![d + Order(d, s, n, k)] = f[k - 1][s + Order(d, s, n, k)]]
  BY DEF Moves
<1>3. 0 \in T
  <2>1. f[0] = m /\ 0 \in 0 .. n
    <3>1. 0 \in 0 .. n
      BY <1>1
    <3> QED
      BY <1>2, <3>1
  <2>2. Done(d, s, n, 0) = {}
    BY <1>1 DEF Done
  <2>3. m = Copied(0)
    BY <2>2
  <2> QED
    BY <2>1, <2>3
<1>4. ASSUME NEW k \in 1 .. n, k - 1 \in T PROVE k \in T
  <2> DEFINE to   == d + Order(d, s, n, k)
             old  == Done(d, s, n, k - 1)
             new  == Done(d, s, n, k)
  <2>1. f[k - 1] = Copied(k - 1)
    BY <1>4
  <2>2. k \in 0 .. n /\ k # 0
    BY <1>1
  <2>3. f[k] = [f[k - 1] EXCEPT ![to] = f[k - 1][s + to - d]]
    <3>1. s + Order(d, s, n, k) = s + to - d
      BY <1>1 DEF Order
    <3>2. f[k] = [f[k - 1] EXCEPT ![to] = f[k - 1][s + Order(d, s, n, k)]]
      BY <1>2, <2>2
    <3> HIDE DEF to
    <3> QED
      BY <3>1, <3>2
  <2>4. to \in Address /\ s + to - d \in Address /\ to \in new
        /\ s + to - d \notin old
    BY <1>1 DEF Order, Done, Address
  <2>5. \A a \in Address : a # to => (a \in new <=> a \in old)
    BY <1>1 DEF Order, Done, Address
  <2> HIDE DEF to, old, new
  <2>6. f[k - 1][s + to - d] = m[s + to - d]
    BY <2>1, <2>4 DEF old
  <2>7. Copied(k - 1) = [a \in Address |-> IF a \in old THEN m[s + a - d] ELSE m[a]]
    BY DEF old
  <2>8. Copied(k) = [a \in Address |-> IF a \in new THEN m[s + a - d] ELSE m[a]]
    BY DEF new
  <2> HIDE DEF Copied
  <2>9. f[k] = [a \in Address |-> IF a = to THEN m[s + to - d] ELSE f[k - 1][a]]
    BY <2>1, <2>3, <2>6, <2>7
  <2>10. f[k] = Copied(k)
    <3>1. \A a \in Address :
            (IF a = to THEN m[s + to - d] ELSE f[k - 1][a])
              = (IF a \in new THEN m[s + a - d] ELSE m[a])
      BY <2>1, <2>4, <2>5, <2>7
    <3> QED
      BY <2>8, <2>9, <3>1
  <2> QED
    BY <2>2, <2>10
<1>5. \A k \in 0 .. n : k \in T
  <2>1. ASSUME NEW k \in 1 .. n, \A j \in 0 .. k - 1 : j \in T PROVE k \in T
    <3>1. k - 1 \in 0 .. k - 1
      BY <1>1
    <3> QED
      BY <1>4, <2>1, <3>1
  <2>2. \A k \in 1 .. n : (\A j \in 0 .. k - 1 : j \in T) => k \in T
    BY <2>1
  <2> HIDE DEF T
  <2> QED
    BY <1>1, <1>3, <2>2, Induction
<1>6. f[n] = Copied(n)
  <2>1. n \in 0 .. n
    BY <1>1
  <2> QED
    BY <1>5, <2>1
<1>7. Done(d, s, n, n) = d .. d + n - 1
  BY <1>1 DEF Done
<1> QED
  BY <1>6, <1>7

(* What memmove leaves in the buffer.                                      *)
LEMMA MemmoveIs ==
  ASSUME mem \in [Address -> 0 .. 127], NEW d \in Address, NEW s \in Address,
         NEW n \in Address, d + n < Size, s + n <= Size, memmove(d, s, n)
  PROVE  mem' = [a \in Address |-> IF a \in d .. d + n - 1 THEN mem[s + a - d]
                                                           ELSE mem[a]]
<1> DEFINE f == CHOOSE f : Moves(f, mem, d, s, n)
<1>1. Moves(f, mem, d, s, n)
  BY MovesExist
<1>2. mem' = f[n]
  BY DEF memmove, Moves
<1> HIDE DEF f
<1> QED
  BY <1>1, <1>2, MoveCopies

-----------------------------------------------------------------------------
(***************************************************************************)
(* itoa.  The digits that its loop finds, last one first, and the numbers  *)
(* that they are when read from the front: exactly, and as atoi does.      *)
(***************************************************************************)
Half == Word \div 2

LEMMA HalfType == Half \in Nat /\ Word = 2 * Half /\ Half > 0
BY WordAssumption DEF Half

LEMMA BelowWord == \A n \in Nat : n < Word => n % Word = n
BY WordAssumption

LEMMA WrapIs ==
  /\ \A n \in Int32 : Wrap(n) = n
  /\ Wrap(Half) = - Half
<1>1. ASSUME NEW n \in Int32 PROVE Wrap(n) = n
  <2>1. n + Half \in Nat /\ n + Half < Word /\ n \in Int
    BY <1>1, HalfType DEF Int32, Half
  <2>2. (n + Half) % Word = n + Half
    BY <2>1, BelowWord
  <2>3. Wrap(n) = ((n + Half) % Word) - Half
    BY DEF Wrap, Half
  <2> QED
    BY <2>1, <2>2, <2>3, HalfType
<1>2. Wrap(Half) = - Half
  <2>1. (Half + Half) % Word = 0
    BY HalfType, WordAssumption
  <2> QED
    BY <2>1, HalfType DEF Wrap, Half
<1> QED
  BY <1>1, <1>2

Marks(base) == IF base = 10 THEN 48 .. 57 ELSE (48 .. 57) \cup (97 .. 102)

LEMMA DigitMarks ==
  ASSUME NEW base \in {10, 16}, NEW n \in 0 .. base - 1
  PROVE  /\ Digit(n) \in Marks(base) /\ DigitValue(Digit(n)) = n
         /\ base = 10 => Digit(n) - Zero = n
BY DEF Digit, DigitValue, Marks, Zero

LEMMA MarksType ==
  ASSUME NEW base \in {10, 16}
  PROVE  /\ Marks(base) \subseteq 1 .. 127
         /\ \A ch \in Marks(base) : ch \notin White \cup {Plus, Minus} /\ DigitValue(ch) \in Int
BY DEF Marks, White, Plus, Minus, DigitValue, Zero

Denotes(f, w, base) ==
  f = [n \in 0 .. Len(w) |->
         IF n = 0 THEN 0 ELSE f[n - 1] * base + DigitValue(w[n])]

Reads(f, w) ==
  f = [n \in 0 .. Len(w) |->
         IF n = 0 THEN 0 ELSE Wrap(f[n - 1] * 10 + (w[n] - Zero))]

Writes(w, n, base) ==
  /\ w \in Seq(Marks(base))
  /\ \A f : Denotes(f, w, base) => f[Len(w)] = n
  /\ base = 10 /\ n <= Half => \A f : Reads(f, w) => f[Len(w)] = Wrap(n)

(* One more digit behind.                                                  *)
LEMMA WritesOneMore ==
  ASSUME NEW base \in {10, 16}, NEW n \in Nat \ {0}, NEW w, Writes(w, n \div base, base)
  PROVE  Writes(Append(w, Digit(n % base)), n, base)
<1> DEFINE ch == Digit(n % base)
           l == Len(w)
           long == Append(w, ch)
           m == n \div base
<1>1. n % base \in 0 .. base - 1 /\ m \in Nat /\ m * base + (n % base) = n /\ m < n
      /\ (base = 10 => 10 * m <= n)
  <2>1. CASE base = 10
    BY <2>1
  <2>2. CASE base = 16
    BY <2>2
  <2> QED
    BY <2>1, <2>2
<1>2. ch \in Marks(base) /\ DigitValue(ch) = n % base
      /\ (base = 10 => ch - Zero = n % base)
  BY <1>1, DigitMarks
<1>3. w \in Seq(Marks(base))
  BY DEF Writes
<1> HIDE DEF ch
<1>4. /\ l \in Nat /\ long \in Seq(Marks(base)) /\ Len(long) = l + 1
      /\ long[l + 1] = ch /\ \A k \in 1 .. l : long[k] = w[k]
  BY <1>2, <1>3, LenProperties, AppendProperties
<1> HIDE DEF l, long, m
<1>5. ASSUME NEW f, Denotes(f, long, base) PROVE f[Len(long)] = n
  <2>1. \A k \in 0 .. l + 1 :
          f[k] = IF k = 0 THEN 0 ELSE f[k - 1] * base + DigitValue(long[k])
    BY <1>4, <1>5 DEF Denotes
  <2>2. \A k \in 1 .. l + 1 : f[k] = f[k - 1] * base + DigitValue(long[k])
    <3> SUFFICES ASSUME NEW k \in 1 .. l + 1 PROVE k \in 0 .. l + 1 /\ k # 0
      BY <2>1, Zenon
    <3> QED
      BY <1>4
  <2> DEFINE g == [k \in 0 .. l |-> f[k]]
  <2>3. \A k \in 0 .. l :
          g[k] = IF k = 0 THEN 0 ELSE g[k - 1] * base + DigitValue(w[k])
    <3> SUFFICES ASSUME NEW k \in 0 .. l
                 PROVE  g[k] = IF k = 0 THEN 0 ELSE g[k - 1] * base + DigitValue(w[k])
      OBVIOUS
    <3>1. k \in 0 .. l + 1 /\ g[k] = f[k]
      BY <1>4
    <3>2. k # 0 => g[k - 1] = f[k - 1] /\ long[k] = w[k]
      BY <1>4
    <3> HIDE DEF g
    <3> QED
      BY <2>1, <3>1, <3>2
  <2>4. g = [k \in 0 .. l |-> g[k]]
    OBVIOUS
  <2>5. g[l] = f[l]
    BY <1>4
  <2> HIDE DEF g
  <2>6. Denotes(g, w, base)
    BY <2>3, <2>4 DEF Denotes, l
  <2>7. g[l] = m
    BY <2>6 DEF Writes, l, m
  <2>8. f[l + 1] = m * base + (n % base)
    <3>1. f[l + 1] = f[l] * base + DigitValue(long[l + 1])
      <4> DEFINE x == l + 1
      <4>1. x \in 1 .. l + 1 /\ x - 1 = l
        BY <1>4
      <4> HIDE DEF x
      <4>2. f[x] = f[x - 1] * base + DigitValue(long[x])
        BY <2>2, <4>1
      <4> QED
        BY <4>1, <4>2, Zenon DEF x
    <3>2. f[l] = m
      BY <2>5, <2>7
    <3>3. DigitValue(long[l + 1]) = n % base
      BY <1>2, <1>4, Zenon
    <3> QED
      BY <3>1, <3>2, <3>3, Zenon
  <2> QED
    BY <1>1, <1>4, <2>8
<1>6. ASSUME base = 10, n <= Half, NEW f, Reads(f, long) PROVE f[Len(long)] = Wrap(n)
  <2>1. \A k \in 0 .. l + 1 :
          f[k] = IF k = 0 THEN 0 ELSE Wrap(f[k - 1] * 10 + (long[k] - Zero))
    BY <1>4, <1>6 DEF Reads
  <2>2. \A k \in 1 .. l + 1 : f[k] = Wrap(f[k - 1] * 10 + (long[k] - Zero))
    <3> SUFFICES ASSUME NEW k \in 1 .. l + 1 PROVE k \in 0 .. l + 1 /\ k # 0
      BY <2>1, Zenon
    <3> QED
      BY <1>4
  <2> DEFINE g == [k \in 0 .. l |-> f[k]]
  <2>3. \A k \in 0 .. l :
          g[k] = IF k = 0 THEN 0 ELSE Wrap(g[k - 1] * 10 + (w[k] - Zero))
    <3> SUFFICES ASSUME NEW k \in 0 .. l
                 PROVE  g[k] = IF k = 0 THEN 0 ELSE Wrap(g[k - 1] * 10 + (w[k] - Zero))
      OBVIOUS
    <3>1. k \in 0 .. l + 1 /\ g[k] = f[k]
      BY <1>4
    <3>2. k # 0 => g[k - 1] = f[k - 1] /\ long[k] = w[k]
      BY <1>4
    <3> HIDE DEF g
    <3> QED
      BY <2>1, <3>1, <3>2
  <2>4. g = [k \in 0 .. l |-> g[k]]
    OBVIOUS
  <2>5. g[l] = f[l]
    BY <1>4
  <2> HIDE DEF g
  <2>6. Reads(g, w)
    BY <2>3, <2>4 DEF Reads, l
  <2>7. m <= Half /\ m \in Int32
    BY <1>1, <1>6, HalfType DEF Int32, Half
  <2>8. g[l] = m
    <3>1. g[l] = Wrap(m)
      BY <1>6, <2>6, <2>7 DEF Writes, l, m
    <3> QED
      BY <2>7, <3>1, WrapIs
  <2>9. f[l + 1] = Wrap(m * 10 + (n % base))
    <3>1. f[l + 1] = Wrap(f[l] * 10 + (long[l + 1] - Zero))
      <4> DEFINE x == l + 1
      <4>1. x \in 1 .. l + 1 /\ x - 1 = l
        BY <1>4
      <4> HIDE DEF x
      <4>2. f[x] = Wrap(f[x - 1] * 10 + (long[x] - Zero))
        BY <2>2, <4>1
      <4> QED
        BY <4>1, <4>2, Zenon DEF x
    <3>2. f[l] = m
      BY <2>5, <2>8
    <3>3. long[l + 1] - Zero = n % base
      BY <1>2, <1>4, <1>6, Zenon
    <3> QED
      BY <3>1, <3>2, <3>3, Zenon
  <2> QED
    BY <1>1, <1>4, <1>6, <2>9
<1> QED
  BY <1>4, <1>5, <1>6 DEF Writes, long, ch

(* Nothing found yet: 0.                                                   *)
LEMMA WritesNothing == ASSUME NEW base \in {10, 16} PROVE Writes(<<>>, 0, base)
<1>1. <<>> \in Seq(Marks(base)) /\ Len(<<>>) = 0
  OBVIOUS
<1>2. ASSUME NEW f, Denotes(f, <<>>, base) PROVE f[0] = 0
  <2>1. 0 \in 0 .. Len(<<>>)
    OBVIOUS
  <2> QED
    BY <1>2, <2>1 DEF Denotes
<1>3. ASSUME NEW f, Reads(f, <<>>) PROVE f[0] = Wrap(0)
  <2>1. 0 \in 0 .. Len(<<>>)
    OBVIOUS
  <2>2. Wrap(0) = 0
    <3>1. 0 \in Int32
      BY HalfType DEF Int32, Half
    <3> QED
      BY <3>1, WrapIs
  <2> QED
    BY <1>3, <2>1, <2>2 DEF Reads
<1> QED
  BY <1>1, <1>2, <1>3 DEF Writes

LEMMA ReverseAppends ==
  ASSUME NEW S, NEW s \in Seq(S), NEW ch \in S
  PROVE  /\ Reverse(s) \in Seq(S) /\ <<ch>> \o s \in Seq(S)
         /\ Reverse(<<ch>> \o s) = Append(Reverse(s), ch)
<1> DEFINE l == Len(s)
           t == <<ch>> \o s
           r == Reverse(s)
<1>1. l \in Nat /\ s \in [1 .. l -> S]
  BY LenProperties
<1>2. <<ch>> \in Seq(S) /\ Len(<<ch>>) = 1 /\ <<ch>>[1] = ch
  OBVIOUS
<1>3. /\ t \in Seq(S) /\ Len(t) = l + 1 /\ t[1] = ch
      /\ \A k \in 2 .. l + 1 : t[k] = s[k - 1]
  <2>1. /\ t \in Seq(S) /\ Len(t) = 1 + l
        /\ \A k \in 1 .. 1 + l : t[k] = IF k <= 1 THEN <<ch>>[k] ELSE s[k - 1]
    BY <1>2, ConcatProperties
  <2> HIDE DEF t
  <2> QED
    BY <1>1, <1>2, <2>1
<1>4. r = [k \in 1 .. l |-> s[l - k + 1]]
  BY DEF Reverse
<1>5. r \in Seq(S) /\ Len(r) = l
  <2>1. \A k \in 1 .. l : s[l - k + 1] \in S
    BY <1>1
  <2> HIDE DEF l, r
  <2>2. r \in [1 .. l -> S]
    BY <1>4, <2>1
  <2> QED
    BY <1>1, <2>2 DEF l
<1>6. Reverse(t) = [k \in 1 .. l + 1 |-> t[l + 1 - k + 1]]
  BY <1>3 DEF Reverse
<1>7. Append(r, ch) \in Seq(S) /\ Len(Append(r, ch)) = l + 1
      /\ \A k \in 1 .. l + 1 : Append(r, ch)[k] = IF k = l + 1 THEN ch ELSE r[k]
  <2> HIDE DEF r, l
  <2> QED
    BY <1>1, <1>5, AppendProperties
<1>8. Append(r, ch) = [k \in 1 .. l + 1 |-> Append(r, ch)[k]]
  <2> DEFINE a == Append(r, ch)
  <2> HIDE DEF a, l
  <2>1. a \in [1 .. l + 1 -> S]
    BY <1>7, LenProperties DEF a
  <2>2. a = [k \in 1 .. l + 1 |-> a[k]]
    BY <2>1
  <2> QED
    BY <2>2 DEF a
<1>9. \A k \in 1 .. l + 1 : t[l + 1 - k + 1] = IF k = l + 1 THEN ch ELSE s[l - k + 1]
  <2> HIDE DEF t, l
  <2> SUFFICES ASSUME NEW k \in 1 .. l + 1
               PROVE  t[l + 1 - k + 1] = IF k = l + 1 THEN ch ELSE s[l - k + 1]
    OBVIOUS
  <2>1. CASE k = l + 1
    BY <1>1, <1>3, <2>1
  <2>2. CASE k # l + 1
    <3> DEFINE x == l + 1 - k + 1
    <3>1. x \in 2 .. l + 1 /\ x - 1 = l - k + 1
      BY <1>1, <2>2
    <3> HIDE DEF x
    <3>2. t[x] = s[x - 1]
      BY <1>3, <3>1
    <3>3. t[x] = s[l - k + 1]
      BY <3>1, <3>2, Zenon
    <3> QED
      BY <2>2, <3>3, Zenon DEF x
  <2> QED
    BY <2>1, <2>2
<1>10. \A k \in 1 .. l + 1 : t[l + 1 - k + 1] = Append(r, ch)[k]
  <2> SUFFICES ASSUME NEW k \in 1 .. l + 1
               PROVE  t[l + 1 - k + 1] = Append(r, ch)[k]
    OBVIOUS
  <2> HIDE DEF t
  <2>1. k # l + 1 => r[k] = s[l - k + 1]
    <3> HIDE DEF r, l
    <3>1. k # l + 1 => k \in 1 .. l
      BY <1>1
    <3> QED
      BY <1>4, <3>1
  <2> HIDE DEF r, l
  <2> QED
    BY <1>7, <1>9, <2>1
<1> HIDE DEF l, t, r
<1>11. Reverse(t) = Append(r, ch)
  BY <1>6, <1>8, <1>10
<1> QED
  BY <1>3, <1>5, <1>11 DEF t, r

(* What the loop has found when n is what was left.                        *)
Finds(f, v, base) ==
  f = [n \in 0 .. v |->
         IF n = 0 THEN <<>> ELSE <<Digit(n % base)>> \o f[n \div base]]

LEMMA Division ==
  ASSUME NEW base \in {10, 16}, NEW n \in Nat \ {0}
  PROVE  n % base \in 0 .. base - 1 /\ n \div base \in 0 .. n - 1
<1>1. CASE base = 10
  BY <1>1
<1>2. CASE base = 16
  BY <1>2
<1> QED
  BY <1>1, <1>2

LEMMA DigitsFound ==
  ASSUME NEW base \in {10, 16}, NEW v \in Nat
  PROVE  \E f : Finds(f, v, base)
<1> DEFINE S == Seq(Marks(base))
           before == [n \in 1 .. v |-> n \div base]
           G == [n \in 1 .. v |-> [w \in S |-> <<Digit(n % base)>> \o w]]
<1>1. before \in [1 .. v -> Nat] /\ \A n \in 1 .. v : before[n] < n
  <2> SUFFICES ASSUME NEW n \in 1 .. v PROVE n \div base \in Nat /\ n \div base < n
    OBVIOUS
  <2>1. n \div base \in 0 .. n - 1
    BY Division
  <2> QED
    BY <2>1
<1>2. G \in [1 .. v -> [S -> S]]
  <2> SUFFICES ASSUME NEW n \in 1 .. v, NEW w \in S
               PROVE  <<Digit(n % base)>> \o w \in S
    OBVIOUS
  <2>1. n \in Nat \ {0}
    OBVIOUS
  <2>2. Digit(n % base) \in Marks(base)
    BY <2>1, Division, DigitMarks
  <2> QED
    BY <2>2, ReverseAppends
<1>3. PICK f : Solution(f, S, <<>>, v, before, G)
  <2>1. <<>> \in S
    OBVIOUS
  <2> HIDE DEF G, before, S
  <2>2. Recursive(S, <<>>, v, before, G)
    BY <1>1, <1>2, <2>1 DEF Recursive
  <2> QED
    BY <2>2, RecursionExists
<1>4. f \in [0 .. v -> S] /\ f[0] = <<>>
  BY <1>3 DEF Solution
<1>5. ASSUME NEW n \in 1 .. v PROVE f[n] = <<Digit(n % base)>> \o f[n \div base]
  <2>1. f[n] = G[n][f[before[n]]]
    BY <1>3 DEF Solution
  <2>2. before[n] = n \div base /\ before[n] \in 0 .. v
    <3>1. before[n] \in Nat /\ before[n] < n
      BY <1>1
    <3> QED
      BY <3>1
  <2>3. f[n \div base] \in S
    BY <1>4, <2>2
  <2>4. G[n] = [w \in S |-> <<Digit(n % base)>> \o w]
    OBVIOUS
  <2> HIDE DEF G, before, S
  <2> QED
    BY <2>1, <2>2, <2>3, <2>4
<1>6. \A n \in 0 .. v :
        f[n] = IF n = 0 THEN <<>> ELSE <<Digit(n % base)>> \o f[n \div base]
  <2> SUFFICES ASSUME NEW n \in 0 .. v, n # 0 PROVE n \in 1 .. v
    BY <1>4, <1>5
  <2> QED
    OBVIOUS
<1> QED
  BY <1>4, <1>6 DEF Finds

(* What itoa writes for v, without a sign.                                 *)
LEMMA OrderedWrites ==
  ASSUME NEW base \in {10, 16}, NEW v \in Nat
  PROVE  Writes(Ordered(Digits(v, base)), v, base)
<1> DEFINE f == CHOOSE f : Finds(f, v, base)
           T == {n \in 0 .. v : f[n] \in Seq(Marks(base)) /\ Writes(Reverse(f[n]), n, base)}
<1>1. Finds(f, v, base)
  BY DigitsFound
<1>2. Digits(v, base) = f[v]
  BY DEF Digits, Finds
<1> HIDE DEF f
<1>3. \A n \in 0 .. v :
        f[n] = IF n = 0 THEN <<>> ELSE <<Digit(n % base)>> \o f[n \div base]
  BY <1>1 DEF Finds
<1>4. 0 \in T
  <2>1. 0 \in 0 .. v /\ <<>> \in Seq(Marks(base))
    OBVIOUS
  <2>2. f[0] = <<>>
    BY <1>3, <2>1
  <2>3. Reverse(<<>>) = <<>>
    BY DEF Reverse
  <2> QED
    BY <2>1, <2>2, <2>3, WritesNothing
<1>5. ASSUME NEW n \in 1 .. v, \A m \in 0 .. n - 1 : m \in T PROVE n \in T
  <2> DEFINE m == n \div base
             ch == Digit(n % base)
  <2>1. n \in 0 .. v /\ n # 0 /\ n \in Nat \ {0}
    OBVIOUS
  <2>2. m \in 0 .. n - 1 /\ ch \in Marks(base)
    BY <2>1, Division, DigitMarks
  <2>3. f[n] = <<ch>> \o f[m]
    BY <1>3, <2>1
  <2>4. m \in T
    <3> HIDE DEF T, m
    <3> QED
      BY <1>5, <2>2
  <2>5. f[m] \in Seq(Marks(base)) /\ Writes(Reverse(f[m]), m, base)
    BY <2>4
  <2> HIDE DEF ch
  <2>6. f[n] \in Seq(Marks(base)) /\ Reverse(f[n]) = Append(Reverse(f[m]), ch)
    BY <2>2, <2>3, <2>5, ReverseAppends
  <2>7. Writes(Append(Reverse(f[m]), ch), n, base)
    BY <2>1, <2>5, WritesOneMore DEF ch
  <2> QED
    BY <2>1, <2>6, <2>7
<1>6. \A n \in 0 .. v : n \in T
  <2>1. \A n \in 1 .. v : (\A m \in 0 .. n - 1 : m \in T) => n \in T
    BY <1>5
  <2> HIDE DEF T
  <2> QED
    BY <1>4, <2>1, Induction
<1>7. v \in 0 .. v
  OBVIOUS
<1>8. Writes(Reverse(f[v]), v, base)
  BY <1>6, <1>7
<1> QED
  BY <1>2, <1>8 DEF Ordered

-----------------------------------------------------------------------------
(* The parts of a numeral: the sign, and the digits of what is behind it.  *)
Negative(value, base) == value < 0 /\ base = 10

Sign(value, base) == IF Negative(value, base) THEN <<Minus>> ELSE <<>>

Tmp(value, base) == (IF Negative(value, base) THEN -value ELSE value) % Word

Behind(value, base) ==
  IF value = 0 THEN <<Zero>> ELSE Ordered(Digits(Tmp(value, base), base))

LEMMA TmpType ==
  ASSUME NEW value \in Int32, NEW base \in {10, 16}
  PROVE  /\ Tmp(value, base) \in 0 .. Word - 1
         /\ base = 10 => Tmp(value, base) = (IF value < 0 THEN -value ELSE value)
         /\ base = 16 => Tmp(value, base) = value % Word
         /\ base = 10 => Tmp(value, base) <= Half
<1>1. value \in -Half .. Half - 1 /\ value \in Int
  BY HalfType DEF Int32, Half
<1> DEFINE n == IF Negative(value, base) THEN -value ELSE value
<1>2. n \in Int /\ n % Word \in 0 .. Word - 1
  BY <1>1, WordAssumption
<1>3. Tmp(value, base) = n % Word
  BY DEF Tmp
<1>4. CASE base = 10
  <2>1. n = (IF value < 0 THEN -value ELSE value)
    BY <1>4 DEF Negative
  <2>2. n \in Nat /\ n <= Half /\ n < Word
    BY <1>1, <2>1, HalfType
  <2>3. n % Word = n
    BY <2>2, BelowWord
  <2> QED
    BY <1>2, <1>3, <1>4, <2>1, <2>2, <2>3
<1>5. CASE base = 16
  <2>1. n = value
    BY <1>5 DEF Negative
  <2> QED
    BY <1>2, <1>3, <1>5, <2>1
<1> QED
  BY <1>4, <1>5

LEMMA NumeralIs ==
  ASSUME NEW value \in Int32, NEW base \in {10, 16}
  PROVE  /\ Numeral(value, base) = Sign(value, base) \o Behind(value, base)
         /\ Writes(Behind(value, base), Tmp(value, base), base)
<1>1. CASE value = 0
  <2>1. Sign(value, base) = <<>> /\ Behind(value, base) = <<Zero>>
    BY <1>1 DEF Sign, Behind, Negative
  <2>2. <<>> \o <<Zero>> = <<Zero>>
    OBVIOUS
  <2>3. Numeral(value, base) = <<Zero>>
    BY <1>1 DEF Numeral
  <2>4. Tmp(value, base) = 0
    <3>1. 0 % Word = 0
      BY WordAssumption
    <3> QED
      BY <1>1, <3>1 DEF Tmp, Negative
  <2>5. Writes(<<Zero>>, 0, base)
    <3>1. <<Zero>> \in Seq(Marks(base)) /\ Len(<<Zero>>) = 1 /\ <<Zero>>[1] = Zero
      <4>1. Zero \in Marks(base)
        BY DEF Marks, Zero
      <4> QED
        BY <4>1
    <3>2. DigitValue(Zero) = 0 /\ Zero - Zero = 0
      BY DEF DigitValue, Zero
    <3>3. Wrap(0) = 0
      <4>1. 0 \in Int32
        BY HalfType DEF Int32, Half
      <4> QED
        BY <4>1, WrapIs
    <3>4. ASSUME NEW f, Denotes(f, <<Zero>>, base) PROVE f[1] = 0
      <4>1. f[0] = 0
        BY <3>1, <3>4 DEF Denotes
      <4>2. f[1] = f[1 - 1] * base + DigitValue(<<Zero>>[1])
        BY <3>1, <3>4 DEF Denotes
      <4>3. f[1] = 0 * base + 0
        BY <3>1, <3>2, <4>1, <4>2
      <4> QED
        BY <4>3
    <3>5. ASSUME NEW f, Reads(f, <<Zero>>) PROVE f[1] = Wrap(0)
      <4>1. f[0] = 0
        BY <3>1, <3>5 DEF Reads
      <4>2. f[1] = Wrap(f[1 - 1] * 10 + (<<Zero>>[1] - Zero))
        BY <3>1, <3>5 DEF Reads
      <4> QED
        BY <3>1, <3>2, <4>1, <4>2
    <3> QED
      BY <3>1, <3>4, <3>5 DEF Writes
  <2> QED
    BY <2>1, <2>2, <2>3, <2>4, <2>5
<1>2. CASE value # 0
  <2>1. Behind(value, base) = Ordered(Digits(Tmp(value, base), base))
    BY <1>2 DEF Behind
  <2>2. Numeral(value, base) = Sign(value, base) \o Behind(value, base)
    BY <1>2 DEF Numeral, Sign, Behind, Tmp, Negative
  <2>3. Tmp(value, base) \in Nat
    BY TmpType
  <2> QED
    BY <2>1, <2>2, <2>3, OrderedWrites
<1> QED
  BY <1>1, <1>2

LEMMA NumeralType ==
  ASSUME NEW value \in Int32, NEW base \in {10, 16}
  PROVE  Numeral(value, base) \in Seq(1 .. 127)
<1>1. Behind(value, base) \in Seq(Marks(base))
  BY NumeralIs DEF Writes
<1>2. Behind(value, base) \in Seq(1 .. 127)
  BY <1>1, MarksType, SeqMonotonic
<1>3. Sign(value, base) \in Seq(1 .. 127)
  <2>1. <<>> \in Seq(1 .. 127) /\ <<Minus>> \in Seq(1 .. 127)
    BY DEF Minus
  <2> QED
    BY <2>1, Zenon DEF Sign
<1> QED
  BY <1>2, <1>3, NumeralIs, ConcatProperties

(***************************************************************************)
(* atoi and Denoted, on a numeral in the buffer.                           *)
(***************************************************************************)
LEMMA strspnIs ==
  ASSUME NEW m \in Memory, NEW p \in Address, NEW accept,
         NEW n \in Nat, p + n \in Address,
         m[p + n] = 0 \/ m[p + n] \notin accept,
         \A k \in 0 .. n - 1 : m[p + k] # 0 /\ m[p + k] \in accept
  PROVE  strspn(m, p, accept) = n
<1> DEFINE l == strspn(m, p, accept)
<1>1. /\ l \in Nat /\ p + l \in Address
      /\ \A k \in 0 .. l - 1 : m[p + k] # 0 /\ m[p + k] \in accept
      /\ m[p + l] = 0 \/ m[p + l] \notin accept
  BY strspnStops
<1> HIDE DEF l
<1>2. ~ (l < n)
  <2> SUFFICES ASSUME l < n PROVE FALSE
    OBVIOUS
  <2>1. l \in 0 .. n - 1
    BY <1>1
  <2> QED
    BY <1>1, <2>1
<1>3. ~ (n < l)
  <2> SUFFICES ASSUME n < l PROVE FALSE
    OBVIOUS
  <2>1. n \in 0 .. l - 1
    BY <1>1
  <2> QED
    BY <1>1, <2>1
<1>4. l = n
  BY <1>1, <1>2, <1>3
<1> QED
  BY <1>4 DEF l

LEMMA ReadsExist ==
  ASSUME NEW w \in Seq(48 .. 57)
  PROVE  \E f : Reads(f, w)
<1> DEFINE l == Len(w)
           before == [k \in 1 .. l |-> k - 1]
           G == [k \in 1 .. l |-> [x \in Int |-> Wrap(x * 10 + (w[k] - Zero))]]
<1>1. l \in Nat /\ \A k \in 1 .. l : w[k] \in 48 .. 57
  BY LenProperties, ElementOfSeq
<1>2. \A x \in Int : Wrap(x) \in Int
  BY WordAssumption DEF Wrap
<1> HIDE DEF l
<1>3. before \in [1 .. l -> Nat] /\ \A k \in 1 .. l : before[k] < k
  BY <1>1
<1>4. G \in [1 .. l -> [Int -> Int]]
  <2> SUFFICES ASSUME NEW k \in 1 .. l, NEW x \in Int
               PROVE  Wrap(x * 10 + (w[k] - Zero)) \in Int
    OBVIOUS
  <2>1. x * 10 + (w[k] - Zero) \in Int
    BY <1>1 DEF Zero
  <2> QED
    BY <1>2, <2>1
<1>5. PICK f : Solution(f, Int, 0, l, before, G)
  <2> HIDE DEF G, before
  <2>1. Recursive(Int, 0, l, before, G)
    BY <1>3, <1>4 DEF Recursive
  <2> QED
    BY <1>1, <2>1, RecursionExists
<1>6. ASSUME NEW k \in 1 .. l PROVE f[k] = Wrap(f[k - 1] * 10 + (w[k] - Zero))
  <2>1. before[k] = k - 1 /\ k - 1 \in 0 .. l
    BY <1>1
  <2>2. f[k - 1] \in Int /\ f[k] = G[k][f[before[k]]]
    BY <1>5, <2>1 DEF Solution
  <2>3. G[k] = [x \in Int |-> Wrap(x * 10 + (w[k] - Zero))]
    OBVIOUS
  <2> HIDE DEF G, before
  <2> QED
    BY <2>1, <2>2, <2>3
<1>7. \A k \in 0 .. l : f[k] = IF k = 0 THEN 0 ELSE Wrap(f[k - 1] * 10 + (w[k] - Zero))
  <2> SUFFICES ASSUME NEW k \in 0 .. l, k # 0 PROVE k \in 1 .. l
    BY <1>5, <1>6 DEF Solution
  <2> QED
    BY <1>1
<1>8. f = [k \in 0 .. l |-> f[k]]
  BY <1>5 DEF Solution
<1> QED
  BY <1>7, <1>8 DEF Reads, l

LEMMA DenotesExist ==
  ASSUME NEW base \in {10, 16}, NEW w \in Seq(Marks(base))
  PROVE  \E f : Denotes(f, w, base)
<1> DEFINE l == Len(w)
           before == [k \in 1 .. l |-> k - 1]
           G == [k \in 1 .. l |-> [x \in Int |-> x * base + DigitValue(w[k])]]
<1>1. l \in Nat /\ \A k \in 1 .. l : w[k] \in Marks(base)
  BY LenProperties, ElementOfSeq
<1> HIDE DEF l
<1>2. before \in [1 .. l -> Nat] /\ \A k \in 1 .. l : before[k] < k
  BY <1>1
<1>3. G \in [1 .. l -> [Int -> Int]]
  <2> SUFFICES ASSUME NEW k \in 1 .. l, NEW x \in Int
               PROVE  x * base + DigitValue(w[k]) \in Int
    OBVIOUS
  <2>1. DigitValue(w[k]) \in Int
    BY <1>1, MarksType
  <2>2. x * base \in Int
    OBVIOUS
  <2> QED
    BY <2>1, <2>2
<1>4. PICK f : Solution(f, Int, 0, l, before, G)
  <2> HIDE DEF G, before
  <2>1. 0 \in Int
    OBVIOUS
  <2>2. Recursive(Int, 0, l, before, G)
    BY <1>2, <1>3, <2>1, Zenon DEF Recursive
  <2> QED
    BY <1>1, <2>2, RecursionExists
<1>5. ASSUME NEW k \in 1 .. l PROVE f[k] = f[k - 1] * base + DigitValue(w[k])
  <2>1. before[k] = k - 1 /\ k - 1 \in 0 .. l
    BY <1>1
  <2>2. f[k - 1] \in Int /\ f[k] = G[k][f[before[k]]]
    BY <1>4, <2>1 DEF Solution
  <2>3. G[k] = [x \in Int |-> x * base + DigitValue(w[k])]
    OBVIOUS
  <2> HIDE DEF G, before
  <2> QED
    BY <2>1, <2>2, <2>3
<1>6. \A k \in 0 .. l : f[k] = IF k = 0 THEN 0 ELSE f[k - 1] * base + DigitValue(w[k])
  <2> SUFFICES ASSUME NEW k \in 0 .. l, k # 0 PROVE k \in 1 .. l
    BY <1>4, <1>5 DEF Solution
  <2> QED
    BY <1>1
<1>7. f = [k \in 0 .. l |-> f[k]]
  BY <1>4 DEF Solution
<1> QED
  BY <1>6, <1>7 DEF Denotes, l

(* A numeral of base 16 denotes the int's bits.                            *)
LEMMA DenotedIs ==
  ASSUME NEW value \in Int32
  PROVE  Denoted(Numeral(value, 16), 16) = value % Word
<1> DEFINE w == Behind(value, 16)
           f == CHOOSE f : Denotes(f, w, 16)
<1>1. 16 \in {10, 16}
  OBVIOUS
<1>2. Numeral(value, 16) = Sign(value, 16) \o w /\ Writes(w, Tmp(value, 16), 16)
  BY <1>1, NumeralIs
<1>3. w \in Seq(Marks(16))
  BY <1>2 DEF Writes
<1> HIDE DEF w
<1>4. Numeral(value, 16) = w
  <2>1. Sign(value, 16) = <<>>
    BY DEF Sign, Negative
  <2> QED
    BY <1>2, <1>3, <2>1, ConcatEmptySeq
<1>5. Denoted(w, 16) = f[Len(w)]
  BY DEF Denoted, Denotes
<1>6. Denotes(f, w, 16)
  BY <1>1, <1>3, DenotesExist
<1> HIDE DEF f
<1>7. f[Len(w)] = Tmp(value, 16)
  BY <1>2, <1>6 DEF Writes
<1>8. Tmp(value, 16) = value % Word
  BY <1>1, TmpType
<1> QED
  BY <1>4, <1>5, <1>7, <1>8

(* No number is written without a digit.                                   *)
LEMMA BehindIsSome ==
  ASSUME NEW value \in Int32
  PROVE  Behind(value, 10) \in Seq(48 .. 57) /\ Len(Behind(value, 10)) \in Nat \ {0}
<1> DEFINE w == Behind(value, 10)
<1>1. 10 \in {10, 16}
  OBVIOUS
<1>2. Writes(w, Tmp(value, 10), 10)
  BY <1>1, NumeralIs
<1>3. w \in Seq(48 .. 57) /\ w \in Seq(Marks(10))
  BY <1>2 DEF Writes, Marks
<1>4. CASE value = 0
  <2>1. w = <<Zero>> /\ Len(<<Zero>>) = 1
    BY <1>4 DEF Behind
  <2>2. Len(w) = 1
    BY <2>1, Zenon
  <2> HIDE DEF w
  <2>3. Len(w) \in Nat \ {0}
    BY <2>2
  <2> QED
    BY <1>3, <2>3 DEF w
<1>5. CASE value # 0
  <2>1. Len(w) \in Nat
    BY <1>3, LenProperties
  <2> SUFFICES ASSUME Len(w) = 0 PROVE FALSE
    BY <1>3, <2>1
  <2> HIDE DEF w
  <2>2. PICK f : Denotes(f, w, 10)
    BY <1>1, <1>3, DenotesExist
  <2>3. f[Len(w)] = Tmp(value, 10)
    BY <1>2, <2>2 DEF Writes
  <2>4. f[0] = 0
    <3>1. 0 \in 0 .. Len(w)
      OBVIOUS
    <3> QED
      BY <2>2, <3>1 DEF Denotes
  <2>5. Tmp(value, 10) = 0
    BY <2>3, <2>4
  <2>6. Tmp(value, 10) = (IF value < 0 THEN -value ELSE value)
    BY <1>1, TmpType
  <2>7. value \in Int
    BY DEF Int32
  <2> QED
    BY <1>5, <2>5, <2>6, <2>7
<1> QED
  BY <1>4, <1>5

(* What atoi reads from p on, l digits.                                    *)
ReadsAt(f, m, p, l) ==
  f = [n \in 0 .. l |->
         IF n = 0 THEN 0 ELSE Wrap(f[n - 1] * 10 + (m[p + n - 1] - Zero))]

ReadAt(m, p) ==
  LET l == strspn(m, p, Zero .. Zero + 9)
  IN  (CHOOSE f : ReadsAt(f, m, p, l))[l]

(* It is the number that the digits there were written for.                *)
LEMMA ReadAtIs ==
  ASSUME NEW m \in Memory, NEW p \in Address, NEW n,
         NEW w \in Seq(48 .. 57), Writes(w, n, 10), n <= Half,
         p + Len(w) \in Address, m[p + Len(w)] = 0,
         \A k \in 1 .. Len(w) : m[p + k - 1] = w[k]
  PROVE  ReadAt(m, p) = Wrap(n)
<1> DEFINE l == Len(w)
           f == CHOOSE f : ReadsAt(f, m, p, l)
<1>1. l \in Nat /\ \A k \in 1 .. l : w[k] \in 48 .. 57
  BY LenProperties, ElementOfSeq
<1> HIDE DEF l
<1>2. strspn(m, p, Zero .. Zero + 9) = l
  <2>1. \A ch \in 48 .. 57 : ch # 0 /\ ch \in Zero .. Zero + 9
    BY DEF Zero
  <2>2. ASSUME NEW k \in 0 .. l - 1
        PROVE  m[p + k] # 0 /\ m[p + k] \in Zero .. Zero + 9
    <3> DEFINE j == k + 1
    <3>1. j \in 1 .. l /\ p + j - 1 = p + k
      BY <1>1, AddressType
    <3> HIDE DEF j
    <3>2. m[p + k] = w[j]
      BY <3>1 DEF l
    <3> QED
      BY <1>1, <2>1, <3>1, <3>2, Zenon
  <2>3. p + l \in Address /\ m[p + l] = 0
    BY DEF l
  <2>4. \A k \in 0 .. l - 1 : m[p + k] # 0 /\ m[p + k] \in Zero .. Zero + 9
    BY <2>2
  <2> QED
    BY <1>1, <2>3, <2>4, strspnIs
<1>3. ASSUME NEW r PROVE ReadsAt(r, m, p, l) <=> Reads(r, w)
  <2>1. \A k \in 1 .. l : m[p + k - 1] = w[k]
    BY DEF l
  <2> DEFINE A == [k \in 0 .. l |->
                    IF k = 0 THEN 0 ELSE Wrap(r[k - 1] * 10 + (m[p + k - 1] - Zero))]
             B == [k \in 0 .. l |->
                    IF k = 0 THEN 0 ELSE Wrap(r[k - 1] * 10 + (w[k] - Zero))]
  <2>2. A = B
    <3>1. ASSUME NEW k \in 0 .. l, k # 0 PROVE m[p + k - 1] = w[k]
      BY <1>1, <2>1, <3>1
    <3> QED
      BY <3>1, Zenon
  <2>3. ReadsAt(r, m, p, l) <=> r = A
    BY DEF ReadsAt
  <2>4. Reads(r, w) <=> r = B
    BY DEF Reads, l
  <2> HIDE DEF A, B
  <2> QED
    BY <2>2, <2>3, <2>4
<1>4. Reads(f, w)
  <2>1. \E r : Reads(r, w)
    BY ReadsExist
  <2>2. \E r : ReadsAt(r, m, p, l)
    BY <1>3, <2>1
  <2>3. ReadsAt(f, m, p, l)
    BY <2>2
  <2> HIDE DEF f
  <2> QED
    BY <1>3, <2>3
<1>5. ReadAt(m, p) = f[l]
  BY <1>2, Zenon DEF ReadAt
<1> HIDE DEF f
<1> QED
  BY <1>4, <1>5 DEF Writes, l

LEMMA ReadsBack ==
  ASSUME NEW m \in Memory, NEW value \in Int32, Text(m, 0) = Numeral(value, 10)
  PROVE  atoi(m, 0) = value
<1> DEFINE w == Behind(value, 10)
           n == Tmp(value, 10)
           t == Text(m, 0)
           from == IF value < 0 THEN 1 ELSE 0
           l == Len(w)
<1>1. 10 \in {10, 16} /\ 0 \in Address /\ value \in Int
  BY AddressType DEF Int32
<1>2. /\ n \in 0 .. Word - 1 /\ n <= Half
      /\ n = (IF value < 0 THEN -value ELSE value)
  BY <1>1, TmpType
<1>3. Numeral(value, 10) = Sign(value, 10) \o w /\ Writes(w, n, 10)
  BY <1>1, NumeralIs
<1>4. w \in Seq(48 .. 57) /\ l \in Nat \ {0}
  BY BehindIsSome
<1> HIDE DEF w, n
<1>5. /\ Len(t) = from + l /\ \A k \in 1 .. l : t[from + k] = w[k]
      /\ value < 0 => t[1] = Minus
  <2>1. CASE value < 0
    <3>1. t = <<Minus>> \o w
      BY <1>3, <2>1 DEF Sign, Negative
    <3>2. <<Minus>> \in Seq(Int) /\ Len(<<Minus>>) = 1 /\ <<Minus>>[1] = Minus
      BY DEF Minus
    <3>3. /\ Len(t) = 1 + l
          /\ \A k \in 1 .. 1 + l : t[k] = IF k <= 1 THEN <<Minus>>[k] ELSE w[k - 1]
      <4>1. w \in Seq(Int)
        BY <1>4, SeqMonotonic
      <4> HIDE DEF t
      <4> QED
        BY <3>1, <3>2, <4>1, ConcatProperties
    <3> HIDE DEF t, l
    <3>4. ASSUME NEW k \in 1 .. l PROVE t[1 + k] = w[k]
      <4> DEFINE j == 1 + k
      <4>1. j \in 1 .. 1 + l /\ ~ (j <= 1) /\ j - 1 = k
        BY <1>4
      <4> HIDE DEF j
      <4>2. t[j] = w[k]
        BY <3>3, <4>1
      <4> QED
        BY <4>2 DEF j
    <3>5. t[1] = Minus
      <4>1. 1 \in 1 .. 1 + l /\ 1 <= 1
        BY <1>4
      <4> QED
        BY <3>2, <3>3, <4>1
    <3> QED
      BY <2>1, <3>3, <3>4, <3>5
  <2>2. CASE ~ (value < 0)
    <3>1. t = w
      <4>1. Sign(value, 10) = <<>>
        BY <2>2 DEF Sign, Negative
      <4> QED
        BY <1>3, <1>4, <4>1, ConcatEmptySeq
    <3> HIDE DEF t
    <3>2. \A k \in 1 .. l : 0 + k = k
      OBVIOUS
    <3> QED
      BY <1>4, <2>2, <3>1, <3>2
  <2> QED
    BY <2>1, <2>2
<1>6. /\ Len(t) \in Address /\ m[Len(t)] = 0
      /\ \A k \in 1 .. Len(t) : t[k] = m[k - 1]
  <2>1. /\ 0 + Len(t) \in Address /\ m[0 + Len(t)] = 0 /\ t \in Seq(1 .. 127)
        /\ \A k \in 1 .. Len(t) : t[k] = m[0 + k - 1]
    BY <1>1, TextType
  <2> HIDE DEF t
  <2>2. Len(t) \in Nat /\ 0 + Len(t) = Len(t)
    BY <2>1, LenProperties
  <2>3. \A k \in 1 .. Len(t) : 0 + k - 1 = k - 1
    OBVIOUS
  <2> QED
    BY <2>1, <2>2, <2>3
<1>7. from \in 0 .. 1 /\ from \in Address
  <2>1. from \in 0 .. 1 /\ from \in Nat
    OBVIOUS
  <2>2. from <= Len(t) /\ Len(t) \in Address
    BY <1>4, <1>5, <1>6, <2>1
  <2> HIDE DEF t, from
  <2> QED
    BY <2>1, <2>2, SizeAssumption DEF Address
<1> HIDE DEF t, l, from
<1>8. \A k \in 1 .. l : m[from + k - 1] = w[k]
  <2> SUFFICES ASSUME NEW k \in 1 .. l PROVE m[from + k - 1] = w[k]
    OBVIOUS
  <2> DEFINE j == from + k
  <2>1. j \in 1 .. Len(t) /\ j - 1 = from + k - 1
    BY <1>4, <1>5, <1>7
  <2> HIDE DEF j
  <2>2. t[j] = m[j - 1]
    BY <1>6, <2>1
  <2>3. t[j] = w[k]
    BY <1>5 DEF j
  <2> QED
    BY <2>1, <2>2, <2>3
<1>9. /\ m[0] # 0 /\ m[0] \notin White
      /\ (m[0] \in {Minus, Plus} <=> value < 0) /\ (m[0] = Minus <=> value < 0)
  <2>1. CASE value < 0
    <3>1. t[1] = Minus /\ m[0] = t[1]
      <4>1. 1 \in 1 .. Len(t) /\ 1 - 1 = 0
        BY <1>4, <1>5, <1>7
      <4>2. t[1] = m[1 - 1]
        BY <1>6, <4>1
      <4> QED
        BY <1>5, <2>1, <4>1, <4>2
    <3> QED
      BY <2>1, <3>1 DEF Minus, Plus, White
  <2>2. CASE ~ (value < 0)
    <3>1. from = 0 /\ 1 \in 1 .. l /\ 0 + 1 - 1 = 0
      BY <1>4, <2>2 DEF from
    <3>2. m[0] = w[1]
      BY <1>8, <3>1
    <3>3. w[1] \in 48 .. 57
      BY <1>4, <3>1, ElementOfSeq DEF l
    <3>4. m[0] \in 48 .. 57
      BY <3>2, <3>3
    <3> QED
      BY <2>2, <3>4 DEF Minus, Plus, White
  <2> QED
    BY <2>1, <2>2
<1>10. strspn(m, 0, White) = 0
  <2>1. 0 + 0 \in Address /\ m[0 + 0] \notin White /\ 0 \in Nat
    BY <1>1, <1>9
  <2>2. \A k \in 0 .. 0 - 1 : m[0 + k] # 0 /\ m[0 + k] \in White
    OBVIOUS
  <2> QED
    BY <1>1, <2>1, <2>2, strspnIs
<1>11. ReadAt(m, from) = Wrap(n)
  <2>1. from + l \in Address /\ m[from + l] = 0
    BY <1>5, <1>6
  <2> QED
    BY <1>2, <1>3, <1>4, <1>7, <1>8, <2>1, ReadAtIs DEF l
<1>12. atoi(m, 0) = Wrap(IF value < 0 THEN -Wrap(n) ELSE Wrap(n))
  <2> DEFINE at == 0 + strspn(m, 0, White)
             next == IF m[at] \in {Minus, Plus} THEN at + 1 ELSE at
  <2>1. atoi(m, 0) = Wrap(IF m[at] = Minus THEN -ReadAt(m, next) ELSE ReadAt(m, next))
    BY DEF atoi, ReadAt, ReadsAt
  <2>2. at = 0 /\ 0 + 1 = 1
    BY <1>10
  <2> HIDE DEF at
  <2>3. next = from
    BY <1>9, <2>2 DEF from
  <2> HIDE DEF next
  <2> QED
    BY <1>9, <1>11, <2>1, <2>2, <2>3, Zenon
<1>13. value \in -Half .. Half - 1 /\ Half \in Nat
  BY HalfType DEF Int32, Half
<1>14. CASE n < Half
  <2>1. n \in Int32
    BY <1>2, <1>14, <1>13 DEF Int32, Half
  <2>2. Wrap(n) = n /\ Wrap(value) = value
    BY <2>1, WrapIs
  <2>3. (IF value < 0 THEN -n ELSE n) = value
    BY <1>2, <1>13
  <2> QED
    BY <1>12, <2>2, <2>3, Zenon
<1>15. CASE n = Half
  <2>1. value < 0 /\ value = -Half
    BY <1>2, <1>13, <1>15
  <2>2. Wrap(n) = -Half /\ -(-Half) = Half
    BY <1>13, <1>15, WrapIs
  <2>3. atoi(m, 0) = Wrap(-(-Half))
    BY <1>12, <2>1, <2>2, Zenon
  <2> QED
    BY <2>1, <2>2, <2>3, WrapIs
<1> QED
  BY <1>2, <1>13, <1>14, <1>15

-----------------------------------------------------------------------------
(***************************************************************************)
(* The invariant: what strtok has returned are words of the line, and the  *)
(* words that begin before the place where it goes on are among them; the  *)
(* number in the buffer stands there as itoa wrote it.                     *)
(***************************************************************************)
StrInv ==
  /\ StrTypeOK
  /\ Returned(mem, line, args)
  /\ IF ended THEN \A b \in Starts(line) : Covers(args, b)
              ELSE SearchesAt(mem, line, args, last)
  /\ number # NULL => ended /\ Text(mem, 0) = Numeral(number.value, number.base)

LEMMA StrInvMemory == StrInv <=> mem \in Memory /\ StrInv
BY DEF StrInv, StrTypeOK, Memory

LEMMA NothingReturned ==
  ASSUME NEW m, NEW text
  PROVE  Returned(m, text, <<>>) /\ Starts(<<>>) = {}
BY DEF Returned, Starts

(* An action that changes the buffer's contents.                           *)
LEMMA ForgetKeeps ==
  ASSUME StrInv, mem' \in Memory, Forget PROVE StrInv'
<1>1. /\ line' = <<>> /\ args' = <<>> /\ ended' = TRUE /\ number' = NULL /\ last' = last
      /\ last \in Address \cup {NULL}
  BY DEF Forget, StrInv, StrTypeOK
<1>2. StrTypeOK'
  <2>1. <<>> \in Seq(1 .. 127) /\ <<>> \in Seq(Address)
    OBVIOUS
  <2> QED
    BY <1>1, <2>1 DEF StrTypeOK, Memory
<1>3. Returned(mem', line', args') /\ Starts(line') = {}
  BY <1>1, NothingReturned
<1> QED
  BY <1>1, <1>2, <1>3 DEF StrInv

LEMMA strncpyKeeps ==
  ASSUME StrInv, NEW src \in Texts, strncpy(src, Size - 1) PROVE StrInv'
<1>1. mem \in [Address -> 0 .. 127] /\ mem[Size - 1] = 0
  BY DEF StrInv, StrTypeOK
<1>2. Len(src) \in Nat /\ \A k \in 1 .. Len(src) : src[k] \in 1 .. 127
  BY TextsAssumption, LenProperties, ElementOfSeq
<1> DEFINE n == Size - 1
           byte(a) == CASE a < n /\ a < Len(src)  -> src[a + 1]
                        [] a < n /\ a >= Len(src) -> 0
                        [] OTHER                  -> mem[a]
<1>3. mem' = [a \in Address |-> byte(a)]
  BY DEF strncpy
<1>4. ASSUME NEW a \in Address PROVE byte(a) \in 0 .. 127
  <2> HIDE DEF n
  <2>1. a \in Nat
    BY AddressType
  <2>2. CASE a < n /\ a < Len(src)
    <3>1. a + 1 \in 1 .. Len(src)
      BY <1>2, <2>1, <2>2
    <3> QED
      BY <1>2, <2>2, <3>1
  <2>3. CASE a < n /\ a >= Len(src)
    <3>1. ~ (a < Len(src))
      BY <1>2, <2>1, <2>3
    <3> QED
      BY <2>3, <3>1
  <2>4. CASE ~ (a < n)
    <3>1. mem[a] \in 0 .. 127
      BY <1>1
    <3> QED
      BY <2>4, <3>1
  <2>5. a < Len(src) \/ a >= Len(src)
    BY <1>2, <2>1
  <2> QED
    BY <2>2, <2>3, <2>4, <2>5
<1>5. byte(Size - 1) = 0
  <2>1. ~ (Size - 1 < n)
    BY SizeAssumption
  <2> HIDE DEF n
  <2> QED
    BY <1>1, <2>1
<1> HIDE DEF byte
<1>6. mem' \in Memory
  BY <1>3, <1>4, <1>5, AddressType DEF Memory
<1> QED
  BY <1>6, ForgetKeeps DEF strncpy

LEMMA memmoveKeeps ==
  ASSUME StrInv, NEW d \in Address, NEW s \in Address, NEW n \in Address,
         d + n < Size, s + n <= Size, memmove(d, s, n)
  PROVE  StrInv'
<1>1. mem \in [Address -> 0 .. 127] /\ mem[Size - 1] = 0
  BY DEF StrInv, StrTypeOK
<1>2. mem' = [a \in Address |-> IF a \in d .. d + n - 1 THEN mem[s + a - d] ELSE mem[a]]
  BY <1>1, MemmoveIs
<1>3. \A a \in d .. d + n - 1 : s + a - d \in Address
  BY SizeAssumption DEF Address
<1>4. Size - 1 \notin d .. d + n - 1
  BY SizeAssumption DEF Address
<1>5. mem' \in [Address -> 0 .. 127]
  <2> SUFFICES ASSUME NEW a \in Address
               PROVE  (IF a \in d .. d + n - 1 THEN mem[s + a - d] ELSE mem[a]) \in 0 .. 127
    BY <1>2
  <2> QED
    BY <1>1, <1>3
<1>6. mem'[Size - 1] = 0
  BY <1>1, <1>2, <1>4, AddressType
<1> QED
  BY <1>5, <1>6, ForgetKeeps DEF memmove, Memory

LEMMA StartsType ==
  ASSUME NEW text \in Seq(1 .. 127), NEW b \in Starts(text)
  PROVE  b \in 1 .. Len(text) /\ b \in Nat \ {0}
<1>1. b \in DOMAIN text /\ DOMAIN text = 1 .. Len(text) /\ Len(text) \in Nat
  BY LenProperties DEF Starts
<1> QED
  BY <1>1

LEMMA strtok_firstKeeps == ASSUME StrInv, strtok_first PROVE StrInv'
<1> DEFINE text == Text(mem, 0)
<1>1. mem \in Memory /\ 0 \in Address
  BY StrInvMemory, AddressType
<1>2. /\ text \in Seq(1 .. 127) /\ 0 + Len(text) \in Address /\ mem[0 + Len(text)] = 0
      /\ \A k \in 1 .. Len(text) : text[k] = mem[0 + k - 1]
  BY <1>1, TextType
<1>3. number = NULL /\ number' = NULL /\ line' = text /\ Split(0, <<>>)
  BY DEF strtok_first
<1> HIDE DEF text
<1>4. Len(text) \in Nat /\ 0 + Len(text) = Len(text)
  BY <1>2, LenProperties
<1>5. \A a \in 0 .. Len(text) - 1 : mem[a] = text[a + 1]
  <2> SUFFICES ASSUME NEW a \in 0 .. Len(text) - 1 PROVE mem[a] = text[a + 1]
    OBVIOUS
  <2> DEFINE j == a + 1
  <2>1. j \in 1 .. Len(text) /\ 0 + j - 1 = a
    BY <1>4
  <2> HIDE DEF j
  <2>2. text[j] = mem[0 + j - 1]
    BY <1>2, <2>1
  <2> QED
    BY <2>1, <2>2 DEF j
<1>6. SearchesAt(mem, text, <<>>, 0)
  <2>1. \A b \in Starts(text) : ~ (b <= 0)
    BY <1>2, StartsType
  <2>2. DOMAIN <<>> = {} /\ 0 \in 0 .. Len(text)
    BY <1>4
  <2> QED
    BY <1>2, <1>4, <1>5, <2>1, <2>2 DEF SearchesAt
<1>7. Returned(mem, text, <<>>) /\ <<>> \in Seq(Address)
  BY NothingReturned
<1>8. /\ mem' \in Memory /\ last' \in Address \cup {NULL}
      /\ args' \in Seq(Address) /\ ended' \in BOOLEAN
      /\ Returned(mem', text, args')
      /\ ended' => \A b \in Starts(text) : Covers(args', b)
      /\ ~ ended' => SearchesAt(mem', text, args', last')
  BY <1>1, <1>2, <1>3, <1>6, <1>7, SplitKeeps
<1>9. StrTypeOK'
  BY <1>2, <1>3, <1>8 DEF StrTypeOK, Memory
<1> QED
  BY <1>3, <1>8, <1>9, Zenon DEF StrInv

LEMMA strtok_nextKeeps == ASSUME StrInv, strtok_next PROVE StrInv'
<1>1. /\ mem \in Memory /\ line \in Seq(1 .. 127) /\ args \in Seq(Address)
      /\ ~ ended /\ Split(last, args) /\ line' = line /\ number' = number
  BY StrInvMemory DEF StrInv, StrTypeOK, strtok_next
<1>2. SearchesAt(mem, line, args, last) /\ Returned(mem, line, args) /\ number = NULL
  BY <1>1 DEF StrInv
<1>3. /\ mem' \in Memory /\ last' \in Address \cup {NULL}
      /\ args' \in Seq(Address) /\ ended' \in BOOLEAN
      /\ Returned(mem', line, args')
      /\ ended' => \A b \in Starts(line) : Covers(args', b)
      /\ ~ ended' => SearchesAt(mem', line, args', last')
  BY <1>1, <1>2, SplitKeeps
<1>4. StrTypeOK'
  BY <1>1, <1>2, <1>3 DEF StrTypeOK, Memory
<1> QED
  BY <1>1, <1>2, <1>3, <1>4, Zenon DEF StrInv

LEMMA itoaKeeps ==
  ASSUME StrInv, NEW value \in Int32, NEW base \in {10, 16}, itoa(value, base)
  PROVE  StrInv'
<1> DEFINE numeral == Numeral(value, base)
           n == Len(numeral)
           str == Append(numeral, 0)
<1>1. numeral \in Seq(1 .. 127) /\ n < Size
  BY NumeralType, RoomAssumption
<1>2. /\ mem' = [a \in Address |-> IF a < Len(str) THEN str[a + 1] ELSE mem[a]]
      /\ number' = [value |-> value, base |-> base]
      /\ line' = <<>> /\ args' = <<>> /\ ended' = TRUE /\ last' = last
  BY DEF itoa
<1> HIDE DEF numeral
<1>3. n \in Nat /\ \A k \in 1 .. n : numeral[k] \in 1 .. 127 /\ numeral[k] \in 0 .. 127
  BY <1>1, LenProperties, ElementOfSeq
<1>4. Len(str) = n + 1 /\ str[n + 1] = 0 /\ \A k \in 1 .. n : str[k] = numeral[k]
  <2>1. numeral \in Seq(0 .. 127) /\ 0 \in 0 .. 127
    BY <1>1, SeqMonotonic
  <2> QED
    BY <2>1, AppendProperties
<1>5. mem \in [Address -> 0 .. 127] /\ mem[Size - 1] = 0
  BY DEF StrInv, StrTypeOK
<1> HIDE DEF n, str
<1>6. ASSUME NEW a \in Address, a < n PROVE mem'[a] = numeral[a + 1] /\ mem'[a] \in 1 .. 127
  <2> DEFINE j == a + 1
  <2>1. a < n + 1 /\ j \in 1 .. n
    BY <1>3, <1>6, AddressType
  <2> HIDE DEF j
  <2>2. mem'[a] = str[j]
    BY <1>2, <1>4, <2>1 DEF j
  <2> QED
    BY <1>3, <1>4, <2>1, <2>2 DEF j
<1>7. n \in Address /\ mem'[n] = 0
  <2>1. n \in Address
    BY <1>1, <1>3, SizeAssumption DEF Address, n
  <2>2. n < n + 1
    BY <1>3
  <2> QED
    BY <1>2, <1>4, <2>1, <2>2
<1>8. ASSUME NEW a \in Address, n < a PROVE mem'[a] = mem[a]
  <2>1. ~ (a < n + 1)
    BY <1>3, <1>8, AddressType
  <2> QED
    BY <1>2, <1>4, <2>1
<1>9. mem' \in Memory
  <2>1. ASSUME NEW a \in Address PROVE mem'[a] \in 0 .. 127
    <3>1. a < n \/ a = n \/ n < a
      BY <1>3, AddressType
    <3>2. mem[a] \in 0 .. 127 /\ (mem'[a] \in 1 .. 127 => mem'[a] \in 0 .. 127)
      BY <1>5
    <3>3. 0 \in 0 .. 127
      OBVIOUS
    <3> QED
      BY <1>6, <1>7, <1>8, <3>1, <3>2, <3>3, Zenon
  <2>2. mem' = [a \in Address |-> mem'[a]]
    BY <1>2
  <2>3. mem'[Size - 1] = 0
    <3>1. Size - 1 = n \/ n < Size - 1
      BY <1>1, <1>3, SizeAssumption DEF n
    <3> QED
      BY <1>5, <1>7, <1>8, <3>1, AddressType
  <2> QED
    BY <2>1, <2>2, <2>3 DEF Memory
<1>10. Text(mem', 0) = numeral
  <2>1. 0 \in Address /\ 0 + n = n /\ \A k \in Nat : 0 + k = k /\ 0 + k - 1 = k - 1
    BY <1>3, AddressType
  <2>2. ASSUME NEW k \in 0 .. n - 1 PROVE mem'[0 + k] # 0
    <3>1. k \in Nat /\ k < n
      BY <1>3
    <3>2. k \in Address
      BY <1>7, <3>1, SizeAssumption DEF Address
    <3> QED
      BY <1>6, <2>1, <3>1, <3>2, NotTheNull
  <2>3. Text(mem', 0) = [k \in 1 .. n |-> mem'[0 + k - 1]]
    <3>1. \A m \in Memory :
            (m[0 + n] = 0 /\ \A k \in 0 .. n - 1 : m[0 + k] # 0)
              => Text(m, 0) = [k \in 1 .. n |-> m[0 + k - 1]]
      BY <1>3, <1>7, <2>1, TextIs
    <3>2. mem'[0 + n] = 0 /\ \A k \in 0 .. n - 1 : mem'[0 + k] # 0
      BY <1>7, <2>1, <2>2
    <3> QED
      BY <1>9, <3>1, <3>2
  <2>4. ASSUME NEW k \in 1 .. n PROVE mem'[0 + k - 1] = numeral[k]
    <3> DEFINE a == k - 1
    <3>1. k \in Nat /\ a \in Nat /\ a < n /\ a + 1 = k /\ 0 + k - 1 = a
      BY <1>3
    <3>2. a \in Address
      BY <1>7, <3>1, SizeAssumption DEF Address
    <3> HIDE DEF a
    <3> QED
      BY <1>6, <3>1, <3>2
  <2>5. numeral = [k \in 1 .. n |-> numeral[k]]
    BY <1>1, LenProperties DEF n
  <2>6. [k \in 1 .. n |-> mem'[0 + k - 1]] = [k \in 1 .. n |-> numeral[k]]
    BY <2>4
  <2> QED
    BY <2>3, <2>5, <2>6
<1>11. StrTypeOK'
  <2>1. <<>> \in Seq(1 .. 127) /\ <<>> \in Seq(Address) /\ last \in Address \cup {NULL}
    BY DEF StrInv, StrTypeOK
  <2> QED
    BY <1>2, <1>9, <2>1 DEF StrTypeOK, Memory
<1>12. Returned(mem', line', args') /\ Starts(line') = {}
  BY <1>2, NothingReturned
<1>13. Text(mem', 0) = Numeral(number'.value, number'.base)
  BY <1>2, <1>10 DEF numeral
<1> QED
  BY <1>2, <1>11, <1>12, <1>13 DEF StrInv

LEMMA StrInitInv == StrInit => StrInv
<1> SUFFICES ASSUME StrInit PROVE StrInv
  OBVIOUS
<1>1. /\ mem = [a \in Address |-> 0] /\ last = NULL /\ line = <<>> /\ args = <<>>
      /\ ended = TRUE /\ number = NULL
  BY DEF StrInit
<1>2. mem \in [Address -> 0 .. 127] /\ mem[Size - 1] = 0
  BY <1>1, AddressType
<1>3. line \in Seq(1 .. 127) /\ args \in Seq(Address)
  BY <1>1
<1>4. StrTypeOK
  BY <1>1, <1>2, <1>3 DEF StrTypeOK
<1>5. Returned(mem, line, args) /\ Starts(line) = {}
  BY <1>1, NothingReturned
<1> QED
  BY <1>1, <1>4, <1>5 DEF StrInv

LEMMA StrNextInv == StrInv /\ [StrNext]_StrVars => StrInv'
<1> SUFFICES ASSUME StrInv, [StrNext]_StrVars PROVE StrInv'
  OBVIOUS
<1>1. ASSUME NEW src \in Texts, strncpy(src, Size - 1) PROVE StrInv'
  BY <1>1, strncpyKeeps
<1>2. ASSUME NEW d \in Address, NEW s \in Address, NEW n \in Address,
             d + n < Size, s + n <= Size, memmove(d, s, n)
      PROVE  StrInv'
  BY <1>2, memmoveKeeps
<1>3. CASE strtok_first
  BY <1>3, strtok_firstKeeps
<1>4. CASE strtok_next
  BY <1>4, strtok_nextKeeps
<1>5. ASSUME NEW value \in Int32, NEW base \in {10, 16}, itoa(value, base) PROVE StrInv'
  BY <1>5, itoaKeeps
<1>6. CASE UNCHANGED StrVars
  BY <1>6 DEF StrVars, StrInv, StrTypeOK
<1> QED
  BY <1>1, <1>2, <1>3, <1>4, <1>5, <1>6 DEF StrNext

LEMMA StrInvTokens == StrInv => TokensAreWords
<1> SUFFICES ASSUME StrInv, NEW b \in Starts(line),
                    ended \/ \E k \in DOMAIN args : b <= args[k] + 1
             PROVE  \E k \in DOMAIN args : args[k] + 1 = b
  BY DEF StrInv, Returned, TokensAreWords
<1>1. CASE ended
  BY <1>1 DEF StrInv, Covers
<1>2. CASE ~ ended
  <2>1. PICK k \in DOMAIN args : b <= args[k] + 1
    BY <1>2
  <2>2. SearchesAt(mem, line, args, last)
    BY <1>2 DEF StrInv
  <2>3. args[k] < last /\ last \in 0 .. Len(line)
    BY <2>2 DEF SearchesAt
  <2>4. args[k] \in Nat /\ b \in Nat /\ Len(line) \in Nat
    <3>1. line \in Seq(1 .. 127) /\ args \in Seq(Address)
      BY DEF StrInv, StrTypeOK
    <3>2. args[k] \in Address
      BY <3>1, LenProperties, ElementOfSeq
    <3> QED
      BY <3>1, <3>2, AddressType, StartsType, LenProperties
  <2>5. b <= last
    BY <2>1, <2>3, <2>4
  <2> QED
    BY <2>2, <2>5 DEF SearchesAt, Covers
<1> QED
  BY <1>1, <1>2

LEMMA StrInvNumbers == StrInv => NumbersReadBack
<1> SUFFICES ASSUME StrInv, number # NULL
             PROVE  IF number.base = 10 THEN atoi(mem, 0) = number.value
                    ELSE Denoted(Text(mem, 0), 16) = number.value % Word
  BY DEF NumbersReadBack
<1>1. mem \in Memory /\ number.value \in Int32 /\ number.base \in {10, 16}
  BY StrInvMemory DEF StrInv, StrTypeOK
<1>2. Text(mem, 0) = Numeral(number.value, number.base)
  BY DEF StrInv
<1>3. CASE number.base = 10
  BY <1>1, <1>2, <1>3, ReadsBack
<1>4. CASE number.base # 10
  BY <1>1, <1>2, <1>4, DenotedIs
<1> QED
  BY <1>3, <1>4

(***************************************************************************)
(* No function of string.c writes past the buffer it was given, or another *)
(* byte than a character: for every size, set of lines and width of int.   *)
(***************************************************************************)
THEOREM StrTypeCorrect == StrSpec => []StrTypeOK
<1>1. StrInv => StrTypeOK
  BY DEF StrInv
<1> QED
  BY <1>1, StrInitInv, StrNextInv, PTL DEF StrSpec

(***************************************************************************)
(* strtok (lines 143-164) returns the words of the line, in order and with *)
(* none left out, however many of them its caller takes.                   *)
(***************************************************************************)
THEOREM StrTokens == StrSpec => []TokensAreWords
BY StrInitInv, StrNextInv, StrInvTokens, PTL DEF StrSpec

(***************************************************************************)
(* What itoa (lines 227-268) writes, atoi (lines 201-224) reads back, for  *)
(* every int of any even width and in spite of what wraps around; base 16  *)
(* denotes the bits of the int.                                            *)
(***************************************************************************)
THEOREM StrNumbers == StrSpec => []NumbersReadBack
BY StrInitInv, StrNextInv, StrInvNumbers, PTL DEF StrSpec

(***************************************************************************)
(* memmove (lines 26-44) gives the destination what the source held before *)
(* it started, whichever way the blocks overlap, and changes nothing else. *)
(***************************************************************************)
THEOREM StrMoves == StrSpec => MovesSnapshot
<1> DEFINE Snapshot ==
             \A d, s, n \in Address :
               number = NULL /\ d + n < Size /\ s + n <= Size /\ memmove(d, s, n) =>
                 mem' = [a \in Address |-> IF a \in d .. d + n - 1 THEN mem[s + a - d]
                                                                   ELSE mem[a]]
<1>1. ASSUME StrTypeOK PROVE Snapshot
  <2> SUFFICES ASSUME NEW d \in Address, NEW s \in Address, NEW n \in Address,
                      d + n < Size, s + n <= Size, memmove(d, s, n)
               PROVE  mem' = [a \in Address |-> IF a \in d .. d + n - 1 THEN mem[s + a - d]
                                                                       ELSE mem[a]]
    OBVIOUS
  <2>1. mem \in [Address -> 0 .. 127]
    BY <1>1 DEF StrTypeOK
  <2> HIDE DEF Snapshot
  <2> QED
    BY <2>1, MemmoveIs
<1>2. StrTypeOK /\ [StrNext]_StrVars => [Snapshot]_StrVars
  BY <1>1, Zenon
<1> QED
  BY <1>2, StrTypeCorrect, PTL DEF StrSpec, MovesSnapshot, Snapshot
=============================================================================
