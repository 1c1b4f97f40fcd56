------------------------------- MODULE Strings -------------------------------
(***************************************************************************)
(* The parts of lib/string.c that do more than walk one string, on a small *)
(* buffer in memory and in the order the shell and printk use them: a line *)
(* is copied in, split by strtok, moved within the buffer by memmove; a    *)
(* number is written by itoa and read by atoi.  A character is its code.   *)
(* Init, Next and the like carry a prefix, for the module that has the     *)
(* proofs extends another component beside this one.                       *)
(***************************************************************************)
EXTENDS Integers, Sequences, SequencesExt

CONSTANTS
  Size,   \* sizeof(buffer)
  Texts,  \* the lines that are copied into it
  Delim,  \* the characters of strtok's delim
  Word,   \* how many values an int has
  NULL

ASSUME SizeAssumption == Size \in Nat \ {0}
ASSUME TextsAssumption == Texts \subseteq Seq(1 .. 127)
ASSUME DelimAssumption == Delim \subseteq 1 .. 127
ASSUME WordAssumption == Word \in Nat \ {0} /\ Word % 2 = 0

Address == 0 .. Size - 1
ASSUME NullAssumption == NULL \notin Address

Int32   == -(Word \div 2) .. Word \div 2 - 1

VARIABLES
  mem,     \* the buffer
  last,    \* strtok's static variable: where it goes on
  line,    \* history: the text that strtok was given
  args,    \* history: the tokens returned for it, as addresses
  ended,   \* history: has strtok returned NULL since?
  number   \* history: the value and base of the number in the buffer

StrVars == <<mem, last, line, args, ended, number>>

StrInit ==
  /\ mem = [a \in Address |-> 0]
  /\ last = NULL
  /\ line = <<>> /\ args = <<>> /\ ended = TRUE
  /\ number = NULL

(* The buffer gets other contents: its tokens, or its number, are gone.    *)
Forget ==
  /\ line' = <<>> /\ args' = <<>> /\ ended' = TRUE
  /\ number' = NULL
  /\ UNCHANGED last

-----------------------------------------------------------------------------
strspn(m, p, accept) ==
  CHOOSE n \in 0 .. Size - p :
    /\ \A k \in 0 .. n - 1 : m[p + k] # 0 /\ m[p + k] \in accept
    /\ m[p + n] = 0 \/ m[p + n] \notin accept

strcspn(m, p, reject) ==
  CHOOSE n \in 0 .. Size - p :
    /\ \A k \in 0 .. n - 1 : m[p + k] # 0 /\ m[p + k] \notin reject
    /\ m[p + n] = 0 \/ m[p + n] \in reject

(* The string at p.                                                        *)
Text(m, p) == [k \in 1 .. strcspn(m, p, {}) |-> m[p + k - 1]]

-----------------------------------------------------------------------------
(* A plausible bug: i <= n. *)
strncpy_OneMore(src, n) ==
  /\ mem' = [a \in Address |-> CASE a <= n /\ a < Len(src)    -> src[a + 1]
                                 [] a <= n /\ a >= Len(src)    -> 0
                                 [] OTHER                     -> mem[a]]
  /\ Forget

(* Up to n characters of src, then zeros up to n; no terminator of its own. *)
strncpy(src, n) ==
  /\ mem' = [a \in Address |-> CASE a < n /\ a < Len(src)  -> src[a + 1]
                                 [] a < n /\ a >= Len(src) -> 0
                                 [] OTHER                  -> mem[a]]
  /\ Forget

(* A plausible bug: memcpy's order, whichever way the bytes go. *)
Order_Upwards(d, s, n, k) == k - 1

(* Which byte of its n memmove copies in the k-th place.                   *)
Order(d, s, n, k) == IF d < s THEN k - 1 ELSE n - k

memmove(d, s, n) ==
  LET moved[k \in 0 .. n] ==
        IF k = 0 THEN mem
        ELSE [moved[k - 1] EXCEPT
                ![d + Order(d, s, n, k)] = moved[k - 1][s + Order(d, s, n, k)]]
  IN  mem' = moved[n] /\ Forget

-----------------------------------------------------------------------------
(* A plausible bug: leading delimiters are not skipped. *)
Token_SkipsNone(from) == from

(* Where the token starts that is looked for at from.                      *)
Token(from) == from + strspn(mem, from, Delim)

(* strtok's answer for a search that starts at from; args so far are kept. *)
Split(from, kept) ==
  LET str == Token(from)
      end == str + strcspn(mem, str, Delim)
  IN  \/ /\ from = NULL \/ mem[from] = 0
         /\ last' = from /\ ended' = TRUE /\ args' = kept
         /\ UNCHANGED mem
      \/ /\ from # NULL /\ mem[from] # 0 /\ mem[str] = 0
         /\ last' = NULL /\ ended' = TRUE /\ args' = kept
         /\ UNCHANGED mem
      \/ /\ from # NULL /\ mem[from] # 0 /\ mem[str] # 0
         /\ IF mem[end] # 0 THEN mem' = [mem EXCEPT ![end] = 0] /\ last' = end + 1
                            ELSE UNCHANGED mem /\ last' = end
         /\ args' = Append(kept, str) /\ ended' = FALSE

(* strtok(buffer, delim), and strtok(NULL, delim) until it returns NULL or *)
(* its caller has enough.                                                  *)
strtok_first ==
  /\ number = NULL
  /\ line' = Text(mem, 0)
  /\ Split(0, <<>>)
  /\ UNCHANGED number

strtok_next ==
  /\ ~ ended
  /\ Split(last, args)
  /\ UNCHANGED <<line, number>>

-----------------------------------------------------------------------------
(* An int expression, in 32 bits.                                          *)
Wrap(n) == ((n + Word \div 2) % Word) - Word \div 2

Zero  == 48
Minus == 45
Plus  == 43
White == {32, 9, 10}

Digit(n) == IF n > 9 THEN n - 10 + 97 ELSE n + Zero

(* A plausible bug: the digits stay in the order they were found. *)
Ordered_AsFound(digits) == digits

(* They come last digit first, and are reversed in place.                  *)
Ordered(digits) == Reverse(digits)

(* The digits of v that is not negative, the last one first.               *)
Digits(v, base) ==
  LET found[n \in 0 .. v] ==
        IF n = 0 THEN <<>> ELSE <<Digit(n % base)>> \o found[n \div base]
  IN  found[v]

(* -value of the least int is no int; the build's negation wraps around.   *)
Numeral(value, base) ==
  LET negative == value < 0 /\ base = 10
      tmp      == (IF negative THEN -value ELSE value) % Word
  IN  IF value = 0 THEN <<Zero>>
      ELSE (IF negative THEN <<Minus>> ELSE <<>>) \o Ordered(Digits(tmp, base))

(* itoa is not told the size of its buffer: its callers give it room.      *)
ASSUME RoomAssumption ==
  \A value \in Int32, base \in {10, 16} : Len(Numeral(value, base)) < Size

itoa(value, base) ==
  LET str == Append(Numeral(value, base), 0)
  IN  /\ mem' = [a \in Address |-> IF a < Len(str) THEN str[a + 1] ELSE mem[a]]
      /\ number' = [value |-> value, base |-> base]
      /\ line' = <<>> /\ args' = <<>> /\ ended' = TRUE
      /\ UNCHANGED last

atoi(m, p) ==
  LET at   == p + strspn(m, p, White)
      from == IF m[at] \in {Minus, Plus} THEN at + 1 ELSE at
      result[n \in 0 .. strspn(m, from, Zero .. Zero + 9)] ==
        IF n = 0 THEN 0 ELSE Wrap(result[n - 1] * 10 + (m[from + n - 1] - Zero))
      read == result[strspn(m, from, Zero .. Zero + 9)]
  IN  Wrap(IF m[at] = Minus THEN -read ELSE read)

(* A client of the library that makes any of its calls in any order, more  *)
(* than any caller in the kernel: parse_command calls strcpy and strtok    *)
(* only.  It leaves the buffer's last byte alone, as the shell's strncpy   *)
(* with sizeof - 1 does.                                                   *)
StrNext ==
  \/ \E src \in Texts : strncpy(src, Size - 1)
  \/ \E d, s, n \in Address :
       /\ number = NULL /\ d + n < Size /\ s + n <= Size
       /\ memmove(d, s, n)
  \/ strtok_first
  \/ strtok_next
  \/ \E value \in Int32, base \in {10, 16} : itoa(value, base)

StrSpec == StrInit /\ [][StrNext]_StrVars

-----------------------------------------------------------------------------
(* The last byte stays 0: no function has written past what it was given.  *)
StrTypeOK ==
  /\ mem \in [Address -> 0 .. 127] /\ mem[Size - 1] = 0
  /\ last \in Address \cup {NULL}
  /\ line \in Seq(1 .. 127)
  /\ args \in Seq(Address)
  /\ ended \in BOOLEAN
  /\ number \in [value : Int32, base : {10, 16}] \cup {NULL}

(* Where the words of a text begin, its longest runs without delimiters,   *)
(* and whether w is the one that begins at b.                              *)
Starts(text) ==
  {b \in DOMAIN text : text[b] \notin Delim /\ (b > 1 => text[b - 1] \in Delim)}

IsWord(w, text, b) ==
  /\ \A k \in DOMAIN w : b + k - 1 \in DOMAIN text /\ w[k] = text[b + k - 1]
  /\ \A k \in DOMAIN w : w[k] \notin Delim
  /\ b + Len(w) \in DOMAIN text => text[b + Len(w)] \in Delim

(***************************************************************************)
(* strtok (lines 143-164) returns the words of the line, all of them and   *)
(* in order, and leaves the ones it has returned as they are: the shell's  *)
(* parse_command keeps pointers to them while it goes on.                  *)
(***************************************************************************)
TokensAreWords ==
  /\ \A j, k \in DOMAIN args : j < k => args[j] < args[k]
  /\ \A k \in DOMAIN args :
       /\ args[k] + 1 \in Starts(line)
       /\ IsWord(Text(mem, args[k]), line, args[k] + 1)
  /\ \A b \in Starts(line) :
       ended \/ (\E k \in DOMAIN args : b <= args[k] + 1) =>
         \E k \in DOMAIN args : args[k] + 1 = b

(***************************************************************************)
(* memmove (lines 26-44) may be given blocks that overlap, either way: the *)
(* destination gets what the source held before, and nothing else changes. *)
(***************************************************************************)
MovesSnapshot ==
  [][\A d, s, n \in Address :
       number = NULL /\ d + n < Size /\ s + n <= Size /\ memmove(d, s, n) =>
         mem' = [a \in Address |-> IF a \in d .. d + n - 1 THEN mem[s + a - d]
                                                           ELSE mem[a]]]_StrVars

(* The number that a numeral denotes, in exact arithmetic.                 *)
DigitValue(ch) == IF ch >= 97 THEN ch - 97 + 10 ELSE ch - Zero

Denoted(numeral, base) ==
  LET value[n \in 0 .. Len(numeral)] ==
        IF n = 0 THEN 0 ELSE value[n - 1] * base + DigitValue(numeral[n])
  IN  value[Len(numeral)]

(***************************************************************************)
(* itoa (lines 227-268) writes every int so that atoi (lines 201-224)      *)
(* reads it back, the least one included, whose negative is no int; base   *)
(* 16 denotes the bits of the int as an unsigned number.                   *)
(***************************************************************************)
NumbersReadBack ==
  number # NULL =>
    IF number.base = 10 THEN atoi(mem, 0) = number.value
                        ELSE Denoted(Text(mem, 0), 16) = number.value % Word
=============================================================================
