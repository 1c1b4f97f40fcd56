----------------------------- MODULE CommandLog -----------------------------
(***************************************************************************)
(* What the shell's command history promises: it ends with the command     *)
(* executed last, and holds the latest HISTORY_SIZE commands before it in  *)
(* the order of their execution, where a command that repeats the one      *)
(* before it need not be listed twice.                                     *)
(***************************************************************************)
EXTENDS Integers, Sequences

CONSTANT HISTORY_SIZE

VARIABLES
  log,    \* the commands listed, oldest first
  latest  \* the command executed last; <<>> before the first

Init == log = <<>> /\ latest = <<>>

(* The log with its oldest command dropped when it has become too long.    *)
Bounded(seq) == IF Len(seq) > HISTORY_SIZE THEN Tail(seq) ELSE seq

Record == log' = Bounded(Append(log, latest'))

RepeatOnly == log # <<>> /\ latest' = log[Len(log)] /\ UNCHANGED log

Execute == Record \/ RepeatOnly

Spec == Init /\ [][Execute]_<<log, latest>>
=============================================================================
