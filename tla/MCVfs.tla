------------------------------- MODULE MCVfs -------------------------------
(* Vfs on a root with one directory that has one file, and paths of every  *)
(* kind.                                                                   *)
EXTENDS Vfs, TLC

MCChild == Root :> [d |-> "d"] @@ "d" :> [f |-> "f"]

MCPaths ==
  { [absolute |-> TRUE,  components |-> <<>>],
    [absolute |-> TRUE,  components |-> <<"f">>],
    [absolute |-> TRUE,  components |-> <<"d", "f">>],
    [absolute |-> TRUE,  components |-> <<"d", "f", "f">>],
    [absolute |-> FALSE, components |-> <<"d">>] }

MCFlags == { O_RDONLY, O_WRONLY \cup O_CREAT, O_RDWR }

MCOffsets == { -1, 0, 3 }
=============================================================================
