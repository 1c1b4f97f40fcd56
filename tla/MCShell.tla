------------------------------ MODULE MCShell ------------------------------
(* Shell with every command, aliases to define, long ones too, and 4-bit  *)
(* integers.                                                               *)
EXTENDS Shell, TLC

Bare(words) == [words |-> words, bare |-> TRUE]

MCLines ==
  {[words |-> <<"exit">>, bare |-> FALSE]} \cup
  { Bare(words) : words \in {
      <<>>, <<"exit">>, <<"help">>, <<"ls">>, <<"shutdown">>, <<"reboot">>,
      <<"ll">>, <<"bye">>, <<"f">>, <<"d">>,
      <<"cd">>, <<"cd", "d">>, <<"cd", "f">>,
      <<"alias">>, <<"alias", "bye", "exit">>, <<"alias", "bye", "ll">>,
      <<"alias", "exit", "help">>, <<"alias", "ll", "f">>,
      <<"alias", "L", "f">>, <<"alias", "Lf", "ll">>, <<"L">>, <<"Lf">>, <<"Lll">>,
      <<"set">>, <<"set", "echo", "off">>, <<"set", "echo", "on">>, <<"set", "x", "on">>,
      <<"calc">>, <<"calc", "min", "/x", "-1">>, <<"calc", "min", "%", "0">>,
      <<"calc", "min", "*", "-1">>,
      <<"cat">>, <<"cat", "/f">>, <<"cat", "f">>, <<"touch">>, <<"touch", "/">>,
      <<"write", "/f">>, <<"write", "/f", "a">>, <<"write", "/x", "a", "b", "c", "d">> } }

MCDefaultAliases ==
  << [alias |-> "ll",  command |-> <<"ls", "-l">>],
     [alias |-> "cls", command |-> <<"help">>] >>

MCWords ==
  UNION {{line.words[i] : i \in DOMAIN line.words} : line \in MCLines} \cup {"cls", "-l"}

(* L is 32 characters, and Lf and Lll the same with the command after them. *)
MCLong == {"L", "Lf", "Lll", "L..."}
MCOverlaid == [name \in MCLong |-> [w \in MCWords |->
  CASE w = "f" -> "Lf" [] w = "ll" -> "Lll" [] OTHER -> "L..."]]

(* A file and an empty directory, under the names that they stand for here. *)
MCDirectories == {Root, "d"}
MCChild == Root :> [f |-> "f", d |-> "d"] @@ "d" :> <<>>

(* "/", "/f" and "/x" are absolute, the first of them the root. *)
MCPathOf == [w \in MCWords |->
  [absolute   |-> w \in {"/", "/f", "/x"},
   components |-> CASE w = "/" -> <<>> [] w = "/f" -> <<"f">> [] w = "/x" -> <<"x">>
                    [] OTHER -> <<w>>]]

MCatoi == [w \in MCWords |-> CASE w = "min" -> -8 [] w = "-1" -> -1 [] OTHER -> 0]

MCLetter == [w \in MCWords |->
  CASE w \in {"/", "/f", "/x"} -> "/" [] w = "%" -> "%" [] OTHER -> "other"]
=============================================================================
