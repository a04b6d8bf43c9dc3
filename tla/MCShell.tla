------------------------------ MODULE MCShell ------------------------------
(* Instances of Shell for TLC: lines that succeed, fail, set, read and drop *)
(* a variable, touch and remove a file, and headers, marks and ends of      *)
(* blocks, in any order.                                                    *)
EXTENDS Shell, TLC

Pwd == <<"pwd">>
TouchF == <<"touch", " ", "f">>

Blocks == {
  <<"if", " ", "[", " ", "$", "X", " ", "-eq", " ", "1", " ", "]">>,
  <<"if", " ", "echo", " ", "a", " ", ">", ">", " ", "f">>,
  <<"if", " ", "ls", " ", "f">>,
  <<"while", " ", "rm", " ", "f">>,
  <<"for", " ", "X", " ", "in", " ", "1", " ", "$", "X">>,
  <<"then">>, <<"else">>, <<"fi">>, <<"done">> }

MCChain ==
  LET c(words, op) == [argv |-> words, op |-> op]
  IN  {<<c(<<RmArg, <<"f">>>>, a), c(<<Pwd>>, b), c(<<<<"touch">>, <<"f">>>>, << >>)>>
         : a \in {AND, OR}, b \in {AND, OR}, RmArg \in {<<"rm">>, <<"ls">>}}

MCInput == Blocks \cup {TypedChain(c) : c \in MCChain}
  \cup {Pwd, TouchF, <<"unset", " ", "Y">>, <<"X", "=", "1">>, <<"export", " ", "Y", "=", "$", "X">>,
        <<"taskmgr", " ", "x", " ", "|", "|", " ", "shutdown">>,
        <<"echo", " ", "a", " ", "\"", "|", "\"", " ", "cat">> }

MCLexeme == UNION {Range(line) : line \in MCInput} \cup {"USER", "HOSTNAME", "redlion"}

MCNumber == (<<"1">> :> 1) @@ (<<"2">> :> 2)
=============================================================================
