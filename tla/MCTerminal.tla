------------------------------ MODULE MCTerminal ------------------------------
(* An instance of Terminal for TLC: lines of up to two characters, a ring of  *)
(* three lines, two sizes of surface and the kinds of output the commands     *)
(* have: none, text with an escape sequence and a tab, and several rows.      *)
EXTENDS Terminal, TLC

MCSizes == {<<5, 1>>, <<6, 2>>}
MCSymmetry == Permutations(Chars)
MCOutputs ==
  {<<>>,
   <<"esc", "bracket", "char", "char", "tab", "char", "newline">>,
   <<"char", "newline", "char", "newline", "esc", "bracket", "char">>}
=============================================================================
