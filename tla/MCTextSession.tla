-------------------------- MODULE MCTextSession --------------------------
(* instance of TextSession for TLC: a screen of three short rows, so that a  *)
(* line reaches its end, and replies that scroll it or leave the position   *)
(* in the middle of a row.                                                  *)
EXTENDS TextSession

CONSTANTS a, p, o

MCGlyph == {a, p, o, "$", " "}
MCChar == {a, p}
MCPrompt == <<"$">>
MCBanner == <<o, NEWLINE>>
MCReply == {<< >>, <<o>>, <<o, NEWLINE, o, NEWLINE>>}
MCPlayLine == <<p>>
=============================================================================
