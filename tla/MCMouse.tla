------------------------------ MODULE MCMouse ------------------------------
(* An instance of Mouse for TLC: a screen of six pixels; a step of one, one  *)
(* to the left, whose byte looks like a header, and the longest ones, whose  *)
(* bytes are 0; a left button; a wheel turned up, whose byte does too.       *)
EXTENDS Mouse

MCMotion == {<<0, 0>>, <<1, 0>>, <<-1, -BYTE>>, <<-BYTE, 1>>}
MCButtons == {0, 1}
MCWheel == {0, 15}
=============================================================================
