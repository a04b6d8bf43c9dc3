----------------------------- MODULE MCKbdQueue -----------------------------
(* An instance of KbdQueue for TLC: a ring of four slots, one key without a *)
(* character and two characters, so that a torn event shows.                *)
EXTENDS KbdQueue

CONSTANTS a, b, nul

MCChar == {a, b}
MCKey == {"ENTER"}
=============================================================================
