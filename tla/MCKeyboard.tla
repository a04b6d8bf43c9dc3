----------------------------- MODULE MCKeyboard -----------------------------
(* Instance of Keyboard for TLC: one key of each class, a one-event ring.  *)
EXTENDS Keyboard

CONSTANTS nul

MCLetter == {"a"}
MCSymbol == {"1"}
MCSilent == {"CTRL"}
MCNav == {"UP"}
MCGreyCode == [g \in {"GREY_UP"} |-> "UP"]
MCEditing == {"ENTER"}
=============================================================================
