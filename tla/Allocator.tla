----------------------------- MODULE Allocator -----------------------------
(***************************************************************************)
(* What an allocator promises its clients: every piece of memory that they *)
(* hold is their own, as large as they asked for, with the same memory     *)
(* behind it, and stays where it is until they give it back or ask for     *)
(* more.  The promise ends when memory is lost.                            *)
(***************************************************************************)
EXTENDS Integers

CONSTANTS PAGE, NOTHING

VARIABLES
  held,    \* the pieces that clients hold, by address: their sizes
  memory,  \* what is behind each page, if not NOTHING
  lost

vars == <<held, memory, lost>>

Piece(at, size) == at .. at + size - 1
Apart(h) ==
  \A p, q \in DOMAIN h : p # q => Piece(p, h[p]) \cap Piece(q, h[q]) = {}

(* Something is behind every byte of a piece.                              *)
Real(h, m) ==
  \A p \in DOMAIN h : \A x \in Piece(p, h[p]) : x \div PAGE \in DOMAIN m /\ m[x \div PAGE] # NOTHING

(* A piece that is held before and after a step has its bytes behind it.   *)
Preserved ==
  \A p \in DOMAIN held \cap DOMAIN held' : \A x \in Piece(p, held[p]) : memory'[x \div PAGE] = memory[x \div PAGE]

Without(h, at) == [p \in DOMAIN h \ {at} |-> h[p]]

Init == held = << >> /\ lost = FALSE

(* A new piece takes nothing from the pieces there are.                    *)
Grants == \E at \in DOMAIN held' \ DOMAIN held : held = Without(held', at)
Returns == \E at \in DOMAIN held : held' = Without(held, at)

(* A piece changes its size where it is, or is exchanged for another that  *)
(* did not overlap it.                                                     *)
Resizes ==
  \E at \in DOMAIN held, to \in DOMAIN held' :
    /\ Without(held, at) = Without(held', to)
    /\ to # at => to \notin DOMAIN held /\ Piece(at, held[at]) \cap Piece(to, held'[to]) = {}

Serves ==
  /\ Grants \/ Returns \/ Resizes
  /\ Apart(held') /\ Real(held', memory') /\ Preserved
  /\ UNCHANGED lost

Loses == lost' = TRUE

Next == ~lost /\ (Serves \/ Loses)

Spec == Init /\ [][Next]_vars
=============================================================================
