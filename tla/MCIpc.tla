------------------------------- MODULE MCIpc -------------------------------
(* An instance of Ipc for TLC: three slots of the process table, programs   *)
(* that make every call, and one port of two messages.                      *)
EXTENDS Ipc

CONSTANTS null, m, n

MCPort == {1}
MCMsg == {m}
MCAllCalls == Call
=============================================================================
