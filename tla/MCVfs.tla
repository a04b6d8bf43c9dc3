------------------------------- MODULE MCVfs -------------------------------
(* Instances of Vfs for TLC: room for two or three nodes beside the default *)
(* ones, and the names of the default ones to collide with.                 *)
EXTENDS Vfs

(* All the state the other calls read: the edit list is only ever written, *)
(* and the run takes it as the first path to a tree has left it.           *)
ButEdits == <<nodes, node_count, cwd, home>>

MCName == {"", "home", "redlion"}
=============================================================================
