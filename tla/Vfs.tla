-------------------------------- MODULE Vfs --------------------------------
(***************************************************************************)
(* The file system in memory of servers/vfs.c: an array of nodes, each     *)
(* with the index of its parent, the indices of two special directories,   *)
(* and the list of files edited in the session.                            *)
(*                                                                         *)
(* One program uses it at a time (the shell), so a call is one step; calls *)
(* that answer with an error change nothing and are no step.  A path is    *)
(* taken for the node it resolves to, contents for their length, and an    *)
(* entry of the edit list for its path; its action and its count are only  *)
(* printed.  Slots past node_count keep what they held, and stale indices  *)
(* read it.                                                                *)
(***************************************************************************)
EXTENDS Integers, Sequences

CONSTANTS
  MAX_NODES,    \* VFS_MAX_NODES, 64 in the code
  CONTENT_MAX,  \* VFS_CONTENT_MAX, 512 bytes in the code
  EDIT_MAX,     \* VFS_EDIT_MAX, 16 in the code
  DEPTH_MAX,    \* components vfs_node_path() can print, 16 in the code
  Name,         \* names of files and directories
  RmAnywhere    \* vfs_rm() is called on nodes before cwd or home, too

NoName == ""   \* of the root

ASSUME VfsAssumption ==
  /\ MAX_NODES \in Nat /\ MAX_NODES >= 3
  /\ CONTENT_MAX \in Nat
  /\ EDIT_MAX \in Nat \ {0}
  /\ DEPTH_MAX \in Nat \ {0}
  /\ RmAnywhere \in BOOLEAN
ASSUME NamesAssumption == {NoName, "home", "redlion"} \subseteq Name

VARIABLES
  nodes, node_count,
  cwd,        \* current directory
  home,       \* what ~ stands for
  edit_log    \* paths edited, in the order they entered the list

vars == <<nodes, node_count, cwd, home, edit_log>>

Slot == 0 .. MAX_NODES - 1
Used == 0 .. node_count - 1
Node == [name : Name, parent : -1 .. MAX_NODES - 1, is_dir : BOOLEAN, size : 0 .. CONTENT_MAX]
Directory(name, parent) == [name |-> name, parent |-> parent, is_dir |-> TRUE, size |-> 0]

(* vfs_init() with the nodes that the rest depends on: the root, /home and *)
(* the home directory.  The other default nodes are made by the same calls *)
(* and can all be removed again.                                           *)
Init ==
  /\ nodes = [i \in Slot |->
       CASE i = 0 -> Directory(NoName, -1)
         [] i = 1 -> Directory("home", 0)
         [] i = 2 -> Directory("redlion", 1)
         [] OTHER -> [name |-> NoName, parent |-> 0, is_dir |-> FALSE, size |-> 0]]
  /\ node_count = 3
  /\ cwd = 2
  /\ home = 2
  /\ edit_log = << >>

(* What a path can lead to: any node of the tree from the root, and, with  *)
(* no component, ".", ".." or "~", the special directories wherever they   *)
(* point.                                                                  *)
Parent(i) == IF nodes[i].parent < 0 THEN 0 ELSE nodes[i].parent
Resolvable == Used \cup {cwd, home, Parent(cwd), Parent(home)}

Children(p, name) == {i \in Used : nodes[i].parent = p /\ nodes[i].name = name}
Exists(p, name) == Children(p, name) # {}

(***************************************************************************)
(* vfs_node_path(): the names from a node up to the root, at most          *)
(* DEPTH_MAX of them, last one first; step by step, for all nodes.         *)
(***************************************************************************)
Longer(path) ==
  [n \in -1 .. MAX_NODES - 1 |->
     IF n <= 0 THEN << >> ELSE <<nodes[n].name>> \o path[nodes[n].parent]]

NodePath(i) ==
  LET walk[left \in 0 .. DEPTH_MAX] ==
        IF left = 0 THEN [n \in -1 .. MAX_NODES - 1 |-> << >>] ELSE Longer(walk[left - 1])
  IN  walk[DEPTH_MAX][i]

ChildPath(p, name) == <<name>> \o NodePath(p)

(* Mutant: a full list takes no new path. *)
MutRememberEditUntilFull(path) ==
  edit_log' =
    IF Len(edit_log) = EDIT_MAX \/ \E i \in 1 .. Len(edit_log) : edit_log[i] = path
    THEN edit_log ELSE Append(edit_log, path)

(* vfs_remember_edit(): a path that is listed keeps its place; a full list *)
(* loses its first entry.                                                  *)
RememberEdit(path) ==
  edit_log' =
    IF \E i \in 1 .. Len(edit_log) : edit_log[i] = path THEN edit_log
    ELSE Append(IF Len(edit_log) < EDIT_MAX THEN edit_log ELSE Tail(edit_log), path)

(* vfs_make_node() in a directory that does not have the name yet. *)
MakeNode(name, p, is_dir, size) ==
  /\ node_count < MAX_NODES
  /\ nodes' = [nodes EXCEPT ![node_count] =
                 [name |-> name, parent |-> p, is_dir |-> is_dir, size |-> size]]
  /\ node_count' = node_count + 1
  /\ UNCHANGED <<cwd, home>>

(* Mutant: the name is looked for in the root instead of the parent. *)
MutMkdirChecksRoot(p, name) ==
  /\ p \in Resolvable /\ nodes[p].is_dir
  /\ ~Exists(0, name)
  /\ MakeNode(name, p, TRUE, 0)
  /\ UNCHANGED edit_log

Mkdir(p, name) ==
  /\ p \in Resolvable /\ nodes[p].is_dir
  /\ ~Exists(p, name)
  /\ MakeNode(name, p, TRUE, 0)
  /\ UNCHANGED edit_log

(* vfs_write_file() and vfs_touch() on a name that is not there. *)
Clip(n) == IF n < CONTENT_MAX THEN n ELSE CONTENT_MAX

CreateFile(p, name, len) ==
  /\ p \in Resolvable /\ nodes[p].is_dir
  /\ ~Exists(p, name)
  /\ MakeNode(name, p, FALSE, Clip(len))
  /\ RememberEdit(ChildPath(p, name))

(* vfs_write_file() on a file: overwritten, or appended to as far as there *)
(* is space.                                                               *)
WriteFile(i, len, append) ==
  /\ i \in Used /\ ~nodes[i].is_dir
  /\ nodes' = [nodes EXCEPT ![i].size = IF append THEN Clip(@ + len) ELSE Clip(len)]
  /\ RememberEdit(ChildPath(nodes[i].parent, nodes[i].name))
  /\ UNCHANGED <<node_count, cwd, home>>

(* vfs_touch() on a path that resolves. *)
Touch(i) ==
  /\ i \in Resolvable /\ ~nodes[i].is_dir
  /\ RememberEdit(NodePath(i))
  /\ UNCHANGED <<nodes, node_count, cwd, home>>

EditsClear ==
  /\ edit_log' = << >>
  /\ UNCHANGED <<nodes, node_count, cwd, home>>

SetCwd(i) ==
  /\ i \in Resolvable /\ nodes[i].is_dir
  /\ cwd' = i
  /\ UNCHANGED <<nodes, node_count, home, edit_log>>

(***************************************************************************)
(* vfs_rm(): later nodes move down one slot and so do the parent indices   *)
(* past the removed one.  cwd and home are only kept inside the array.     *)
(***************************************************************************)
Shifted(i) == [k \in Slot |-> IF i <= k /\ k < node_count - 1 THEN nodes[k + 1] ELSE nodes[k]]

(* Mutant: the parents are not fixed at all. *)
MutReparentedNever(i, k) == Shifted(i)[k]

Reparented(i, k) ==
  IF k < node_count - 1 /\ Shifted(i)[k].parent > i
  THEN [Shifted(i)[k] EXCEPT !.parent = @ - 1]
  ELSE Shifted(i)[k]

(* Mutant: the new number of nodes is taken for a valid index. *)
MutKeptOffByOne(i, fallback) == IF i > node_count - 1 THEN fallback ELSE i

(* An index that is outside the array once it is one node shorter. *)
Kept(i, fallback) == IF i >= node_count - 1 THEN fallback ELSE i

(* The removals that leave cwd and home on the directories they were on:   *)
(* what is removed comes behind both, or is cwd and the last node.         *)
Behind(i) == home < i /\ (cwd < i \/ (cwd = i /\ cwd = node_count - 1))

Rm(i) ==
  /\ i \in Resolvable \ {0}
  /\ RmAnywhere \/ Behind(i)
  /\ nodes[i].is_dir => \A k \in Used : nodes[k].parent # i
  /\ nodes' = [k \in Slot |-> Reparented(i, k)]
  /\ node_count' = node_count - 1
  /\ cwd' = Kept(cwd, home)
  /\ home' = Kept(home, 0)
  /\ UNCHANGED edit_log

Next ==
  \/ \E p \in Slot, name \in Name \ {NoName} : Mkdir(p, name)
  \/ \E p \in Slot, name \in Name \ {NoName}, len \in 0 .. CONTENT_MAX + 1 : CreateFile(p, name, len)
  \/ \E i \in Slot, len \in 0 .. CONTENT_MAX + 1, append \in BOOLEAN : WriteFile(i, len, append)
  \/ \E i \in Slot : Touch(i)
  \/ EditsClear
  \/ \E i \in Slot : SetCwd(i)
  \/ \E i \in Slot : Rm(i)

Spec == Init /\ [][Next]_vars

-----------------------------------------------------------------------------
TypeOK ==
  /\ nodes \in [Slot -> Node]
  /\ node_count \in 0 .. MAX_NODES
  /\ cwd \in Slot
  /\ home \in Slot
  /\ edit_log \in Seq(Seq(Name))
  /\ Len(edit_log) <= EDIT_MAX

(* Every node but the root has a parent before it, a directory.            *)
ParentsFirst ==
  /\ node_count >= 1 /\ nodes[0].parent = -1 /\ nodes[0].is_dir
  /\ \A i \in 1 .. node_count - 1 :
       /\ nodes[i].parent \in 0 .. i - 1
       /\ nodes[nodes[i].parent].is_dir

(* No file is longer than its buffer and no index leaves the array, and    *)
(* the nodes form a tree under the root: no walk up loops (vfs.c:159, 698) *)
(* and ".." always leads to the root.                                      *)
TreeOK == TypeOK /\ ParentsFirst

(* cwd and home are directories of the tree, also after the directory that *)
(* cwd is in was removed (vfs.c:624).                                      *)
PlacesOK ==
  /\ cwd \in Used /\ nodes[cwd].is_dir
  /\ home \in Used /\ nodes[home].is_dir

(* What a step other than a removal edits: a file that was not there, or  *)
(* whose entry is another than before.                                     *)
Edited ==
  {i \in 0 .. node_count' - 1 :
     /\ node_count' >= node_count /\ ~nodes'[i].is_dir
     /\ i \in Used => nodes'[i] # nodes[i]}

Lists(log, path) == \E k \in 1 .. Len(log) : log[k] = path
Spared(log) == IF Len(log) = EDIT_MAX THEN Tail(log) ELSE log

(* Every file that a step creates or changes is listed when the step is    *)
(* over, under the path it was reached by; and a list that changes, but    *)
(* for being cleared, takes one path that was not listed, at its end: the  *)
(* other entries stay as they are, down to the oldest, which goes only if  *)
(* the list is full (vfs.c:197-218).                                       *)
EditsListed ==
  [][ /\ \A i \in Edited : Lists(edit_log', ChildPath(nodes'[i].parent, nodes'[i].name))
      /\ edit_log' \notin {edit_log, << >>} =>
           \E path \in {edit_log'[Len(edit_log')]} :
             ~Lists(edit_log, path) /\ edit_log' = Append(Spared(edit_log), path) ]_vars

(* The path of each node, last name first, as long as it is.               *)
PathOf ==
  LET path[i \in Used] == IF i = 0 THEN << >> ELSE <<nodes[i].name>> \o path[nodes[i].parent]
  IN  path

(* What the array is a picture of: the entry of every path.                *)
Pictured ==
  LET path == PathOf
  IN  [p \in {path[i] : i \in Used} |->
         LET i == CHOOSE i \in Used : path[i] = p
         IN  [is_dir |-> nodes[i].is_dir, size |-> nodes[i].size]]

(* The array implements a tree of paths: each call changes the one path it *)
(* names, although vfs_rm() renumbers every node behind the removed one    *)
(* (vfs.c:611-622), and no path names two nodes.                           *)
Tree == INSTANCE FileTree
          WITH Capacity <- MAX_NODES, SizeMax <- CONTENT_MAX, Name <- Name \ {NoName},
               Home <- <<"redlion", "home">>, files <- Pictured, current <- PathOf[cwd]
IsFileTree == Tree!Spec

(* "Fix cwd/home if needed" (vfs.c:624): the removal of another node       *)
(* leaves the program in the directory it was in.                          *)
RmKeepsCwd ==
  [][ \A i \in Slot : Rm(i) /\ i \notin {cwd, home} /\ cwd \in Used =>
        NodePath(cwd)' = NodePath(cwd) ]_vars
=============================================================================
