------------------------------ MODULE FileTree ------------------------------
(***************************************************************************)
(* What a user of the file system sees: a finite tree of named files and   *)
(* directories, a current directory and a home.  Each operation touches    *)
(* the one path it names and no other, and nothing but cd moves the        *)
(* current directory, except that removing it leads home.                  *)
(* Vfs implements it as long as no removal moves a node under cwd or home. *)
(***************************************************************************)
EXTENDS Naturals, Sequences, FiniteSets

CONSTANTS
  Capacity,  \* files and directories it can hold, the root included
  SizeMax,   \* bytes a file can hold
  Name,      \* names of files and directories
  Home       \* the path of the home directory

VARIABLES
  files,    \* the tree: a function from paths, innermost name first
  current   \* path of the current directory

vars == <<files, current>>

Dir == [is_dir |-> TRUE, size |-> 0]
File == [is_dir : {FALSE}, size : 0 .. SizeMax]
Root == << >>

Dirs(tree) == {p \in DOMAIN tree : tree[p].is_dir}
Leaves(tree) == DOMAIN tree \ {Tail(p) : p \in DOMAIN tree \ {Root}}
Free(tree) == {<<name>> \o p : name \in Name, p \in Dirs(tree)} \ DOMAIN tree

Init ==
  /\ files = [p \in {Root, Tail(Home), Home} |-> Dir]
  /\ current = Home

With(tree, p, entry) == [q \in DOMAIN tree \cup {p} |-> IF q = p THEN entry ELSE tree[q]]
Without(tree, p) == [q \in DOMAIN tree \ {p} |-> tree[q]]

(* The trees with one more file or directory, and with one file rewritten. *)
Grown(tree) ==
  IF Cardinality(DOMAIN tree) < Capacity
  THEN {With(tree, p, entry) : p \in Free(tree), entry \in {Dir} \cup File}
  ELSE {}

Rewritten(tree) ==
  {[tree EXCEPT ![p] = file] : p \in DOMAIN tree \ Dirs(tree), file \in File}

Change ==
  /\ files' \in Grown(files) \cup Rewritten(files)
  /\ UNCHANGED current

Cd ==
  /\ current' \in Dirs(files)
  /\ UNCHANGED files

Remove ==
  \E p \in Leaves(files) \ {Root, Home} :
    /\ files' = Without(files, p)
    /\ current' = IF current = p THEN Home ELSE current

Next == Change \/ Cd \/ Remove

Spec == Init /\ [][Next]_vars
=============================================================================
