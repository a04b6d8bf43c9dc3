------------------------------ MODULE VfsProofs ------------------------------
(***************************************************************************)
(* For an array of any size and any names: while no node before cwd or     *)
(* home is removed, the nodes form a tree and cwd and home are directories *)
(* of it.  The two claims hold each other up: new nodes are made in cwd,   *)
(* home or their parents, so a cwd outside the tree would grow one there.  *)
(* And the list of edits holds paths, each once: what a walk up the tree   *)
(* returns is an induction over its steps.                                 *)
(***************************************************************************)
EXTENDS Vfs, TLAPS, SequenceTheorems, FiniteSetTheorems, WellFoundedInduction

(* The part of the types that indices depend on.                           *)
ArrayOK ==
  /\ nodes \in [Slot -> Node]
  /\ node_count \in 0 .. MAX_NODES
  /\ cwd \in Slot /\ home \in Slot

IInv == ArrayOK /\ ParentsFirst /\ PlacesOK

LEMMA Least ==
  ASSUME NEW S, S \subseteq Nat, S # {}
  PROVE  \E x \in S : \A y \in S : x <= y
<1> DEFINE R == OpToRel(<, Nat)
<1>1. PICK x \in S : \A y \in S : ~(<<y, x>> \in R)
  <2> HIDE DEF R
  <2>1. IsWellFoundedOn(R, Nat)
    BY NatLessThanWellFounded DEF R
  <2> QED
    BY <2>1, WFMin
<1>2. \A y \in S : ~(y < x)
  BY <1>1 DEF OpToRel
<1> QED
  BY <1>2

(* Induction up to a bound, on a set: every number up to N is in a set that *)
(* 0 is in and that is closed under one more.                              *)
LEMMA UpTo ==
  ASSUME NEW N \in Nat, NEW S, 0 \in S, \A n \in 0 .. N : n \in S /\ n < N => n + 1 \in S
  PROVE  0 .. N \subseteq S
<1> DEFINE Out == {n \in 0 .. N : n \notin S}
<1>1. SUFFICES ASSUME Out # {} PROVE FALSE
  OBVIOUS
<1>2. PICK x \in Out : \A y \in Out : x <= y
  <2>1. Out \subseteq Nat
    OBVIOUS
  <2> HIDE DEF Out
  <2> QED
    BY <1>1, <2>1, Least
<1>3. x \in 1 .. N
  OBVIOUS
<1>4. x - 1 \in S
  BY <1>2, <1>3
<1> QED
  BY <1>3, <1>4

LEMMA InitHolds == Init => IInv
<1> SUFFICES ASSUME Init PROVE IInv
  OBVIOUS
<1>1. \A i \in Slot : nodes[i] \in Node
  BY VfsAssumption, NamesAssumption DEF Init, Slot, Node, Directory
<1>2. nodes[0] = Directory(NoName, -1) /\ nodes[1] = Directory("home", 0) /\ nodes[2] = Directory("redlion", 1)
  BY VfsAssumption DEF Init, Slot
<1>3. nodes \in [Slot -> Node]
  BY <1>1 DEF Init
<1> QED
  <2>1. /\ nodes[0].parent = -1 /\ nodes[0].is_dir
        /\ nodes[1].parent = 0 /\ nodes[1].is_dir
        /\ nodes[2].parent = 1 /\ nodes[2].is_dir
    BY <1>2 DEF Directory
  <2>2. node_count = 3 /\ cwd = 2 /\ home = 2
    BY DEF Init
  <2>3. ArrayOK
    BY <1>3, <2>2, VfsAssumption DEF ArrayOK, Slot
  <2>4. \A i \in 1 .. 2 : nodes[i].parent \in 0 .. i - 1 /\ nodes[nodes[i].parent].is_dir
    BY <2>1
  <2>5. ParentsFirst
    BY <2>1, <2>2, <2>4 DEF ParentsFirst
  <2>6. PlacesOK
    BY <2>1, <2>2 DEF PlacesOK, Used
  <2> QED
    BY <2>3, <2>5, <2>6 DEF IInv

(* Every path leads into the tree.                                         *)
LEMMA PathsStayInTree ==
  ASSUME IInv, NEW i \in Resolvable
  PROVE  i \in Used
<1>1. \A k \in Used : Parent(k) \in Used
  BY VfsAssumption DEF IInv, ArrayOK, ParentsFirst, Parent, Used, Slot, Node
<1> QED
  BY <1>1 DEF Resolvable, IInv, PlacesOK

LEMMA MakeNodeKeeps ==
  ASSUME IInv, NEW name \in Name, NEW p \in Resolvable, nodes[p].is_dir,
         NEW is_dir \in BOOLEAN, NEW size \in 0 .. CONTENT_MAX, MakeNode(name, p, is_dir, size)
  PROVE  IInv'
<1>1. p \in 0 .. node_count - 1
  BY PathsStayInTree DEF Used
<1>2. node_count \in 1 .. MAX_NODES - 1
  BY VfsAssumption DEF IInv, ArrayOK, ParentsFirst, MakeNode
<1> DEFINE node == [name |-> name, parent |-> p, is_dir |-> is_dir, size |-> size]
<1>3. node \in Node /\ node.parent = p
  BY <1>1, <1>2, VfsAssumption DEF Node
<1> HIDE DEF node
<1>4. /\ nodes' = [nodes EXCEPT ![node_count] = node]
      /\ node_count' = node_count + 1
      /\ cwd' = cwd /\ home' = home
  BY DEF MakeNode, node
<1>5. node_count \in Slot /\ Used \subseteq Slot /\ Used \subseteq Used'
  BY <1>2, <1>4, VfsAssumption DEF Slot, Used
<1>6. \A k \in Used : nodes'[k] = nodes[k]
  BY <1>2, <1>4, <1>5 DEF Used, IInv, ArrayOK
<1>7. nodes'[node_count] = node
  BY <1>4, <1>5 DEF IInv, ArrayOK
<1>8. ArrayOK'
  BY <1>2, <1>3, <1>4, <1>5, VfsAssumption DEF IInv, ArrayOK
<1>9. ParentsFirst'
  <2>1. nodes'[0] = nodes[0]
    BY <1>2, <1>6 DEF Used
  <2> SUFFICES ASSUME NEW k \in 1 .. node_count
               PROVE  nodes'[k].parent \in 0 .. k - 1 /\ nodes'[nodes'[k].parent].is_dir
    BY <1>2, <1>4, <2>1, VfsAssumption DEF IInv, ParentsFirst
  <2>2. CASE k = node_count
    BY <1>1, <1>2, <1>3, <1>6, <1>7, <2>2 DEF Used
  <2>3. CASE k # node_count
    <3>1. k \in Used /\ k \in 1 .. node_count - 1
      BY <1>2, <2>3 DEF Used
    <3>2. nodes[k].parent \in 0 .. k - 1 /\ nodes[nodes[k].parent].is_dir
      BY <3>1 DEF IInv, ParentsFirst
    <3>3. nodes[k].parent \in Used
      BY <1>2, <3>1, <3>2 DEF Used
    <3> QED
      BY <1>6, <3>1, <3>2, <3>3
  <2> QED
    BY <2>2, <2>3
<1>10. PlacesOK'
  BY <1>4, <1>5, <1>6 DEF IInv, PlacesOK
<1> QED
  BY <1>8, <1>9, <1>10 DEF IInv

LEMMA WriteFileKeeps ==
  ASSUME IInv, NEW i \in Slot, NEW size \in 0 .. CONTENT_MAX,
         nodes' = [nodes EXCEPT ![i].size = size], UNCHANGED <<node_count, cwd, home>>
  PROVE  IInv'
<1>1. \A k \in Slot : /\ nodes'[k] \in Node
                      /\ nodes'[k].parent = nodes[k].parent
                      /\ nodes'[k].is_dir = nodes[k].is_dir
  BY DEF IInv, ArrayOK, Node
<1>2. ArrayOK'
  BY <1>1 DEF IInv, ArrayOK
<1>3. ParentsFirst'
  <2>1. 0 \in Slot /\ \A k \in 1 .. node_count - 1 : k \in Slot /\ 0 .. k - 1 \subseteq Slot
    BY VfsAssumption DEF IInv, ArrayOK, Slot
  <2> QED
    BY <1>1, <2>1 DEF IInv, ParentsFirst
<1>4. PlacesOK'
  BY <1>1 DEF IInv, ArrayOK, PlacesOK, Used
<1> QED
  BY <1>2, <1>3, <1>4 DEF IInv

-----------------------------------------------------------------------------
(* Where vfs_rm() finds the node that slot k holds afterwards.             *)
From(i, k) == IF i <= k THEN k + 1 ELSE k

(* Renumbering: what is in slot k afterwards is the node that was in       *)
(* From(i, k), and so is its parent.                                       *)
LEMMA Renumbering ==
  ASSUME IInv, NEW i \in 1 .. node_count - 1, NEW k \in 0 .. node_count - 2,
         nodes' = [j \in Slot |-> Reparented(i, j)]
  PROVE  /\ nodes'[k] \in Node
         /\ nodes'[k].is_dir = nodes[From(i, k)].is_dir
         /\ nodes'[k].name = nodes[From(i, k)].name
         /\ nodes'[k].size = nodes[From(i, k)].size
         /\ nodes'[k].parent = IF nodes[From(i, k)].parent > i THEN nodes[From(i, k)].parent - 1
                               ELSE nodes[From(i, k)].parent
<1>1. node_count \in 2 .. MAX_NODES /\ k \in Slot /\ From(i, k) \in Slot /\ k < node_count - 1
  BY VfsAssumption DEF IInv, ArrayOK, Slot, From
<1>2. Shifted(i)[k] = nodes[From(i, k)]
  BY <1>1 DEF Shifted, From
<1>3. nodes[From(i, k)] \in Node
  BY <1>1 DEF IInv, ArrayOK
<1>4. nodes'[k] = IF nodes[From(i, k)].parent > i
                  THEN [nodes[From(i, k)] EXCEPT !.parent = @ - 1]
                  ELSE nodes[From(i, k)]
  BY <1>1, <1>2 DEF Reparented
<1>5. nodes[From(i, k)].parent > i => nodes[From(i, k)].parent - 1 \in -1 .. MAX_NODES - 1
  <2>1. nodes[From(i, k)].parent \in -1 .. MAX_NODES - 1
    BY <1>3 DEF Node
  <2> HIDE DEF Node
  <2> QED
    BY <1>1, <2>1, VfsAssumption
<1> QED
  BY <1>3, <1>4, <1>5 DEF Node

LEMMA RmKeeps ==
  ASSUME ~RmAnywhere, IInv, NEW i \in Slot, Rm(i)
  PROVE  IInv'
<1>1. i \in 1 .. node_count - 1
  BY PathsStayInTree, VfsAssumption DEF Rm, Used, IInv, ArrayOK
<1>2. node_count \in 2 .. MAX_NODES
  BY <1>1, VfsAssumption DEF IInv, ArrayOK
<1>3. \A k \in 1 .. node_count - 1 : nodes[k].parent # i
  BY <1>1 DEF Rm, IInv, ParentsFirst, Used
<1>4. /\ nodes' = [k \in Slot |-> Reparented(i, k)]
      /\ node_count' = node_count - 1
  BY DEF Rm
<1>5. /\ home \in 0 .. i - 1 /\ home' = home
      /\ cwd' \in 0 .. i - 1 /\ cwd' \in {cwd, home}
  BY <1>1, <1>2, VfsAssumption DEF Rm, Behind, Kept, IInv, ArrayOK, PlacesOK, Used, Slot
<1>6. ArrayOK'
  <2>1. \A k \in Slot : nodes'[k] \in Node
    <3> SUFFICES ASSUME NEW k \in Slot PROVE nodes'[k] \in Node
      OBVIOUS
    <3>1. CASE k \in 0 .. node_count - 2
      BY <1>1, <1>4, <3>1, Renumbering
    <3>2. CASE k \notin 0 .. node_count - 2
      <4>1. ~(k < node_count - 1)
        BY <1>2, <3>2 DEF Slot
      <4> QED
        BY <1>4, <4>1 DEF Reparented, Shifted, IInv, ArrayOK
    <3> QED
      BY <3>1, <3>2
  <2> QED
    BY <1>1, <1>2, <1>4, <1>5, <2>1, VfsAssumption DEF ArrayOK, Slot
<1>7. ParentsFirst'
  <2>1. nodes'[0].parent = -1 /\ nodes'[0].is_dir
    BY <1>1, <1>2, <1>4, Renumbering DEF From, IInv, ParentsFirst
  <2> SUFFICES ASSUME NEW k \in 1 .. node_count - 2
               PROVE  nodes'[k].parent \in 0 .. k - 1 /\ nodes'[nodes'[k].parent].is_dir
    BY <1>2, <1>4, <2>1 DEF ParentsFirst
  <2> DEFINE old == From(i, k)
             par == nodes[old].parent
             new == IF par > i THEN par - 1 ELSE par
  <2>2. old \in 1 .. node_count - 1 /\ (i <= k => old = k + 1) /\ (k < i => old = k)
    BY <1>1, <1>2 DEF From
  <2>3. par \in 0 .. old - 1 /\ par # i /\ nodes[par].is_dir
    BY <1>3, <2>2 DEF IInv, ParentsFirst
  <2>4. nodes'[k].parent = new
    BY <1>1, <1>2, <1>4, Renumbering
  <2> HIDE DEF old, par
  <2>5. new \in 0 .. k - 1 /\ From(i, new) = par
    BY <1>1, <2>2, <2>3 DEF From
  <2>6. nodes'[new].is_dir
    BY <1>1, <1>2, <1>4, <2>3, <2>5, Renumbering
  <2> QED
    BY <2>4, <2>5, <2>6
<1>8. PlacesOK'
  <2>1. \A k \in 0 .. i - 1 : nodes'[k].is_dir = nodes[k].is_dir
    <3> TAKE k \in 0 .. i - 1
    <3>1. k \in 0 .. node_count - 2 /\ From(i, k) = k
      BY <1>1, <1>2 DEF From
    <3> QED
      BY <1>1, <1>4, <3>1, Renumbering
  <2> QED
    BY <1>1, <1>2, <1>4, <1>5, <2>1 DEF IInv, PlacesOK, Used
<1> QED
  BY <1>6, <1>7, <1>8 DEF IInv

-----------------------------------------------------------------------------
LEMMA StepKeeps == ~RmAnywhere /\ IInv /\ [Next]_vars => IInv'
<1> SUFFICES ASSUME ~RmAnywhere, IInv, [Next]_vars PROVE IInv'
  OBVIOUS
<1>1. \A n \in Nat : Clip(n) \in 0 .. CONTENT_MAX
  BY VfsAssumption DEF Clip
<1>2. ASSUME NEW p \in Slot, NEW name \in Name \ {NoName}, Mkdir(p, name) PROVE IInv'
  <2>1. p \in Resolvable /\ nodes[p].is_dir /\ MakeNode(name, p, TRUE, 0)
    BY <1>2 DEF Mkdir
  <2>2. TRUE \in BOOLEAN /\ 0 \in 0 .. CONTENT_MAX /\ name \in Name
    BY VfsAssumption
  <2> QED
    BY <2>1, <2>2, MakeNodeKeeps
<1>3. ASSUME NEW p \in Slot, NEW name \in Name \ {NoName}, NEW len \in 0 .. CONTENT_MAX + 1,
             CreateFile(p, name, len)
      PROVE  IInv'
  <2>1. p \in Resolvable /\ nodes[p].is_dir /\ MakeNode(name, p, FALSE, Clip(len))
    BY <1>3 DEF CreateFile
  <2>2. FALSE \in BOOLEAN /\ Clip(len) \in 0 .. CONTENT_MAX /\ name \in Name
    BY <1>1, VfsAssumption
  <2> QED
    BY <2>1, <2>2, MakeNodeKeeps
<1>4. ASSUME NEW i \in Slot, NEW len \in 0 .. CONTENT_MAX + 1, NEW append \in BOOLEAN,
             WriteFile(i, len, append)
      PROVE  IInv'
  <2>1. nodes[i].size \in Nat
    BY VfsAssumption DEF IInv, ArrayOK, Node
  <2> DEFINE size == IF append THEN Clip(nodes[i].size + len) ELSE Clip(len)
  <2>2. size \in 0 .. CONTENT_MAX
    BY <1>1, <2>1, VfsAssumption
  <2>3. nodes' = [nodes EXCEPT ![i].size = size]
    BY <1>4 DEF WriteFile
  <2> QED
    BY <1>4, <2>2, <2>3, WriteFileKeeps DEF WriteFile
<1>5. ASSUME NEW i \in Slot, SetCwd(i) PROVE IInv'
  BY <1>5, PathsStayInTree DEF SetCwd, IInv, ArrayOK, ParentsFirst, PlacesOK, Used
<1>6. ASSUME NEW i \in Slot, Rm(i) PROVE IInv'
  BY <1>6, RmKeeps
<1>7. CASE UNCHANGED <<nodes, node_count, cwd, home>>
  BY <1>7 DEF IInv, ArrayOK, ParentsFirst, PlacesOK, Used
<1> QED
  BY <1>2, <1>3, <1>4, <1>5, <1>6, <1>7 DEF Next, Touch, EditsClear, vars

LEMMA Invariance == ~RmAnywhere /\ Spec => []IInv
<1> DEFINE Inv == ~RmAnywhere /\ IInv
<1>1. ~RmAnywhere /\ Init => Inv
  BY InitHolds
<1>2. Inv /\ [Next]_vars => Inv'
  BY StepKeeps
<1>3. Inv => IInv
  OBVIOUS
<1> HIDE DEF Inv
<1> QED
  BY <1>1, <1>2, <1>3, PTL DEF Spec

(* cwd and home stay directories of the tree, also when the directory cwd  *)
(* is in is removed.                                                       *)
THEOREM PlacesStay == ~RmAnywhere /\ Spec => []PlacesOK
  BY Invariance, PTL DEF IInv

-----------------------------------------------------------------------------
(***************************************************************************)
(* The list of edits.  The paths it holds are walks up the tree, which end *)
(* after DEPTH_MAX steps whatever the parents are.                         *)
(***************************************************************************)
Path == [-1 .. MAX_NODES - 1 -> Seq(Name)]

LEMMA LongerPaths ==
  ASSUME ArrayOK, NEW path \in Path
  PROVE  Longer(path) \in Path
<1> SUFFICES ASSUME NEW n \in -1 .. MAX_NODES - 1, n > 0
             PROVE  <<nodes[n].name>> \o path[nodes[n].parent] \in Seq(Name)
  <2>1. << >> \in Seq(Name)
    OBVIOUS
  <2>2. \A n \in -1 .. MAX_NODES - 1 : n <= 0 \/ n > 0
    OBVIOUS
  <2> QED
    BY <2>1, <2>2 DEF Longer, Path
<1>1. nodes[n].name \in Name /\ nodes[n].parent \in -1 .. MAX_NODES - 1
  BY DEF ArrayOK, Slot, Node
<1> DEFINE one == <<nodes[n].name>>
           rest == path[nodes[n].parent]
<1>2. one \in Seq(Name) /\ rest \in Seq(Name)
  BY <1>1 DEF Path
<1> HIDE DEF one, rest
<1>3. one \o rest \in Seq(Name)
  BY <1>2, ConcatProperties
<1> QED
  BY <1>3 DEF one, rest

LEMMA PathsAreNames ==
  ASSUME ArrayOK, NEW i \in -1 .. MAX_NODES - 1
  PROVE  NodePath(i) \in Seq(Name)
<1> DEFINE N == DEPTH_MAX
           none == [n \in -1 .. MAX_NODES - 1 |-> << >>]
           Is(g, m) == g = [left \in 0 .. m |-> IF left = 0 THEN none ELSE Longer(g[left - 1])]
           S == {m \in 0 .. N : \E g : Is(g, m)}
           walk == CHOOSE g : Is(g, N)
<1>1. NodePath(i) = walk[N][i]
  BY DEF NodePath
<1>2. N \in Nat /\ 0 \in 0 .. N /\ N \in 0 .. N
  BY VfsAssumption
<1>3. none \in Path
  <2>1. << >> \in Seq(Name)
    OBVIOUS
  <2> QED
    BY <2>1 DEF Path
<1> HIDE DEF N, none
<1>4. 0 \in S
  <2> DEFINE g == [left \in 0 .. 0 |-> none]
  <2>1. Is(g, 0)
    OBVIOUS
  <2> HIDE DEF Is, g
  <2> QED
    BY <1>2, <2>1
<1>5. ASSUME NEW m \in 0 .. N, m \in S, m < N
      PROVE  m + 1 \in S
  <2>1. PICK g : Is(g, m)
    BY <1>5
  <2> DEFINE h == [left \in 0 .. m + 1 |-> IF left <= m THEN g[left] ELSE Longer(g[m])]
  <2>2. \A left \in 0 .. m : g[left] = IF left = 0 THEN none ELSE Longer(g[left - 1])
    BY <2>1
  <2>3. \A left \in 0 .. m + 1 : h[left] = IF left = 0 THEN none ELSE Longer(h[left - 1])
    <3> SUFFICES ASSUME NEW left \in 0 .. m + 1
                 PROVE  h[left] = IF left = 0 THEN none ELSE Longer(h[left - 1])
      OBVIOUS
    <3>1. CASE left = 0
      BY <2>2, <3>1
    <3>2. CASE left \in 1 .. m
      <4>1. h[left] = g[left] /\ h[left - 1] = g[left - 1] /\ left \in 0 .. m /\ left # 0
        BY <3>2
      <4> HIDE DEF h
      <4> QED
        BY <2>2, <4>1
    <3>3. CASE left = m + 1
      <4>1. h[left] = Longer(g[m]) /\ h[left - 1] = g[m] /\ left # 0
        BY <3>3
      <4> HIDE DEF h
      <4> QED
        BY <3>3, <4>1
    <3> QED
      BY <3>1, <3>2, <3>3
  <2>4. Is(h, m + 1)
    <3>1. h = [left \in 0 .. m + 1 |-> h[left]]
      OBVIOUS
    <3> HIDE DEF h
    <3> QED
      BY <2>3, <3>1
  <2>5. m + 1 \in 0 .. N
    BY <1>2, <1>5
  <2> HIDE DEF Is, h
  <2> QED
    BY <2>4, <2>5
<1>6. Is(walk, N)
  <2>1. 0 .. N \subseteq S
    <3> HIDE DEF S
    <3> QED
      BY <1>2, <1>4, <1>5, UpTo
  <2> HIDE DEF Is
  <2>2. \E g : Is(g, N)
    BY <1>2, <2>1
  <2> QED
    BY <2>2
<1> HIDE DEF walk
<1>7. \A left \in 0 .. N : walk[left] = IF left = 0 THEN none ELSE Longer(walk[left - 1])
  BY <1>6
<1> DEFINE T == {m \in 0 .. N : walk[m] \in Path}
<1>8. 0 \in T
  BY <1>2, <1>3, <1>7
<1>9. ASSUME NEW m \in 0 .. N, m \in T, m < N
      PROVE  m + 1 \in T
  <2>1. m + 1 \in 0 .. N /\ m + 1 # 0 /\ m + 1 - 1 = m
    BY <1>2, <1>9
  <2>2. walk[m + 1] = Longer(walk[m])
    BY <1>7, <2>1
  <2> QED
    BY <1>9, <2>1, <2>2, LongerPaths
<1>10. walk[N] \in Path
  <2>1. 0 .. N \subseteq T
    <3> HIDE DEF T
    <3> QED
      BY <1>2, <1>8, <1>9, UpTo
  <2> QED
    BY <1>2, <2>1
<1> QED
  BY <1>1, <1>10 DEF Path

(* The list: paths, none of them twice, no more than there is space for.    *)
EditsOK ==
  /\ edit_log \in Seq(Seq(Name)) /\ Len(edit_log) <= EDIT_MAX
  /\ \A i, j \in 1 .. Len(edit_log) : edit_log[i] = edit_log[j] => i = j

LEMMA RememberEditKeeps ==
  ASSUME EditsOK, NEW path \in Seq(Name), RememberEdit(path)
  PROVE  EditsOK' /\ Len(edit_log') >= Len(edit_log)
<1> DEFINE listed == \E i \in 1 .. Len(edit_log) : edit_log[i] = path
           P == Seq(Name)
<1>1. edit_log \in Seq(P) /\ Len(edit_log) \in Nat /\ Len(edit_log) <= EDIT_MAX /\ path \in P
      /\ EDIT_MAX \in Nat \ {0}
      /\ \A i, j \in 1 .. Len(edit_log) : edit_log[i] = edit_log[j] => i = j
  BY VfsAssumption DEF EditsOK
<1> HIDE DEF P
<1>2. CASE listed
  <2>1. edit_log' = edit_log
    BY <1>2 DEF RememberEdit
  <2> QED
    BY <1>1, <2>1 DEF EditsOK
<1>3. CASE ~listed
  <2> DEFINE kept == IF Len(edit_log) < EDIT_MAX THEN edit_log ELSE Tail(edit_log)
  <2>1. /\ kept \in Seq(P) /\ Len(kept) \in Nat /\ Len(kept) < EDIT_MAX /\ Len(kept) + 1 >= Len(edit_log)
        /\ \A i, j \in 1 .. Len(kept) : kept[i] = kept[j] => i = j
        /\ \A i \in 1 .. Len(kept) : kept[i] # path
    <3>1. CASE Len(edit_log) < EDIT_MAX
      BY <1>1, <1>3, <3>1
    <3>2. CASE ~(Len(edit_log) < EDIT_MAX)
      <4>1. edit_log # << >> /\ kept = Tail(edit_log) /\ Len(edit_log) = EDIT_MAX
        BY <1>1, <3>2
      <4> HIDE DEF kept
      <4>2. kept \in Seq(P) /\ Len(kept) = Len(edit_log) - 1
            /\ \A i \in 1 .. Len(kept) : kept[i] = edit_log[i + 1]
        BY <1>1, <4>1, HeadTailProperties
      <4>3. \A i \in 1 .. Len(kept) : i + 1 \in 1 .. Len(edit_log)
        BY <1>1, <4>2
      <4>4. \A i, j \in 1 .. Len(kept) : kept[i] = kept[j] => i = j
        <5> SUFFICES ASSUME NEW i \in 1 .. Len(kept), NEW j \in 1 .. Len(kept), kept[i] = kept[j]
                     PROVE  i = j
          OBVIOUS
        <5>1. i + 1 = j + 1
          BY <1>1, <4>2, <4>3
        <5> QED
          BY <5>1
      <4>5. \A i \in 1 .. Len(kept) : kept[i] # path
        BY <1>3, <4>2, <4>3
      <4> QED
        BY <1>1, <4>1, <4>2, <4>4, <4>5
    <3> QED
      BY <3>1, <3>2
  <2>2. edit_log' = Append(kept, path)
    BY <1>3 DEF RememberEdit
  <2> HIDE DEF kept
  <2>3. edit_log' \in Seq(P) /\ Len(edit_log') = Len(kept) + 1 /\ edit_log'[Len(kept) + 1] = path
        /\ \A i \in 1 .. Len(kept) : edit_log'[i] = kept[i]
    BY <1>1, <2>1, <2>2
  <2>4. \A i, j \in 1 .. Len(edit_log') : edit_log'[i] = edit_log'[j] => i = j
    <3> SUFFICES ASSUME NEW i \in 1 .. Len(kept) + 1, NEW j \in 1 .. Len(kept) + 1,
                        edit_log'[i] = edit_log'[j]
                 PROVE  i = j
      BY <2>3
    <3>1. (i \in 1 .. Len(kept) \/ i = Len(kept) + 1) /\ (j \in 1 .. Len(kept) \/ j = Len(kept) + 1)
      BY <2>1
    <3> QED
      BY <2>1, <2>3, <3>1
  <2>5. Len(edit_log') <= EDIT_MAX /\ Len(edit_log') >= Len(edit_log)
    BY <1>1, <2>1, <2>3
  <2> QED
    BY <2>3, <2>4, <2>5 DEF EditsOK, P
<1> QED
  BY <1>2, <1>3

LEMMA EditStep ==
  ASSUME IInv, EditsOK, [Next]_vars
  PROVE  EditsOK' /\ (edit_log' \in {edit_log, << >>} \/ Len(edit_log') >= Len(edit_log))
<1>1. ASSUME NEW path \in Seq(Name), RememberEdit(path)
      PROVE  EditsOK' /\ Len(edit_log') >= Len(edit_log)
  BY <1>1, RememberEditKeeps
<1>2. ASSUME NEW p \in -1 .. MAX_NODES - 1, NEW name \in Name
      PROVE  ChildPath(p, name) \in Seq(Name)
  <2> DEFINE one == <<name>>
             rest == NodePath(p)
  <2>1. one \in Seq(Name) /\ rest \in Seq(Name)
    BY PathsAreNames DEF IInv
  <2> HIDE DEF one, rest
  <2>2. one \o rest \in Seq(Name)
    BY <2>1, ConcatProperties
  <2> QED
    BY <2>2 DEF ChildPath, one, rest
<1>3. \A i \in Slot : i \in -1 .. MAX_NODES - 1 /\ nodes[i].parent \in -1 .. MAX_NODES - 1
                      /\ nodes[i].name \in Name
  BY VfsAssumption DEF IInv, ArrayOK, Slot, Node
<1>4. ASSUME NEW p \in Slot, NEW name \in Name \ {NoName}, NEW len \in 0 .. CONTENT_MAX + 1,
             CreateFile(p, name, len)
      PROVE  EditsOK' /\ Len(edit_log') >= Len(edit_log)
  <2>1. ChildPath(p, name) \in Seq(Name)
    BY <1>2, <1>3
  <2> QED
    BY <1>1, <1>4, <2>1 DEF CreateFile
<1>5. ASSUME NEW i \in Slot, NEW len \in 0 .. CONTENT_MAX + 1, NEW append \in BOOLEAN,
             WriteFile(i, len, append)
      PROVE  EditsOK' /\ Len(edit_log') >= Len(edit_log)
  <2>1. ChildPath(nodes[i].parent, nodes[i].name) \in Seq(Name)
    BY <1>2, <1>3
  <2> QED
    BY <1>1, <1>5, <2>1 DEF WriteFile
<1>6. ASSUME NEW i \in Slot, Touch(i)
      PROVE  EditsOK' /\ Len(edit_log') >= Len(edit_log)
  <2>1. NodePath(i) \in Seq(Name)
    BY <1>3, PathsAreNames DEF IInv
  <2> QED
    BY <1>1, <1>6, <2>1 DEF Touch
<1>7. CASE EditsClear
  <2>1. << >> \in Seq(Seq(Name)) /\ Len(<< >>) = 0 /\ 0 <= EDIT_MAX
    BY VfsAssumption
  <2>2. EditsOK'
    BY <1>7, <2>1 DEF EditsClear, EditsOK
  <2> QED
    BY <1>7, <2>2 DEF EditsClear
<1>8. CASE edit_log' = edit_log
  BY <1>8 DEF EditsOK
<1> QED
  BY <1>4, <1>5, <1>6, <1>7, <1>8 DEF Next, Mkdir, SetCwd, Rm, vars

(* What the edits need of the tree and what they keep themselves.          *)
AllOK == IInv /\ EditsOK

LEMMA AllHolds == ~RmAnywhere /\ Spec => []AllOK
<1> DEFINE Inv == ~RmAnywhere /\ AllOK
<1>1. ~RmAnywhere /\ Init => Inv
  <2>1. Init => EditsOK
    <3>1. << >> \in Seq(Seq(Name)) /\ Len(<< >>) = 0 /\ 0 <= EDIT_MAX
      BY VfsAssumption
    <3>2. Init => edit_log = << >>
      BY DEF Init
    <3> QED
      BY <3>1, <3>2 DEF EditsOK
  <2> QED
    BY <2>1, InitHolds DEF AllOK
<1>2. Inv /\ [Next]_vars => Inv'
  BY StepKeeps, EditStep DEF AllOK
<1>3. Inv => AllOK
  OBVIOUS
<1> HIDE DEF Inv
<1> QED
  BY <1>1, <1>2, <1>3, PTL DEF Spec

(* In an array of any size, whatever is made, rewritten and removed: no     *)
(* index and no list leaves its bounds, and the nodes form a tree.          *)
THEOREM TreeHolds == ~RmAnywhere /\ Spec => []TreeOK
<1>1. AllOK => TreeOK
  BY DEF AllOK, IInv, ArrayOK, EditsOK, TreeOK, TypeOK
<1> QED
  BY <1>1, AllHolds, PTL

(* The path is on the list afterwards, where it was or as the last one.     *)
LEMMA RememberEditLists ==
  ASSUME EditsOK, NEW path \in Seq(Name), RememberEdit(path)
  PROVE  /\ Lists(edit_log', path)
         /\ edit_log' # edit_log => /\ edit_log'[Len(edit_log')] = path
                                   /\ ~Lists(edit_log, path)
                                   /\ edit_log' = Append(Spared(edit_log), path)
<1> DEFINE P == Seq(Name)
<1>1. edit_log \in Seq(P) /\ Len(edit_log) \in Nat /\ Len(edit_log) <= EDIT_MAX /\ path \in P
      /\ EDIT_MAX \in Nat \ {0}
  BY VfsAssumption DEF EditsOK
<1> HIDE DEF P
<1>2. CASE Lists(edit_log, path)
  BY <1>2 DEF RememberEdit, Lists
<1>3. CASE ~Lists(edit_log, path)
  <2> DEFINE kept == Spared(edit_log)
  <2>1. (IF Len(edit_log) < EDIT_MAX THEN edit_log ELSE Tail(edit_log)) = kept
    BY <1>1 DEF Spared
  <2>2. edit_log' = Append(kept, path)
    BY <1>3, <2>1 DEF RememberEdit, Lists
  <2>3. kept \in Seq(P)
    BY <1>1 DEF Spared
  <2> HIDE DEF kept
  <2>4. Len(kept) + 1 \in 1 .. Len(edit_log') /\ Len(edit_log') = Len(kept) + 1
        /\ edit_log'[Len(kept) + 1] = path
    BY <1>1, <2>2, <2>3
  <2> QED
    BY <1>3, <2>2, <2>4 DEF Lists, kept
<1> QED
  BY <1>2, <1>3

LEMMA EditsStep ==
  ASSUME AllOK, [Next]_vars
  PROVE  /\ \A i \in Edited : Lists(edit_log', ChildPath(nodes'[i].parent, nodes'[i].name))
         /\ edit_log' \notin {edit_log, << >>} =>
              \E path \in {edit_log'[Len(edit_log')]} :
                ~Lists(edit_log, path) /\ edit_log' = Append(Spared(edit_log), path)
<1>0. /\ nodes \in [Slot -> Node] /\ node_count \in 0 .. MAX_NODES /\ MAX_NODES \in Nat
      /\ EditsOK
  BY VfsAssumption DEF AllOK, IInv, ArrayOK
<1>2. ASSUME NEW p \in -1 .. MAX_NODES - 1, NEW name \in Name
      PROVE  ChildPath(p, name) \in Seq(Name)
  <2> DEFINE one == <<name>>
             rest == NodePath(p)
  <2>1. one \in Seq(Name) /\ rest \in Seq(Name)
    BY PathsAreNames DEF AllOK, IInv
  <2> HIDE DEF one, rest
  <2>2. one \o rest \in Seq(Name)
    BY <2>1, ConcatProperties
  <2> QED
    BY <2>2 DEF ChildPath, one, rest
<1>3. \A i \in Slot : i \in -1 .. MAX_NODES - 1 /\ nodes[i].parent \in -1 .. MAX_NODES - 1
                      /\ nodes[i].name \in Name
  BY <1>0 DEF Slot, Node
<1> HIDE DEF EditsOK
<1>4. ASSUME NEW p \in Slot, NEW name \in Name \ {NoName}, NEW is_dir \in BOOLEAN,
             NEW size \in 0 .. CONTENT_MAX, MakeNode(name, p, is_dir, size)
      PROVE  \A i \in Edited : ~is_dir /\ nodes'[i].parent = p /\ nodes'[i].name = name
  <2>1. node_count \in Slot /\ node_count' = node_count + 1
    BY <1>0, <1>4 DEF MakeNode, Slot
  <2>2. nodes' = [nodes EXCEPT ![node_count] =
                    [name |-> name, parent |-> p, is_dir |-> is_dir, size |-> size]]
    BY <1>4 DEF MakeNode
  <2>3. \A i \in Used : nodes'[i] = nodes[i]
    BY <1>0, <2>1, <2>2 DEF Used, Slot
  <2>4. \A i \in Edited : i = node_count
    BY <1>0, <2>1, <2>3 DEF Edited, Used
  <2>5. nodes'[node_count] = [name |-> name, parent |-> p, is_dir |-> is_dir, size |-> size]
    BY <1>0, <2>1, <2>2
  <2> QED
    BY <2>4, <2>5 DEF Edited
<1>5. ASSUME NEW p \in Slot, NEW name \in Name \ {NoName}, Mkdir(p, name)
      PROVE  Edited = {} /\ edit_log' = edit_log
  <2>1. 0 \in 0 .. CONTENT_MAX /\ TRUE \in BOOLEAN
    BY VfsAssumption
  <2> QED
    BY <1>4, <1>5, <2>1 DEF Mkdir
<1>6. ASSUME NEW p \in Slot, NEW name \in Name \ {NoName}, NEW len \in 0 .. CONTENT_MAX + 1,
             CreateFile(p, name, len)
      PROVE  /\ \A i \in Edited : nodes'[i].parent = p /\ nodes'[i].name = name
             /\ RememberEdit(ChildPath(p, name)) /\ ChildPath(p, name) \in Seq(Name)
  <2>1. Clip(len) \in 0 .. CONTENT_MAX /\ FALSE \in BOOLEAN
    BY VfsAssumption DEF Clip
  <2>2. ChildPath(p, name) \in Seq(Name)
    BY <1>2, <1>3
  <2> QED
    BY <1>4, <1>6, <2>1, <2>2 DEF CreateFile
<1>7. ASSUME NEW i \in Slot, NEW len \in 0 .. CONTENT_MAX + 1, NEW append \in BOOLEAN,
             WriteFile(i, len, append)
      PROVE  /\ \A k \in Edited : /\ nodes'[k].parent = nodes[i].parent
                                  /\ nodes'[k].name = nodes[i].name
             /\ RememberEdit(ChildPath(nodes[i].parent, nodes[i].name))
             /\ ChildPath(nodes[i].parent, nodes[i].name) \in Seq(Name)
  <2>1. \A k \in Slot : k # i => nodes'[k] = nodes[k]
    BY <1>0, <1>7 DEF WriteFile
  <2>2. nodes'[i].parent = nodes[i].parent /\ nodes'[i].name = nodes[i].name
    BY <1>0, <1>7 DEF WriteFile, Node
  <2>3. \A k \in Edited : k = i
    BY <1>0, <1>7, <2>1 DEF WriteFile, Edited, Used, Slot
  <2>4. ChildPath(nodes[i].parent, nodes[i].name) \in Seq(Name)
    BY <1>2, <1>3
  <2> QED
    BY <1>7, <2>2, <2>3, <2>4 DEF WriteFile
<1>8. ASSUME NEW i \in Slot, Touch(i)
      PROVE  Edited = {} /\ RememberEdit(NodePath(i)) /\ NodePath(i) \in Seq(Name)
  <2>1. NodePath(i) \in Seq(Name)
    BY <1>3, PathsAreNames DEF AllOK, IInv
  <2> QED
    BY <1>8, <2>1 DEF Touch, Edited, Used
<1>9. CASE EditsClear
  BY <1>9 DEF EditsClear, Edited, Used
<1>10. ASSUME NEW i \in Slot, SetCwd(i) PROVE Edited = {} /\ edit_log' = edit_log
  BY <1>10 DEF SetCwd, Edited, Used
<1>11. ASSUME NEW i \in Slot, Rm(i) PROVE Edited = {} /\ edit_log' = edit_log
  BY <1>0, <1>11 DEF Rm, Edited
<1>12. CASE UNCHANGED vars
  BY <1>12 DEF vars, Edited, Used
<1>13. ASSUME NEW path \in Seq(Name), RememberEdit(path),
              \A i \in Edited : ChildPath(nodes'[i].parent, nodes'[i].name) = path
       PROVE  /\ \A i \in Edited : Lists(edit_log', ChildPath(nodes'[i].parent, nodes'[i].name))
              /\ edit_log' # edit_log =>
                   \E q \in {edit_log'[Len(edit_log')]} :
                     ~Lists(edit_log, q) /\ edit_log' = Append(Spared(edit_log), q)
  BY <1>0, <1>13, RememberEditLists
<1>14. ASSUME NEW p \in Slot, NEW name \in Name \ {NoName}, NEW len \in 0 .. CONTENT_MAX + 1,
              CreateFile(p, name, len)
       PROVE  /\ \A i \in Edited : Lists(edit_log', ChildPath(nodes'[i].parent, nodes'[i].name))
              /\ edit_log' # edit_log =>
                   \E q \in {edit_log'[Len(edit_log')]} :
                     ~Lists(edit_log, q) /\ edit_log' = Append(Spared(edit_log), q)
  BY <1>6, <1>13, <1>14
<1>15. ASSUME NEW i \in Slot, NEW len \in 0 .. CONTENT_MAX + 1, NEW append \in BOOLEAN,
              WriteFile(i, len, append)
       PROVE  /\ \A k \in Edited : Lists(edit_log', ChildPath(nodes'[k].parent, nodes'[k].name))
              /\ edit_log' # edit_log =>
                   \E q \in {edit_log'[Len(edit_log')]} :
                     ~Lists(edit_log, q) /\ edit_log' = Append(Spared(edit_log), q)
  BY <1>7, <1>13, <1>15
<1>16. ASSUME NEW i \in Slot, Touch(i)
       PROVE  /\ Edited = {}
              /\ edit_log' # edit_log =>
                   \E q \in {edit_log'[Len(edit_log')]} :
                     ~Lists(edit_log, q) /\ edit_log' = Append(Spared(edit_log), q)
  BY <1>8, <1>13, <1>16
<1> QED
  BY <1>5, <1>9, <1>10, <1>11, <1>12, <1>14, <1>15, <1>16 DEF Next

(* In a list of any size: each file that is created or changed is listed,   *)
(* a path that is listed stays where it is, and one that is not goes to the *)
(* end, at the cost of the oldest and only if the list is full.             *)
THEOREM EditsStayListed == ~RmAnywhere /\ Spec => EditsListed
<1> DEFINE Listed ==
             /\ \A i \in Edited : Lists(edit_log', ChildPath(nodes'[i].parent, nodes'[i].name))
             /\ edit_log' \notin {edit_log, << >>} =>
                  \E path \in {edit_log'[Len(edit_log')]} :
                    ~Lists(edit_log, path) /\ edit_log' = Append(Spared(edit_log), path)
<1>1. AllOK /\ [Next]_vars => [Listed]_vars
  BY EditsStep
<1> QED
  BY <1>1, AllHolds, PTL DEF Spec, EditsListed

-----------------------------------------------------------------------------
(***************************************************************************)
(* The array is a tree of paths.  A path names one node because a          *)
(* directory has a name once, and a node that is renumbered keeps its path *)
(* because its parent's index moves with it.                               *)
(***************************************************************************)
NamesOK ==
  \A i, j \in 1 .. node_count - 1 :
    nodes[i].parent = nodes[j].parent /\ nodes[i].name = nodes[j].name => i = j

(* Directories have no content, and the home directory is where it was.    *)
EntriesOK == \A i \in Used : nodes[i].is_dir => nodes[i].size = 0

HomeOK ==
  /\ node_count >= 3 /\ home = 2
  /\ nodes[1].parent = 0 /\ nodes[1].name = "home" /\ nodes[1].is_dir
  /\ nodes[2].parent = 1 /\ nodes[2].name = "redlion" /\ nodes[2].is_dir

TreeInv == IInv /\ NamesOK /\ EntriesOK /\ HomeOK

(* A path, with one name more in front.                                    *)
LEMMA OneMore ==
  \A a \in Name, s \in Seq(Name) :
    /\ <<a>> \o s \in Seq(Name) /\ <<a>> \o s # << >>
    /\ Head(<<a>> \o s) = a /\ Tail(<<a>> \o s) = s
<1> TAKE a \in Name, s \in Seq(Name)
<1>1. <<a>> \in Seq(Name) /\ Len(<<a>>) = 1 /\ <<a>>[1] = a
  OBVIOUS
<1> DEFINE q == <<a>> \o s
<1>2. q \in Seq(Name) /\ Len(q) = 1 + Len(s) /\ q[1] = a /\ \A i \in 1 .. Len(s) : q[i + 1] = s[i]
  BY <1>1, ConcatProperties
<1> HIDE DEF q
<1>3. q # << >> /\ Head(q) = a
  BY <1>2
<1>4. Tail(q) \in Seq(Name) /\ Len(Tail(q)) = Len(s) /\ \A i \in 1 .. Len(s) : Tail(q)[i] = q[i + 1]
  BY <1>2, <1>3, HeadTailProperties
<1>5. Tail(q) = s
  BY <1>2, <1>4
<1> QED
  BY <1>2, <1>3, <1>5 DEF q

PathFacts ==
  /\ \A i \in Used : PathOf[i] \in Seq(Name)
  /\ PathOf[0] = << >>
  /\ \A i \in 1 .. node_count - 1 : PathOf[i] = <<nodes[i].name>> \o PathOf[nodes[i].parent]

LEMMA PathIs == IInv => PathFacts
<1> SUFFICES ASSUME IInv PROVE PathFacts
  OBVIOUS
<1> DEFINE N == node_count - 1
           name(i) == nodes[i].name
           par(i) == nodes[i].parent
           Is(g, m) == g = [i \in 0 .. m |-> IF i = 0 THEN << >> ELSE <<name(i)>> \o g[par(i)]]
           S == {m \in 0 .. N : \E g : Is(g, m)}
           path == CHOOSE g : Is(g, N)
<1>1. PathOf = path
  BY DEF PathOf, Used
<1>2. /\ N \in Nat /\ 0 \in 0 .. N /\ N \in 0 .. N /\ Used = 0 .. N /\ 1 .. node_count - 1 = 1 .. N
      /\ \A i \in 1 .. N : par(i) \in 0 .. i - 1 /\ name(i) \in Name
  BY VfsAssumption DEF IInv, ArrayOK, ParentsFirst, Used, Slot, Node
<1> HIDE DEF N, name, par
<1>3. 0 \in S
  <2> DEFINE g == [i \in 0 .. 0 |-> << >>]
  <2>1. Is(g, 0)
    OBVIOUS
  <2> HIDE DEF Is, g
  <2> QED
    BY <1>2, <2>1
<1>4. ASSUME NEW m \in 0 .. N, m \in S, m < N
      PROVE  m + 1 \in S
  <2>1. PICK g : Is(g, m)
    BY <1>4
  <2> DEFINE more(q, i) == <<name(i)>> \o q
             h == [i \in 0 .. m + 1 |-> IF i <= m THEN g[i] ELSE more(g[par(m + 1)], m + 1)]
  <2>2. \A i \in 0 .. m : g[i] = IF i = 0 THEN << >> ELSE more(g[par(i)], i)
    BY <2>1
  <2> HIDE DEF more
  <2>3. \A i \in 0 .. m + 1 : h[i] = IF i = 0 THEN << >> ELSE more(h[par(i)], i)
    <3> SUFFICES ASSUME NEW i \in 0 .. m + 1
                 PROVE  h[i] = IF i = 0 THEN << >> ELSE more(h[par(i)], i)
      OBVIOUS
    <3>1. CASE i = 0
      BY <2>2, <3>1
    <3>2. CASE i \in 1 .. m
      <4>1. par(i) \in 0 .. i - 1
        BY <1>2, <1>4, <3>2
      <4>2. h[i] = g[i] /\ h[par(i)] = g[par(i)] /\ i \in 0 .. m /\ i # 0
        BY <3>2, <4>1
      <4> HIDE DEF h
      <4> QED
        BY <2>2, <4>2
    <3>3. CASE i = m + 1
      <4>1. par(m + 1) \in 0 .. m
        BY <1>2, <1>4
      <4>2. h[i] = more(g[par(m + 1)], m + 1) /\ h[par(i)] = g[par(m + 1)] /\ i # 0
        BY <3>3, <4>1
      <4> HIDE DEF h
      <4> QED
        BY <3>3, <4>2
    <3> QED
      BY <3>1, <3>2, <3>3
  <2>4. Is(h, m + 1)
    <3>1. h = [i \in 0 .. m + 1 |-> h[i]]
      OBVIOUS
    <3> HIDE DEF h
    <3> QED
      BY <2>3, <3>1 DEF more
  <2>5. m + 1 \in 0 .. N
    BY <1>2, <1>4
  <2> HIDE DEF Is, h
  <2> QED
    BY <2>4, <2>5
<1>5. Is(path, N)
  <2>1. 0 .. N \subseteq S
    <3> HIDE DEF S
    <3> QED
      BY <1>2, <1>3, <1>4, UpTo
  <2> HIDE DEF Is
  <2>2. \E g : Is(g, N)
    BY <1>2, <2>1
  <2> QED
    BY <2>2
<1> HIDE DEF path
<1> DEFINE more(q, i) == <<name(i)>> \o q
<1>6. \A i \in 0 .. N : path[i] = IF i = 0 THEN << >> ELSE more(path[par(i)], i)
  BY <1>5
<1> HIDE DEF more, Is
<1> DEFINE T == {m \in 0 .. N : \A i \in 0 .. m : path[i] \in Seq(Name)}
<1>7. 0 \in T
  <2>1. path[0] = << >>
    BY <1>2, <1>6
  <2>2. << >> \in Seq(Name)
    OBVIOUS
  <2>3. \A i \in 0 .. 0 : i = 0
    OBVIOUS
  <2>4. \A i \in 0 .. 0 : path[i] \in Seq(Name)
    BY <2>1, <2>2, <2>3, Zenon
  <2> QED
    BY <1>2, <2>4
<1>8. ASSUME NEW m \in 0 .. N, m \in T, m < N
      PROVE  m + 1 \in T
  <2>1. m + 1 \in 1 .. N /\ m + 1 \in 0 .. N /\ par(m + 1) \in 0 .. m /\ name(m + 1) \in Name
    BY <1>2, <1>8
  <2>2. path[m + 1] = more(path[par(m + 1)], m + 1)
    BY <1>6, <2>1
  <2>3. path[m + 1] \in Seq(Name)
    BY <1>8, <2>1, <2>2, OneMore DEF more
  <2>4. \A i \in 0 .. m + 1 : i \in 0 .. m \/ i = m + 1
    BY <1>2
  <2> QED
    BY <1>8, <2>1, <2>3, <2>4
<1>9. \A i \in 0 .. N : path[i] \in Seq(Name)
  <2>1. 0 .. N \subseteq T
    <3> HIDE DEF T
    <3> QED
      BY <1>2, <1>7, <1>8, UpTo
  <2> QED
    BY <1>2, <2>1
<1>10. \A i \in 1 .. N : i \in 0 .. N /\ i # 0
  BY <1>2
<1> QED
  BY <1>1, <1>2, <1>6, <1>9, <1>10 DEF PathFacts, name, par, more

(* Two nodes do not have one path.                                         *)
LEMMA OnePathEach ==
  ASSUME IInv, NamesOK
  PROVE  \A i, j \in Used : PathOf[i] = PathOf[j] => i = j
<1> DEFINE N == node_count - 1
           name(i) == nodes[i].name
           par(i) == nodes[i].parent
           path == PathOf
           Apart(i) == \A j \in 0 .. N : path[i] = path[j] => i = j
           S == {m \in 0 .. N : \A i \in 0 .. m : Apart(i)}
<1>1. /\ N \in Nat /\ Used = 0 .. N /\ 1 .. node_count - 1 = 1 .. N
      /\ \A i \in 1 .. N : par(i) \in 0 .. i - 1 /\ name(i) \in Name
  BY VfsAssumption DEF IInv, ArrayOK, ParentsFirst, Used, Slot, Node
<1>2. \A i, j \in 1 .. N : par(i) = par(j) /\ name(i) = name(j) => i = j
  BY <1>1 DEF NamesOK
<1>3. path[0] = << >> /\ \A i \in 0 .. N : path[i] \in Seq(Name)
  BY <1>1, PathIs DEF PathFacts
<1>4. \A i \in 1 .. N : path[i] = <<name(i)>> \o path[par(i)]
  BY <1>1, PathIs DEF PathFacts
<1>5. \A i \in 1 .. N : path[i] # << >> /\ Head(path[i]) = name(i) /\ Tail(path[i]) = path[par(i)]
  <2> TAKE i \in 1 .. N
  <2>1. name(i) \in Name /\ par(i) \in 0 .. N
    BY <1>1
  <2>2. path[par(i)] \in Seq(Name)
    BY <1>3, <2>1
  <2> DEFINE a == name(i)
             q == path[par(i)]
  <2>3. path[i] = <<a>> \o q /\ a \in Name /\ q \in Seq(Name)
    BY <1>4, <2>1, <2>2
  <2> HIDE DEF a, q
  <2>4. path[i] # << >> /\ Head(path[i]) = a /\ Tail(path[i]) = q
    BY <2>3, OneMore
  <2> QED
    BY <2>4 DEF a, q
<1> HIDE DEF N, name, par, path
<1>6. ASSUME NEW m \in 0 .. N, \A i \in 0 .. m - 1 : Apart(i)
      PROVE  Apart(m)
  <2> SUFFICES ASSUME NEW j \in 0 .. N, path[m] = path[j] PROVE m = j
    OBVIOUS
  <2>1. CASE m = 0 \/ j = 0
    <3>1. m \in 1 .. N \/ m = 0
      BY <1>1
    <3>2. j \in 1 .. N \/ j = 0
      BY <1>1
    <3> QED
      BY <1>3, <1>5, <2>1, <3>1, <3>2
  <2>2. CASE m # 0 /\ j # 0
    <3>1. m \in 1 .. N /\ j \in 1 .. N
      BY <1>1, <2>2
    <3>2. path[par(m)] = path[par(j)] /\ name(m) = name(j)
      BY <1>5, <3>1
    <3>3. par(m) \in 0 .. m - 1 /\ par(j) \in 0 .. N
      BY <1>1, <3>1
    <3>4. par(m) = par(j)
      BY <1>6, <3>2, <3>3
    <3> QED
      BY <1>2, <3>1, <3>2, <3>4
  <2> QED
    BY <2>1, <2>2
<1> HIDE DEF Apart
<1>7. 0 \in S
  <2>1. 0 \in 0 .. N /\ \A i \in 0 .. 0 - 1 : FALSE
    BY <1>1
  <2>2. Apart(0)
    BY <1>6, <2>1
  <2>3. \A i \in 0 .. 0 : i = 0
    OBVIOUS
  <2> QED
    BY <2>1, <2>2, <2>3
<1>8. ASSUME NEW m \in 0 .. N, m \in S, m < N
      PROVE  m + 1 \in S
  <2>1. m + 1 \in 0 .. N /\ (m + 1) - 1 = m
    BY <1>1, <1>8
  <2>2. Apart(m + 1)
    BY <1>6, <1>8, <2>1
  <2>3. \A i \in 0 .. m + 1 : i \in 0 .. m \/ i = m + 1
    BY <1>1
  <2> QED
    BY <1>8, <2>1, <2>2, <2>3
<1>9. \A i \in 0 .. N : Apart(i)
  <2>1. 0 .. N \subseteq S
    <3> HIDE DEF S
    <3> QED
      BY <1>1, <1>7, <1>8, UpTo
  <2>2. N \in 0 .. N
    BY <1>1
  <2> QED
    BY <2>1, <2>2
<1> QED
  BY <1>1, <1>9 DEF Apart, path

Entry(i) == [is_dir |-> nodes[i].is_dir, size |-> nodes[i].size]

(* The array and the tree it is a picture of.                              *)
Picture ==
  /\ PathFacts
  /\ \A i, j \in Used : PathOf[i] = PathOf[j] => i = j
  /\ Pictured = [p \in DOMAIN Pictured |-> Pictured[p]]
  /\ DOMAIN Pictured = {PathOf[i] : i \in Used}
  /\ \A i \in Used : Pictured[PathOf[i]] = Entry(i)

LEMMA PictureIs == TreeInv => Picture
<1> SUFFICES ASSUME TreeInv PROVE Picture
  OBVIOUS
<1> DEFINE path == PathOf
<1>1. PathFacts /\ \A i, j \in Used : path[i] = path[j] => i = j
  BY PathIs, OnePathEach DEF TreeInv
<1>2. Pictured = [p \in {path[i] : i \in Used} |->
                    [is_dir |-> nodes[CHOOSE i \in Used : path[i] = p].is_dir,
                     size |-> nodes[CHOOSE i \in Used : path[i] = p].size]]
  BY DEF Pictured
<1> HIDE DEF path
<1>3. \A i \in Used : (CHOOSE j \in Used : path[j] = path[i]) = i
  BY <1>1
<1>4. \A i \in Used : Pictured[path[i]] = Entry(i)
  BY <1>2, <1>3 DEF Entry
<1>5. DOMAIN Pictured = {path[i] : i \in Used} /\ Pictured = [p \in DOMAIN Pictured |-> Pictured[p]]
  BY <1>2
<1> QED
  BY <1>1, <1>4, <1>5 DEF Picture, path

LEMMA PictureNext == TreeInv' => Picture'
  BY PictureIs, PTL

LEMMA PathNext == IInv' => PathFacts'
  BY PathIs, PTL

(* Slots whose nodes come from other slots, the parents from those of the  *)
(* parents, have the paths of those.                                       *)
LEMMA PathsFollow ==
  ASSUME IInv, IInv', NEW n \in Nat, n >= 1, n <= node_count', NEW f, f[0] = 0,
         \A k \in 1 .. n - 1 : /\ f[k] \in 1 .. node_count - 1
                               /\ nodes'[k].name = nodes[f[k]].name
                               /\ f[nodes'[k].parent] = nodes[f[k]].parent
  PROVE  \A k \in 0 .. n - 1 : PathOf'[k] = PathOf[f[k]]
<1> DEFINE S == {m \in 0 .. n - 1 : \A k \in 0 .. m : PathOf'[k] = PathOf[f[k]]}
<1>1. PathFacts /\ PathFacts'
  BY PathIs, PathNext
<1>2. \A k \in 1 .. n - 1 : nodes'[k].parent \in 0 .. k - 1 /\ k \in 1 .. node_count' - 1
  <2>1. node_count' \in Nat
    BY VfsAssumption DEF IInv, ArrayOK
  <2>2. \A k \in 1 .. n - 1 : k \in 1 .. node_count' - 1
    BY <2>1
  <2>3. \A k \in 1 .. node_count' - 1 : nodes'[k].parent \in 0 .. k - 1
    BY DEF IInv, ParentsFirst
  <2> QED
    BY <2>2, <2>3
<1>3. 0 \in S
  <2>1. PathOf'[0] = PathOf[f[0]]
    BY <1>1 DEF PathFacts
  <2>2. \A k \in 0 .. 0 : k = 0
    OBVIOUS
  <2> QED
    BY <2>1, <2>2
<1>4. ASSUME NEW m \in 0 .. n - 1, m \in S, m < n - 1
      PROVE  m + 1 \in S
  <2> DEFINE k == m + 1
             up == nodes'[k].parent
  <2>1. k \in 1 .. n - 1 /\ k \in 0 .. n - 1 /\ k \in 1 .. node_count' - 1 /\ up \in 0 .. m
    BY <1>2, <1>4
  <2>2. PathOf'[up] = PathOf[f[up]]
    BY <1>4, <2>1
  <2>3. /\ PathOf'[k] = <<nodes'[k].name>> \o PathOf'[up]
        /\ PathOf[f[k]] = <<nodes[f[k]].name>> \o PathOf[nodes[f[k]].parent]
    BY <1>1, <2>1 DEF PathFacts
  <2>4. PathOf'[k] = PathOf[f[k]]
    BY <2>1, <2>2, <2>3
  <2>5. \A j \in 0 .. m + 1 : j \in 0 .. m \/ j = k
    BY <1>4
  <2> HIDE DEF k
  <2>6. \A j \in 0 .. m + 1 : PathOf'[j] = PathOf[f[j]]
    BY <1>4, <2>4, <2>5
  <2> QED
    BY <2>1, <2>6 DEF k
<1>5. 0 .. n - 1 \subseteq S
  <2> HIDE DEF S
  <2>1. n - 1 \in Nat
    OBVIOUS
  <2> QED
    BY <1>3, <1>4, <2>1, UpTo
<1>6. n - 1 \in 0 .. n - 1
  OBVIOUS
<1> QED
  BY <1>5, <1>6

LEMMA PathsStay ==
  ASSUME IInv, IInv', NEW n \in Nat, n >= 1, n <= node_count, n <= node_count',
         \A k \in 0 .. n - 1 : nodes'[k].name = nodes[k].name /\ nodes'[k].parent = nodes[k].parent
  PROVE  \A k \in 0 .. n - 1 : PathOf'[k] = PathOf[k]
<1> DEFINE f == [k \in 0 .. n - 1 |-> k]
<1>1. f[0] = 0 /\ \A k \in 0 .. n - 1 : f[k] = k
  OBVIOUS
<1>2. \A k \in 1 .. n - 1 : /\ k \in 0 .. n - 1 /\ k \in 1 .. node_count - 1
                            /\ nodes[k].parent \in 0 .. n - 1
  BY VfsAssumption DEF IInv, ArrayOK, ParentsFirst
<1> HIDE DEF f
<1>3. \A k \in 1 .. n - 1 : /\ f[k] \in 1 .. node_count - 1
                            /\ nodes'[k].name = nodes[f[k]].name
                            /\ f[nodes'[k].parent] = nodes[f[k]].parent
  BY <1>1, <1>2
<1>4. \A k \in 0 .. n - 1 : PathOf'[k] = PathOf[f[k]]
  BY <1>1, <1>3, PathsFollow
<1> QED
  BY <1>1, <1>4

LEMMA MakeNodeKeepsTree ==
  ASSUME TreeInv, NEW name \in Name, NEW p \in Resolvable, nodes[p].is_dir, ~Exists(p, name),
         NEW is_dir \in BOOLEAN, NEW size \in 0 .. CONTENT_MAX, is_dir => size = 0,
         MakeNode(name, p, is_dir, size)
  PROVE  TreeInv'
<1>1. IInv'
  BY MakeNodeKeeps DEF TreeInv
<1>2. node_count \in 1 .. MAX_NODES - 1 /\ node_count \in Slot
  BY VfsAssumption DEF TreeInv, IInv, ArrayOK, ParentsFirst, MakeNode, Slot
<1> DEFINE node == [name |-> name, parent |-> p, is_dir |-> is_dir, size |-> size]
<1>3. node.name = name /\ node.parent = p /\ node.is_dir = is_dir /\ node.size = size
  OBVIOUS
<1> HIDE DEF node
<1>4. /\ nodes' = [nodes EXCEPT ![node_count] = node]
      /\ node_count' = node_count + 1 /\ cwd' = cwd /\ home' = home
  BY DEF MakeNode, node
<1>5. nodes'[node_count] = node /\ \A k \in 0 .. node_count - 1 : nodes'[k] = nodes[k]
  BY <1>2, <1>4 DEF TreeInv, IInv, ArrayOK, Slot
<1>6. \A k \in 1 .. node_count - 1 : ~(nodes[k].parent = p /\ nodes[k].name = name)
  BY <1>2 DEF Exists, Children, Used
<1>7. NamesOK'
  <2> SUFFICES ASSUME NEW i \in 1 .. node_count, NEW j \in 1 .. node_count,
                      nodes'[i].parent = nodes'[j].parent, nodes'[i].name = nodes'[j].name
               PROVE  i = j
    BY <1>2, <1>4 DEF NamesOK
  <2>1. /\ i = node_count \/ i \in 1 .. node_count - 1
        /\ j = node_count \/ j \in 1 .. node_count - 1
        /\ 1 .. node_count - 1 \subseteq 0 .. node_count - 1
    BY <1>2
  <2> QED
    BY <1>3, <1>5, <1>6, <2>1 DEF TreeInv, NamesOK
<1>8. EntriesOK'
  <2> SUFFICES ASSUME NEW i \in 0 .. node_count, nodes'[i].is_dir PROVE nodes'[i].size = 0
    BY <1>2, <1>4 DEF EntriesOK, Used
  <2>1. i = node_count \/ i \in 0 .. node_count - 1
    BY <1>2
  <2> QED
    BY <1>3, <1>5, <2>1 DEF TreeInv, EntriesOK, Used
<1>9. HomeOK'
  BY <1>2, <1>4, <1>5 DEF TreeInv, HomeOK
<1> QED
  BY <1>1, <1>7, <1>8, <1>9 DEF TreeInv

LEMMA WriteFileKeepsTree ==
  ASSUME TreeInv, NEW i \in Used, ~nodes[i].is_dir, NEW size \in 0 .. CONTENT_MAX,
         nodes' = [nodes EXCEPT ![i].size = size], UNCHANGED <<node_count, cwd, home>>
  PROVE  TreeInv'
<1>1. i \in Slot /\ Used \subseteq Slot /\ 1 .. node_count - 1 \subseteq Used
  BY VfsAssumption DEF TreeInv, IInv, ArrayOK, Used, Slot
<1>2. IInv'
  BY <1>1, WriteFileKeeps DEF TreeInv
<1>3. \A k \in Slot : /\ nodes'[k].parent = nodes[k].parent /\ nodes'[k].name = nodes[k].name
                      /\ nodes'[k].is_dir = nodes[k].is_dir
                      /\ k # i => nodes'[k].size = nodes[k].size
  BY DEF TreeInv, IInv, ArrayOK, Node
<1>4. NamesOK'
  BY <1>1, <1>3 DEF TreeInv, NamesOK
<1>5. EntriesOK'
  BY <1>1, <1>3 DEF TreeInv, EntriesOK, Used
<1>6. HomeOK'
  <2>1. node_count \in Nat /\ node_count >= 3 /\ 1 \in Used /\ 2 \in Used
    BY DEF TreeInv, IInv, ArrayOK, HomeOK, Used
  <2> QED
    BY <1>1, <1>3, <2>1 DEF TreeInv, HomeOK
<1> QED
  BY <1>2, <1>4, <1>5, <1>6 DEF TreeInv

(* vfs_rm() takes one node away and leaves the others what they are, each  *)
(* under the parent it had.                                                *)
RmFacts(i) ==
  /\ i \in 3 .. node_count - 1 /\ node_count \in 4 .. MAX_NODES /\ node_count' = node_count - 1
  /\ \A k \in 1 .. node_count - 1 : nodes[k].parent # i
  /\ \A k \in 0 .. node_count - 2 :
       /\ From(i, k) \in 0 .. node_count - 1 /\ From(i, k) # i
       /\ nodes'[k].name = nodes[From(i, k)].name
       /\ nodes'[k].is_dir = nodes[From(i, k)].is_dir
       /\ nodes'[k].size = nodes[From(i, k)].size
  /\ \A k \in 1 .. node_count - 2 :
       /\ From(i, k) \in 1 .. node_count - 1
       /\ nodes'[k].parent \in 0 .. node_count - 2
       /\ From(i, nodes'[k].parent) = nodes[From(i, k)].parent

LEMMA RmMoves ==
  ASSUME ~RmAnywhere, TreeInv, NEW i \in Slot, Rm(i)
  PROVE  RmFacts(i)
<1>1. IInv /\ IInv'
  BY RmKeeps DEF TreeInv
<1>2. i \in 1 .. node_count - 1 /\ node_count \in 0 .. MAX_NODES
  BY <1>1, PathsStayInTree, VfsAssumption DEF Rm, Used, IInv, ArrayOK
<1>3. i \in 3 .. node_count - 1 /\ node_count \in 4 .. MAX_NODES
  BY <1>2, VfsAssumption DEF Rm, Behind, TreeInv, HomeOK
<1>4. nodes' = [k \in Slot |-> Reparented(i, k)] /\ node_count' = node_count - 1
  BY DEF Rm
<1>5. \A k \in 1 .. node_count - 1 : nodes[k].parent # i
  <2>1. \A k \in 1 .. node_count - 1 : k \in Used /\ nodes[nodes[k].parent].is_dir
    BY <1>1, <1>3 DEF Used, IInv, ParentsFirst
  <2> QED
    BY <2>1 DEF Rm
<1>6. \A k \in 0 .. node_count - 2 :
        /\ From(i, k) \in 0 .. node_count - 1 /\ From(i, k) # i
        /\ nodes'[k].name = nodes[From(i, k)].name
        /\ nodes'[k].is_dir = nodes[From(i, k)].is_dir
        /\ nodes'[k].size = nodes[From(i, k)].size
  <2> TAKE k \in 0 .. node_count - 2
  <2>1. From(i, k) \in 0 .. node_count - 1 /\ From(i, k) # i
    BY <1>3 DEF From
  <2> QED
    BY <1>1, <1>2, <1>4, <2>1, Renumbering
<1>7. \A k \in 1 .. node_count - 2 :
        /\ From(i, k) \in 1 .. node_count - 1
        /\ nodes'[k].parent \in 0 .. node_count - 2
        /\ From(i, nodes'[k].parent) = nodes[From(i, k)].parent
  <2> TAKE k \in 1 .. node_count - 2
  <2> DEFINE old == From(i, k)
             par == nodes[old].parent
             new == IF par > i THEN par - 1 ELSE par
  <2>1. old \in 1 .. node_count - 1 /\ k \in 0 .. node_count - 2
    BY <1>3 DEF From
  <2>2. par \in 0 .. old - 1 /\ par # i
    BY <1>1, <1>5, <2>1 DEF IInv, ParentsFirst
  <2>3. nodes'[k].parent = new
    BY <1>1, <1>2, <1>4, <2>1, Renumbering
  <2> HIDE DEF old, par
  <2>4. new \in 0 .. node_count - 2 /\ From(i, new) = par
    BY <1>3, <2>1, <2>2 DEF From
  <2> QED
    BY <2>1, <2>3, <2>4 DEF old, par
<1> QED
  BY <1>3, <1>4, <1>5, <1>6, <1>7 DEF RmFacts

LEMMA RmKeepsTree ==
  ASSUME ~RmAnywhere, TreeInv, NEW i \in Slot, Rm(i)
  PROVE  TreeInv'
<1>1. IInv'
  BY RmKeeps DEF TreeInv
<1>2. RmFacts(i)
  BY RmMoves
<1>3. NamesOK'
  <2> SUFFICES ASSUME NEW j \in 1 .. node_count - 2, NEW k \in 1 .. node_count - 2,
                      nodes'[j].parent = nodes'[k].parent, nodes'[j].name = nodes'[k].name
               PROVE  j = k
    BY <1>2 DEF NamesOK, RmFacts
  <2>1. j \in 0 .. node_count - 2 /\ k \in 0 .. node_count - 2
    BY <1>2 DEF RmFacts
  <2>2. From(i, j) = From(i, k)
    BY <1>2, <2>1 DEF RmFacts, TreeInv, NamesOK
  <2> QED
    BY <1>2, <2>2 DEF From, RmFacts
<1>4. EntriesOK'
  BY <1>2 DEF EntriesOK, RmFacts, Used, TreeInv
<1>5. HomeOK'
  <2>1. From(i, 1) = 1 /\ From(i, 2) = 2 /\ 1 \in 1 .. node_count - 2 /\ 2 \in 1 .. node_count - 2
    BY <1>2 DEF RmFacts, From
  <2>2. 1 \in 0 .. node_count - 2 /\ 2 \in 0 .. node_count - 2
    BY <2>1
  <2>3. nodes'[1].parent = 0 /\ nodes'[2].parent = 1
    <3>1. From(i, nodes'[1].parent) = 0 /\ From(i, nodes'[2].parent) = 1
          /\ nodes'[1].parent \in Nat /\ nodes'[2].parent \in Nat /\ i \in Nat
      BY <1>2, <2>1 DEF RmFacts, TreeInv, HomeOK
    <3> QED
      BY <1>2, <3>1 DEF From, RmFacts
  <2>4. node_count' >= 3 /\ home' = 2
    BY <1>2 DEF RmFacts, Rm, Kept, TreeInv, HomeOK
  <2> QED
    BY <1>2, <2>1, <2>2, <2>3, <2>4 DEF RmFacts, TreeInv, HomeOK
<1> QED
  BY <1>1, <1>3, <1>4, <1>5 DEF TreeInv

LEMMA InitTree == Init => TreeInv
<1> SUFFICES ASSUME Init PROVE TreeInv
  OBVIOUS
<1>1. IInv
  BY InitHolds
<1>2. nodes[0] = Directory(NoName, -1) /\ nodes[1] = Directory("home", 0) /\ nodes[2] = Directory("redlion", 1)
  BY VfsAssumption DEF Init, Slot
<1>3. node_count = 3 /\ home = 2
  BY DEF Init
<1>4. /\ nodes[0].size = 0
      /\ nodes[1].parent = 0 /\ nodes[1].name = "home" /\ nodes[1].is_dir /\ nodes[1].size = 0
      /\ nodes[2].parent = 1 /\ nodes[2].name = "redlion" /\ nodes[2].is_dir /\ nodes[2].size = 0
  BY <1>2 DEF Directory
<1>5. NamesOK
  <2>1. \A i \in 1 .. node_count - 1 : i = 1 \/ i = 2
    BY <1>3
  <2> QED
    BY <1>4, <2>1 DEF NamesOK
<1>6. EntriesOK
  <2>1. \A i \in Used : i = 0 \/ i = 1 \/ i = 2
    BY <1>3 DEF Used
  <2> QED
    BY <1>4, <2>1 DEF EntriesOK
<1>7. HomeOK
  BY <1>3, <1>4 DEF HomeOK
<1> QED
  BY <1>1, <1>5, <1>6, <1>7 DEF TreeInv

-----------------------------------------------------------------------------
(* The steps of the array, seen in the picture.                            *)
HomePath == <<"redlion", "home">>

LEMMA Joined == \A a, b : <<a>> \o << >> = <<a>> /\ <<a>> \o <<b>> = <<a, b>>
<1> TAKE a, b
<1> DEFINE S == {a, b}
<1>1. <<a>> \in Seq(S) /\ <<b>> \in Seq(S) /\ << >> \in Seq(S) /\ <<a, b>> \in Seq(S)
  OBVIOUS
<1>2. Len(<<a>>) = 1 /\ Len(<<b>>) = 1 /\ Len(<< >>) = 0 /\ Len(<<a, b>>) = 2
      /\ <<a>>[1] = a /\ <<b>>[1] = b /\ <<a, b>>[1] = a /\ <<a, b>>[2] = b
  OBVIOUS
<1>3. <<a>> \o << >> = <<a>>
  BY <1>1, ConcatEmptySeq
<1> DEFINE q == <<a>> \o <<b>>
           r == <<a, b>>
<1>4. q \in Seq(S) /\ Len(q) = 2 /\ q[1] = a /\ q[2] = b
  BY <1>1, <1>2, ConcatProperties
<1>5. r \in Seq(S) /\ Len(r) = 2 /\ r[1] = a /\ r[2] = b
  BY <1>1, <1>2
<1> HIDE DEF q, r, S
<1>6. \A i \in 1 .. 2 : i = 1 \/ i = 2
  OBVIOUS
<1>7. \A i \in 1 .. Len(q) : q[i] = r[i]
  BY <1>4, <1>5, <1>6
<1>8. q = r
  BY <1>4, <1>5, <1>7, SeqEqual
<1> QED
  BY <1>3, <1>8 DEF q, r

LEMMA SpecialPaths ==
  ASSUME TreeInv
  PROVE  PathOf[0] = << >> /\ PathOf[1] = Tail(HomePath) /\ PathOf[2] = HomePath
<1>1. PathFacts
  BY PathIs DEF TreeInv
<1>2. 1 \in 1 .. node_count - 1 /\ 2 \in 1 .. node_count - 1
  BY VfsAssumption DEF TreeInv, HomeOK, IInv, ArrayOK
<1>3. PathOf[1] = <<"home">> \o PathOf[0] /\ PathOf[2] = <<"redlion">> \o PathOf[1] /\ PathOf[0] = << >>
  BY <1>1, <1>2 DEF PathFacts, TreeInv, HomeOK
<1>4. <<"home">> \o << >> = <<"home">> /\ <<"redlion">> \o <<"home">> = <<"redlion", "home">>
  BY Joined
<1>5. Tail(<<"redlion", "home">>) = <<"home">>
  OBVIOUS
<1> QED
  BY <1>3, <1>4, <1>5 DEF HomePath

LEMMA SameCount == \A S : Tree!Cardinality(S) = Cardinality(S)
  BY Zenon DEF Tree!Cardinality, Cardinality

(* Every node is shown, as what it is.                                     *)
LEMMA Shown ==
  ASSUME Picture
  PROVE  \A i \in Used : /\ PathOf[i] \in DOMAIN Pictured
                         /\ Pictured[PathOf[i]].is_dir = nodes[i].is_dir
                         /\ Pictured[PathOf[i]].size = nodes[i].size
<1> TAKE i \in Used
<1>1. Pictured[PathOf[i]] = Entry(i) /\ PathOf[i] \in DOMAIN Pictured
  BY DEF Picture
<1>2. Entry(i).is_dir = nodes[i].is_dir /\ Entry(i).size = nodes[i].size
  BY DEF Entry
<1> QED
  BY <1>1, <1>2

LEMMA Counted ==
  ASSUME TreeInv
  PROVE  Cardinality(DOMAIN Pictured) \in Nat /\ Cardinality(DOMAIN Pictured) <= node_count
<1> DEFINE T == DOMAIN Pictured
           path == PathOf
           f == [k \in Used |-> path[k]]
<1>1. node_count \in Nat /\ 0 \in Int /\ node_count - 1 \in Int
  BY DEF TreeInv, IInv, ArrayOK
<1>2. IsFiniteSet(Used) /\ Cardinality(Used) = node_count
  BY <1>1, FS_Interval DEF Used
<1>3. T = {path[i] : i \in Used}
  BY PictureIs DEF Picture
<1> HIDE DEF path, T
<1>4. f \in Surjection(Used, T)
  BY <1>3 DEF Surjection
<1> HIDE DEF f
<1> QED
  BY <1>2, <1>4, FS_Surjection, FS_CardinalityType DEF T

(* A new node is one path more, in a directory of the tree.                *)
LEMMA MakeNodeGrows ==
  ASSUME TreeInv, NEW name \in Name \ {NoName}, NEW p \in Resolvable, nodes[p].is_dir, ~Exists(p, name),
         NEW is_dir \in BOOLEAN, NEW size \in 0 .. CONTENT_MAX, is_dir => size = 0,
         MakeNode(name, p, is_dir, size)
  PROVE  Tree!Change
<1> DEFINE new == <<name>> \o PathOf[p]
           entry == [is_dir |-> is_dir, size |-> size]
           node == [name |-> name, parent |-> p, is_dir |-> is_dir, size |-> size]
<1>1. TreeInv'
  BY MakeNodeKeepsTree
<1>2. Picture /\ Picture'
  BY <1>1, PictureIs, PictureNext
<1>3. node_count \in 3 .. MAX_NODES - 1 /\ node_count \in Slot /\ p \in Used /\ cwd \in Used
  BY PathsStayInTree, VfsAssumption DEF TreeInv, HomeOK, PlacesOK, IInv, ArrayOK, MakeNode, Slot
<1>4. node_count' = node_count + 1 /\ cwd' = cwd /\ nodes' = [nodes EXCEPT ![node_count] = node]
  BY DEF MakeNode
<1>5. node.name = name /\ node.parent = p /\ node.is_dir = is_dir /\ node.size = size
  OBVIOUS
<1> HIDE DEF node
<1>6. nodes'[node_count] = node /\ \A k \in Used : nodes'[k] = nodes[k]
  BY <1>3, <1>4 DEF TreeInv, IInv, ArrayOK, Slot, Used
<1>7. \A k \in Used : PathOf'[k] = PathOf[k]
  <2>1. node_count \in Nat /\ node_count >= 1 /\ node_count <= node_count'
    BY <1>3, <1>4
  <2> QED
    BY <1>1, <1>6, <2>1, PathsStay DEF TreeInv, Used
<1>8. PathOf'[node_count] = new
  <2>1. node_count \in 1 .. node_count' - 1
    BY <1>3, <1>4
  <2>2. PathOf'[node_count] = <<node.name>> \o PathOf'[node.parent]
    BY <1>2, <1>6, <2>1 DEF Picture, PathFacts
  <2> QED
    BY <1>3, <1>5, <1>7, <2>2
<1>9. Used' = Used \cup {node_count} /\ node_count \notin Used
  BY <1>3, <1>4 DEF Used
<1> DEFINE path == PathOf
           next == PathOf'
<1>10. new \notin DOMAIN Pictured
  <2> SUFFICES ASSUME new \in DOMAIN Pictured PROVE FALSE
    OBVIOUS
  <2>1. DOMAIN Pictured = {path[i] : i \in Used}
    BY <1>2 DEF Picture
  <2>2. \A i, j \in Used' : next[i] = next[j] => i = j
    BY <1>2 DEF Picture
  <2>3. \A i \in Used : next[i] = path[i]
    BY <1>7
  <2>4. next[node_count] = new
    BY <1>8
  <2> HIDE DEF path, next, new
  <2>5. PICK j \in Used : path[j] = new
    BY <2>1
  <2> QED
    BY <1>9, <2>2, <2>3, <2>4, <2>5
<1>11. (DOMAIN Pictured)' = DOMAIN Pictured \cup {new}
  <2>1. DOMAIN Pictured = {path[i] : i \in Used} /\ (DOMAIN Pictured)' = {next[i] : i \in Used'}
    BY <1>2 DEF Picture
  <2> HIDE DEF path, next
  <2>2. \A i \in Used : next[i] = path[i]
    BY <1>7 DEF path, next
  <2>3. next[node_count] = new
    BY <1>8 DEF next
  <2> HIDE DEF new
  <2> QED
    BY <1>9, <2>1, <2>2, <2>3
<1>12. \A q \in DOMAIN Pictured : Pictured'[q] = Pictured[q]
  <2> TAKE q \in DOMAIN Pictured
  <2>1. DOMAIN Pictured = {path[i] : i \in Used}
    BY <1>2 DEF Picture
  <2> HIDE DEF path
  <2>2. PICK k \in Used : path[k] = q
    BY <2>1
  <2>3. Pictured[PathOf[k]] = Entry(k)
    BY <1>2 DEF Picture
  <2>4. Pictured'[PathOf'[k]] = Entry(k)'
    BY <1>2, <1>9 DEF Picture
  <2>5. Entry(k)' = Entry(k)
    BY <1>6 DEF Entry
  <2> QED
    BY <1>7, <2>2, <2>3, <2>4, <2>5 DEF path
<1>13. Pictured'[new] = entry
  <2>1. Pictured'[PathOf'[node_count]] = [is_dir |-> nodes'[node_count].is_dir, size |-> nodes'[node_count].size]
    BY <1>2, <1>4, <1>9 DEF Picture, Entry
  <2> QED
    BY <1>5, <1>6, <1>8, <2>1
<1>14. Pictured' = Tree!With(Pictured, new, entry)
  <2>1. Pictured' = [q \in (DOMAIN Pictured)' |-> Pictured'[q]]
    BY <1>2 DEF Picture
  <2> HIDE DEF new, entry
  <2> QED
    BY <1>10, <1>11, <1>12, <1>13, <2>1 DEF Tree!With
<1>15. new \in Tree!Free(Pictured)
  <2> DEFINE q == PathOf[p]
  <2>1. q \in Tree!Dirs(Pictured)
    BY <1>2, <1>3, Shown DEF Tree!Dirs
  <2>2. new = <<name>> \o q
    OBVIOUS
  <2> HIDE DEF q, new
  <2> QED
    BY <1>10, <2>1, <2>2 DEF Tree!Free
<1>16. entry \in {Tree!Dir} \cup Tree!File
  BY DEF Tree!Dir, Tree!File
<1>17. Tree!Cardinality(DOMAIN Pictured) < MAX_NODES
  <2>1. Cardinality(DOMAIN Pictured) \in Nat /\ Cardinality(DOMAIN Pictured) <= node_count
    BY Counted
  <2>2. Tree!Cardinality(DOMAIN Pictured) = Cardinality(DOMAIN Pictured)
    BY SameCount
  <2> QED
    BY <1>3, <2>1, <2>2, VfsAssumption
<1>18. (PathOf[cwd])' = PathOf[cwd]
  BY <1>3, <1>4, <1>7
<1> HIDE DEF new, entry
<1>19. Pictured' \in Tree!Grown(Pictured)
  BY <1>14, <1>15, <1>16, <1>17 DEF Tree!Grown
<1> QED
  BY <1>18, <1>19 DEF Tree!Change

LEMMA OneRewritten ==
  \A tree, p, f : p \in DOMAIN tree \ Tree!Dirs(tree) /\ f \in Tree!File =>
                   [tree EXCEPT ![p] = f] \in Tree!Rewritten(tree)
  BY DEF Tree!Rewritten

(* A file that is written keeps its path.                                  *)
LEMMA WriteFileRewrites ==
  ASSUME TreeInv, NEW i \in Used, ~nodes[i].is_dir, NEW size \in 0 .. CONTENT_MAX,
         nodes' = [nodes EXCEPT ![i].size = size], UNCHANGED <<node_count, cwd, home>>
  PROVE  Tree!Change
<1> DEFINE path == PathOf
           file == [is_dir |-> FALSE, size |-> size]
<1>1. TreeInv'
  BY WriteFileKeepsTree
<1>2. Picture /\ Picture'
  BY <1>1, PictureIs, PictureNext
<1>3. i \in Slot /\ Used \subseteq Slot /\ Used' = Used /\ node_count \in Nat /\ node_count >= 1 /\ cwd \in Used
  BY VfsAssumption DEF TreeInv, IInv, ArrayOK, ParentsFirst, PlacesOK, Used, Slot
<1>4. \A k \in Used : /\ nodes'[k].parent = nodes[k].parent /\ nodes'[k].name = nodes[k].name
                      /\ nodes'[k].is_dir = nodes[k].is_dir
                      /\ nodes'[k].size = IF k = i THEN size ELSE nodes[k].size
  BY <1>3 DEF TreeInv, IInv, ArrayOK, Node
<1>5. \A k \in Used : PathOf'[k] = path[k]
  BY <1>1, <1>3, <1>4, PathsStay DEF TreeInv, Used
<1>6. DOMAIN Pictured = {path[k] : k \in Used} /\ \A j, k \in Used : path[j] = path[k] => j = k
  BY <1>2 DEF Picture
<1>7. (DOMAIN Pictured)' = DOMAIN Pictured
  <2> DEFINE next == PathOf'
  <2>1. (DOMAIN Pictured)' = {next[k] : k \in Used}
    BY <1>2, <1>3 DEF Picture
  <2>2. \A k \in Used : next[k] = path[k]
    BY <1>5
  <2> HIDE DEF path, next
  <2> QED
    BY <1>6, <2>1, <2>2
<1>8. \A k \in Used : Pictured'[path[k]] = IF k = i THEN file ELSE Pictured[path[k]]
  <2> TAKE k \in Used
  <2>1. Pictured'[path[k]] = [is_dir |-> nodes'[k].is_dir, size |-> nodes'[k].size]
    BY <1>2, <1>3, <1>5 DEF Picture, Entry
  <2>2. Pictured[path[k]] = [is_dir |-> nodes[k].is_dir, size |-> nodes[k].size]
    BY <1>2 DEF Picture, Entry
  <2>3. nodes[i].is_dir = FALSE
    BY <1>3 DEF TreeInv, IInv, ArrayOK, Node
  <2> QED
    BY <1>4, <2>1, <2>2, <2>3
<1>9. path[i] \in DOMAIN Pictured \ Tree!Dirs(Pictured)
  BY <1>2, Shown DEF Tree!Dirs
<1>10. file \in Tree!File
  BY DEF Tree!File
<1>11. Pictured' = [Pictured EXCEPT ![path[i]] = file]
  <2>1. Pictured' = [q \in (DOMAIN Pictured)' |-> Pictured'[q]] /\ Pictured = [q \in DOMAIN Pictured |-> Pictured[q]]
    BY <1>2 DEF Picture
  <2> DEFINE D == DOMAIN Pictured
             old(q) == Pictured[q]
             now(q) == Pictured'[q]
  <2>2. \A q \in D : now(q) = IF q = path[i] THEN file ELSE old(q)
    <3> TAKE q \in D
    <3> HIDE DEF path
    <3>1. PICK k \in Used : path[k] = q
      BY <1>6
    <3> QED
      BY <1>6, <1>8, <3>1
  <2>3. Pictured' = [q \in D |-> now(q)] /\ Pictured = [q \in D |-> old(q)]
    BY <1>7, <2>1
  <2> HIDE DEF D, old, now, file, path
  <2> QED
    BY <2>2, <2>3
<1> HIDE DEF file
<1>12. Pictured' \in Tree!Rewritten(Pictured)
  <2> DEFINE q == path[i]
  <2>1. q \in DOMAIN Pictured \ Tree!Dirs(Pictured) /\ Pictured' = [Pictured EXCEPT ![q] = file]
    BY <1>9, <1>11
  <2> HIDE DEF q, path
  <2> QED
    BY <1>10, <2>1, OneRewritten
<1>13. (PathOf[cwd])' = PathOf[cwd]
  BY <1>3, <1>5
<1> QED
  BY <1>12, <1>13 DEF Tree!Change

(* A call that leaves nodes and cwd alone shows in no path.                *)
LEMMA NothingShows ==
  ASSUME UNCHANGED <<nodes, node_count, cwd>>
  PROVE  UNCHANGED Tree!vars
<1>1. Used' = Used
  BY DEF Used
<1>2. PathOf' = PathOf
  BY <1>1 DEF PathOf
<1>3. Pictured' = Pictured
  BY <1>1, <1>2 DEF Pictured
<1>4. (PathOf[cwd])' = PathOf[cwd]
  BY <1>2
<1> QED
  BY <1>3, <1>4 DEF Tree!vars

LEMMA SetCwdIsCd ==
  ASSUME TreeInv, NEW i \in Slot, SetCwd(i)
  PROVE  Tree!Cd
<1>1. i \in Used /\ nodes[i].is_dir /\ cwd' = i /\ UNCHANGED <<nodes, node_count>>
  BY PathsStayInTree DEF SetCwd, TreeInv
<1>2. Used' = Used
  BY <1>1 DEF Used
<1>3. PathOf' = PathOf
  BY <1>1, <1>2 DEF PathOf
<1>4. Pictured' = Pictured
  BY <1>1, <1>2, <1>3 DEF Pictured
<1>5. (PathOf[cwd])' = PathOf[i]
  BY <1>1, <1>3
<1>6. PathOf[i] \in Tree!Dirs(Pictured)
  BY <1>1, PictureIs, Shown DEF Tree!Dirs
<1> QED
  BY <1>4, <1>5, <1>6 DEF Tree!Cd

(* The removed node was a path that no other path goes through, and the    *)
(* renumbered ones keep theirs.                                            *)
LEMMA RmIsRemove ==
  ASSUME ~RmAnywhere, TreeInv, NEW i \in Slot, Rm(i)
  PROVE  Tree!Remove
<1> DEFINE path == PathOf
           next == PathOf'
           p == path[i]
           Left == 0 .. node_count - 2
<1>1. TreeInv'
  BY RmKeepsTree
<1>2. Picture /\ Picture'
  BY <1>1, PictureIs, PictureNext
<1>3. RmFacts(i)
  BY RmMoves
<1>4. i \in 3 .. node_count - 1 /\ node_count \in 4 .. MAX_NODES /\ node_count' = node_count - 1
  BY <1>3 DEF RmFacts
<1>5. Used = 0 .. node_count - 1 /\ Used' = Left
  BY <1>4 DEF Used
<1>6. \A k \in Left : next[k] = path[From(i, k)]
  <2> DEFINE f == [k \in Left |-> From(i, k)]
             n == node_count - 1
  <2>1. n \in Nat /\ n >= 1 /\ n <= node_count' /\ 0 \in Left /\ From(i, 0) = 0
        /\ n - 1 = node_count - 2 /\ \A k \in 1 .. n - 1 : k \in Left
    BY <1>4 DEF From
  <2>2. \A k \in Left : f[k] = From(i, k)
    OBVIOUS
  <2> HIDE DEF f
  <2>3. f[0] = 0
    BY <2>1, <2>2
  <2>4. \A k \in 1 .. n - 1 : /\ f[k] \in 1 .. node_count - 1
                              /\ nodes'[k].name = nodes[f[k]].name
                              /\ f[nodes'[k].parent] = nodes[f[k]].parent
    BY <1>3, <2>1, <2>2 DEF RmFacts
  <2> HIDE DEF n
  <2>5. \A k \in 0 .. n - 1 : PathOf'[k] = PathOf[f[k]]
    BY <1>1, <2>1, <2>3, <2>4, PathsFollow DEF TreeInv
  <2> QED
    BY <2>1, <2>2, <2>5
<1>7. DOMAIN Pictured = {path[k] : k \in Used} /\ \A j, k \in Used : path[j] = path[k] => j = k
  BY <1>2 DEF Picture
<1>8. (DOMAIN Pictured)' = {next[k] : k \in Left}
  BY <1>2, <1>5 DEF Picture
<1>9. \A k \in Used \ {i} : \E j \in Left : From(i, j) = k
  <2> TAKE k \in Used \ {i}
  <2>1. CASE k < i
    <3>1. k \in Left /\ From(i, k) = k
      BY <1>4, <1>5, <2>1 DEF From
    <3> QED
      BY <3>1
  <2>2. CASE ~(k < i)
    <3>1. k - 1 \in Left /\ From(i, k - 1) = k
      BY <1>4, <1>5, <2>2 DEF From
    <3> QED
      BY <3>1
  <2> QED
    BY <2>1, <2>2
<1>10. \A k \in Left : From(i, k) \in Used \ {i}
  BY <1>3, <1>5 DEF RmFacts
<1> HIDE DEF Left
<1>11. (DOMAIN Pictured)' = DOMAIN Pictured \ {p}
  <2> HIDE DEF path, next
  <2> QED
    BY <1>4, <1>5, <1>6, <1>7, <1>8, <1>9, <1>10
<1>12. \A q \in (DOMAIN Pictured)' : Pictured'[q] = Pictured[q]
  <2> TAKE q \in (DOMAIN Pictured)'
  <2>1. PICK k \in Left : q = next[k]
    <3> HIDE DEF next
    <3> QED
      BY <1>8
  <2>2. Pictured'[PathOf'[k]] = [is_dir |-> nodes'[k].is_dir, size |-> nodes'[k].size]
    BY <1>2, <1>5 DEF Picture, Entry
  <2>3. Pictured[PathOf[From(i, k)]] = [is_dir |-> nodes[From(i, k)].is_dir, size |-> nodes[From(i, k)].size]
    BY <1>2, <1>10 DEF Picture, Entry
  <2> QED
    BY <1>3, <1>6, <2>1, <2>2, <2>3 DEF RmFacts, Left
<1>13. Pictured' = Tree!Without(Pictured, p)
  <2>1. Pictured' = [q \in (DOMAIN Pictured)' |-> Pictured'[q]]
    BY <1>2 DEF Picture
  <2> HIDE DEF p
  <2> QED
    BY <1>11, <1>12, <2>1 DEF Tree!Without
<1>14. p \in Tree!Leaves(Pictured)
  <2>1. \A q \in DOMAIN Pictured \ {<< >>} : Tail(q) # p
    <3> SUFFICES ASSUME NEW q \in DOMAIN Pictured, q # << >> PROVE Tail(q) # p
      OBVIOUS
    <3>1. PICK k \in Used : path[k] = q
      <4> HIDE DEF path
      <4> QED
        BY <1>7
    <3>2. k \in 1 .. node_count - 1
      <4>1. path[0] = << >>
        BY <1>2 DEF Picture, PathFacts
      <4>2. k # 0
        BY <3>1, <4>1
      <4> QED
        BY <1>4, <1>5, <4>2
    <3> DEFINE a == nodes[k].name
               up == nodes[k].parent
    <3>3. a \in Name /\ up \in Used /\ up # i
      <4>1. k \in Slot /\ nodes \in [Slot -> Node]
        BY <1>4, <3>2, VfsAssumption DEF TreeInv, IInv, ArrayOK, Slot
      <4>2. a \in Name
        BY <4>1 DEF Node
      <4>3. up \in 0 .. k - 1 /\ up # i
        BY <1>3, <3>2 DEF TreeInv, IInv, ParentsFirst, RmFacts
      <4> HIDE DEF up
      <4>4. up \in Used
        BY <1>4, <1>5, <3>2, <4>3
      <4> QED
        BY <4>2, <4>3, <4>4
    <3>4. path[k] = <<a>> \o path[up] /\ path[up] \in Seq(Name)
      BY <1>2, <3>2, <3>3 DEF Picture, PathFacts
    <3> HIDE DEF path, a, up
    <3>5. Tail(q) = path[up]
      BY <3>1, <3>3, <3>4, OneMore
    <3> QED
      BY <1>4, <1>5, <1>7, <3>3, <3>5
  <2>2. p \in DOMAIN Pictured
    <3> HIDE DEF path
    <3> QED
      BY <1>4, <1>5, <1>7
  <2> HIDE DEF p
  <2> QED
    BY <2>1, <2>2 DEF Tree!Leaves, Tree!Root
<1>15. p # Tree!Root /\ p # HomePath
  <2>1. path[0] = << >> /\ path[2] = HomePath /\ 0 \in Used /\ 2 \in Used /\ i \in Used /\ i # 0 /\ i # 2
    BY <1>4, <1>5, SpecialPaths
  <2> QED
    BY <1>7, <2>1 DEF Tree!Root
<1>16. (PathOf[cwd])' = IF PathOf[cwd] = p THEN HomePath ELSE PathOf[cwd]
  <2>1. cwd \in Used /\ (cwd < i \/ (cwd = i /\ cwd = node_count - 1)) /\ home = 2
        /\ cwd' = IF cwd >= node_count - 1 THEN 2 ELSE cwd
    BY DEF Rm, Behind, Kept, TreeInv, IInv, PlacesOK, HomeOK
  <2>2. CASE cwd = i
    <3>1. cwd' = 2 /\ 2 \in Left /\ From(i, 2) = 2
      BY <1>4, <2>1, <2>2 DEF From, Left
    <3>2. next[2] = HomePath
      BY <1>6, <3>1, SpecialPaths
    <3> QED
      BY <2>2, <3>1, <3>2
  <2>3. CASE cwd < i
    <3>1. cwd' = cwd /\ cwd \in Left /\ From(i, cwd) = cwd /\ cwd # i
      BY <1>4, <1>5, <2>1, <2>3 DEF From, Left
    <3>2. next[cwd] = path[cwd]
      BY <1>6, <3>1
    <3>3. path[cwd] # p
      BY <1>4, <1>5, <1>7, <2>1, <3>1
    <3> QED
      BY <3>1, <3>2, <3>3
  <2> QED
    BY <2>1, <2>2, <2>3
<1> HIDE DEF p
<1> QED
  BY <1>13, <1>14, <1>15, <1>16 DEF Tree!Remove, HomePath

LEMMA InitIsInit == Init => Tree!Init
<1> SUFFICES ASSUME Init PROVE Tree!Init
  OBVIOUS
<1> DEFINE path == PathOf
           D == DOMAIN Pictured
<1>1. TreeInv
  BY InitTree
<1>2. Picture /\ path[0] = << >> /\ path[1] = Tail(HomePath) /\ path[2] = HomePath
  BY <1>1, PictureIs, SpecialPaths
<1>3. cwd = 2 /\ Used = {0, 1, 2}
  BY DEF Init, Used
<1>4. D = {path[i] : i \in Used} /\ Pictured = [q \in D |-> Pictured[q]]
  BY <1>2 DEF Picture
<1>5. \A i \in Used : Pictured[path[i]] = Tree!Dir
  <2> TAKE i \in Used
  <2>1. nodes[0] = Directory(NoName, -1) /\ nodes[1] = Directory("home", 0) /\ nodes[2] = Directory("redlion", 1)
    BY VfsAssumption DEF Init, Slot
  <2>2. \E name, parent : nodes[i] = Directory(name, parent)
    BY <1>3, <2>1
  <2>3. nodes[i].is_dir = TRUE /\ nodes[i].size = 0
    BY <2>2 DEF Directory
  <2>4. Pictured[path[i]] = Entry(i)
    BY <1>2 DEF Picture
  <2> QED
    BY <2>3, <2>4 DEF Entry, Tree!Dir
<1> HIDE DEF path, D
<1>6. D = {<< >>, Tail(HomePath), HomePath}
  BY <1>2, <1>3, <1>4
<1>7. \A q \in D : Pictured[q] = Tree!Dir
  BY <1>4, <1>5
<1>8. Pictured = [q \in {<< >>, Tail(HomePath), HomePath} |-> Tree!Dir]
  BY <1>4, <1>6, <1>7
<1>9. PathOf[cwd] = HomePath
  BY <1>2, <1>3 DEF path
<1> QED
  BY <1>8, <1>9 DEF Tree!Init, Tree!Root, HomePath

LEMMA StepIsStep ==
  ASSUME ~RmAnywhere, TreeInv, [Next]_vars
  PROVE  TreeInv' /\ [Tree!Next]_(Tree!vars)
<1>1. \A n \in Nat : Clip(n) \in 0 .. CONTENT_MAX
  BY VfsAssumption DEF Clip
<1>2. ASSUME NEW p \in Slot, NEW name \in Name \ {NoName}, Mkdir(p, name)
      PROVE  TreeInv' /\ Tree!Change
  <2>1. p \in Resolvable /\ nodes[p].is_dir /\ ~Exists(p, name) /\ MakeNode(name, p, TRUE, 0)
    BY <1>2, Zenon DEF Mkdir
  <2>2. TRUE \in BOOLEAN /\ 0 \in 0 .. CONTENT_MAX /\ name \in Name
    BY VfsAssumption
  <2>3. TreeInv'
    BY <2>1, <2>2, MakeNodeKeepsTree
  <2>4. Tree!Change
    BY <2>1, <2>2, MakeNodeGrows
  <2> QED
    BY <2>3, <2>4
<1>3. ASSUME NEW p \in Slot, NEW name \in Name \ {NoName}, NEW len \in 0 .. CONTENT_MAX + 1,
             CreateFile(p, name, len)
      PROVE  TreeInv' /\ Tree!Change
  <2> DEFINE size == Clip(len)
  <2>1. p \in Resolvable /\ nodes[p].is_dir /\ ~Exists(p, name) /\ MakeNode(name, p, FALSE, size)
    BY <1>3, Zenon DEF CreateFile
  <2>2. FALSE \in BOOLEAN /\ size \in 0 .. CONTENT_MAX /\ name \in Name
    BY <1>1, VfsAssumption
  <2> HIDE DEF size
  <2>3. TreeInv'
    BY <2>1, <2>2, MakeNodeKeepsTree
  <2>4. Tree!Change
    BY <2>1, <2>2, MakeNodeGrows
  <2> QED
    BY <2>3, <2>4
<1>4. ASSUME NEW i \in Slot, NEW len \in 0 .. CONTENT_MAX + 1, NEW append \in BOOLEAN,
             WriteFile(i, len, append)
      PROVE  TreeInv' /\ Tree!Change
  <2>1. nodes[i].size \in Nat
    BY VfsAssumption DEF TreeInv, IInv, ArrayOK, Node
  <2> DEFINE size == IF append THEN Clip(nodes[i].size + len) ELSE Clip(len)
  <2>2. size \in 0 .. CONTENT_MAX
    BY <1>1, <2>1, VfsAssumption
  <2>3. /\ i \in Used /\ ~nodes[i].is_dir /\ nodes' = [nodes EXCEPT ![i].size = size]
        /\ UNCHANGED <<node_count, cwd, home>>
    BY <1>4 DEF WriteFile
  <2> HIDE DEF size
  <2>4. TreeInv'
    BY <2>2, <2>3, WriteFileKeepsTree
  <2>5. Tree!Change
    BY <2>2, <2>3, WriteFileRewrites
  <2> QED
    BY <2>4, <2>5
<1>5. ASSUME UNCHANGED <<nodes, node_count, home>>, IInv' PROVE TreeInv'
  BY <1>5 DEF TreeInv, NamesOK, EntriesOK, HomeOK, Used
<1>6. IInv'
  BY StepKeeps DEF TreeInv
<1>7. ASSUME NEW i \in Slot, SetCwd(i) PROVE TreeInv' /\ Tree!Cd
  BY <1>5, <1>6, <1>7, SetCwdIsCd DEF SetCwd
<1>8. ASSUME NEW i \in Slot, Rm(i) PROVE TreeInv' /\ Tree!Remove
  BY <1>8, RmKeepsTree, RmIsRemove
<1>9. ASSUME UNCHANGED <<nodes, node_count, cwd, home>> PROVE TreeInv' /\ UNCHANGED Tree!vars
  BY <1>5, <1>6, <1>9, NothingShows
<1>10. CASE \E i \in Slot : Touch(i)
  BY <1>9, <1>10 DEF Touch
<1>11. CASE EditsClear
  BY <1>9, <1>11 DEF EditsClear
<1>12. CASE UNCHANGED vars
  BY <1>9, <1>12 DEF vars
<1> QED
  BY <1>2, <1>3, <1>4, <1>7, <1>8, <1>10, <1>11, <1>12 DEF Next, Tree!Next

(* In an array of any size and for any names: what a user sees is a tree of *)
(* paths of which every call changes the one it names, although vfs_rm()    *)
(* renumbers the nodes behind the removed one.                             *)
THEOREM ArrayIsTree == ~RmAnywhere /\ Spec => IsFileTree
<1> DEFINE Inv == ~RmAnywhere /\ TreeInv
<1>1. ~RmAnywhere /\ Init => Inv /\ Tree!Init
  BY InitTree, InitIsInit
<1>2. Inv /\ [Next]_vars => Inv' /\ [Tree!Next]_(Tree!vars)
  BY StepIsStep
<1> HIDE DEF Inv
<1> QED
  BY <1>1, <1>2, PTL DEF Spec, IsFileTree, Tree!Spec
=============================================================================
