-------------------------------- MODULE Heap --------------------------------
(***************************************************************************)
(* The kernel heap of kernel/kheap.c over the frames of kernel/pmm.c: one  *)
(* list of blocks from the start of the heap's address range, extended by  *)
(* whole frames.                                                           *)
(*                                                                         *)
(* Addresses count from KHEAP_START.  next is the order of the sequence;   *)
(* prev is the address in the header, which lags behind.  The frames that  *)
(* directories, page tables and programs take come from the same bitmap.   *)
(* Memory is identity-mapped before the heap's frames are mapped over it,  *)
(* so page tables for the range are there (paging.c), and a block that the *)
(* heap has no frames for lies in whatever frames have its address.        *)
(*                                                                         *)
(* Headers are in the memory of the blocks.  The list is what the headers  *)
(* say as long as that memory is the heap's own: the heap goes astray when *)
(* a block is put where no frame of the heap is, or when a page with a     *)
(* header or a held byte on it is mapped again to another frame.  What the *)
(* calls do from then on depends on what others write, and is left out.    *)
(***************************************************************************)
EXTENDS Integers, Sequences, FiniteSets, SequencesExt

CONSTANTS
  HEADER, KHEAP_BLOCK_MIN, \* 20 and 16 bytes in the code
  PMM_FRAME_SIZE,          \* 4096
  INITIAL,                 \* bytes of the first extension, 65536
  KHEAP_END,               \* length of the range, 96 MB
  TotalFrames,             \* pmm_total_frames
  KernelFrames,            \* frames taken before the heap: 0, the first megabyte, the kernel
  Request                  \* sizes that are asked for

ASSUME HeapAssumption ==
  /\ {HEADER, KHEAP_BLOCK_MIN, PMM_FRAME_SIZE} \subseteq Nat \ {0}
  /\ INITIAL \in Nat /\ KHEAP_END \in Nat /\ KHEAP_END % PMM_FRAME_SIZE = 0
  /\ TotalFrames \in Nat \ {0} /\ KernelFrames \subseteq 0 .. TotalFrames - 1 /\ 0 \in KernelFrames
  /\ Request \subseteq Nat \ {0}

VARIABLES
  heap,    \* blocks, heap_current, heap_used, and mapped: the frame behind each page
  bitmap,  \* the frames that are taken
  failed,  \* an extension has stopped halfway
  astray,  \* headers or held bytes are not in the heap's own memory any more
  others,  \* frames that directories, page tables and programs have
  live     \* what was asked for at each pointer that clients hold

vars == <<heap, bitmap, failed, astray, others, live>>

NULL == -1
Frame == 0 .. TotalFrames - 1
Total(size) == IF size < KHEAP_BLOCK_MIN THEN KHEAP_BLOCK_MIN + HEADER ELSE size + HEADER

(* pmm_alloc_frame(): the lowest frame that is free.                       *)
FreeFrames(taken) == Frame \ taken
LowestFree(taken) == CHOOSE f \in FreeFrames(taken) : \A g \in FreeFrames(taken) : f <= g

(* A block of the list, headed by its size, its use and its link.          *)
Block(addr, size, used, prev) == [addr |-> addr, size |-> size, used |-> used, prev |-> prev]

PageOf(x) == x \div PMM_FRAME_SIZE

(* The bytes of a block that the heap or a client has written to keep.     *)
Kept(blk) == blk.addr .. blk.addr + (IF blk.used THEN blk.size ELSE HEADER) - 1
Touched(blocks, page) == \E i \in 1 .. Len(blocks) : \E x \in Kept(blocks[i]) : PageOf(x) = page

(* Addresses with a frame of the heap behind every one of them.            *)
Backed(mapped, addresses) == \A x \in addresses : PageOf(x) \in DOMAIN mapped /\ mapped[PageOf(x)] # NULL

(***************************************************************************)
(* A heap is changed together with the bitmap: state s.                    *)
(***************************************************************************)
(* extend_heap(): frame by frame; what is mapped when it stops halfway     *)
(* stays mapped, and heap_current where it was, so that the next extension *)
(* maps the same pages to other frames.                                    *)
MapPage(t, i) ==
  IF t.stopped \/ t.heap_current + i * PMM_FRAME_SIZE >= KHEAP_END \/ FreeFrames(t.bitmap) = {}
  THEN [t EXCEPT !.stopped = TRUE]
  ELSE LET page == t.heap_current \div PMM_FRAME_SIZE + i
       IN  [t EXCEPT !.bitmap = @ \cup {LowestFree(@)}, !.mapped[page] = LowestFree(t.bitmap),
                     !.astray = @ \/ Touched(t.blocks, page)]

Extended(s, size) ==
  LET pages == (size + PMM_FRAME_SIZE - 1) \div PMM_FRAME_SIZE
      after[n \in 0 .. pages] == IF n = 0 THEN [s EXCEPT !.stopped = FALSE] ELSE MapPage(after[n - 1], n - 1)
      done == after[pages]
  IN  IF done.stopped THEN [done EXCEPT !.failed = TRUE]
      ELSE [done EXCEPT !.heap_current = @ + pages * PMM_FRAME_SIZE]

(* A block whose prev is set again, if there is one.                       *)
Relinked(blocks, i, prev) == IF i \in 1 .. Len(blocks) THEN [blocks EXCEPT ![i].prev = prev] ELSE blocks

(* Mutant: the first free block is taken, whatever its size. *)
MutFits(b, total) == ~b.used

Fits(b, total) == ~b.used /\ b.size >= total

(* The first block that fits, split if what is left is a block.            *)
TakeFit(s, total) ==
  LET i    == CHOOSE k \in 1 .. Len(s.blocks) :
                Fits(s.blocks[k], total) /\ \A j \in 1 .. k - 1 : ~Fits(s.blocks[j], total)
      blk  == s.blocks[i]
      rest == Block(blk.addr + total, blk.size - total, FALSE, blk.addr)
      split == blk.size >= total + HEADER + KHEAP_BLOCK_MIN
      size == IF split THEN total ELSE blk.size
      cut  == IF split THEN InsertAt(Relinked(s.blocks, i + 1, rest.addr), i + 1, rest) ELSE s.blocks
  IN  [s |-> [s EXCEPT !.blocks = [cut EXCEPT ![i].size = size, ![i].used = TRUE], !.heap_used = @ + size],
       at |-> blk.addr + HEADER]

(* A new last block, whether or not the extension before it has succeeded. *)
(* Its prev is taken from in front of it, where no header is, and its own  *)
(* header goes to the memory that is there.                                *)
AppendBlock(s, total) ==
  LET addr == IF s.blocks = << >> THEN 0 ELSE Last(s.blocks).addr + Last(s.blocks).size
  IN  [s |-> [s EXCEPT !.blocks = Append(@, Block(addr, total, TRUE, NULL)), !.heap_used = @ + total,
                       !.astray = @ \/ ~Backed(s.mapped, addr .. addr + total - 1)],
       at |-> addr + HEADER]

Kmalloc(s, size) ==
  IF \E i \in 1 .. Len(s.blocks) : Fits(s.blocks[i], Total(size))
  THEN TakeFit(s, Total(size))
  ELSE AppendBlock(Extended(s, Total(size)), Total(size))

IndexOf(blocks, addr) == CHOOSE i \in 1 .. Len(blocks) : blocks[i].addr = addr

(* Merging the block behind the i-th into it.                              *)
MergeNext(blocks, i) ==
  IF i < Len(blocks) /\ ~blocks[i + 1].used
  THEN Relinked(RemoveAt([blocks EXCEPT ![i].size = @ + blocks[i + 1].size], i + 1), i + 1, blocks[i].addr)
  ELSE blocks

(* Mutant: the block behind keeps its link to the one that is gone. *)
MutMergePrev(blocks, i) ==
  IF blocks[i].prev # NULL /\ ~blocks[IndexOf(blocks, blocks[i].prev)].used
  THEN LET j == IndexOf(blocks, blocks[i].prev)
       IN  SubSeq([blocks EXCEPT ![j].size = @ + blocks[i].size], 1, j) \o SubSeq(blocks, i + 1, Len(blocks))
  ELSE blocks

(* Merging the i-th block into the one its prev names.                     *)
MergePrev(blocks, i) ==
  IF blocks[i].prev # NULL /\ ~blocks[IndexOf(blocks, blocks[i].prev)].used
  THEN LET j == IndexOf(blocks, blocks[i].prev)
       IN  Relinked(SubSeq([blocks EXCEPT ![j].size = @ + blocks[i].size], 1, j)
                      \o SubSeq(blocks, i + 1, Len(blocks)), j + 1, blocks[j].addr)
  ELSE blocks

Kfree(s, at) ==
  LET i == IndexOf(s.blocks, at - HEADER)
  IN  [s EXCEPT !.blocks = MergePrev(MergeNext([@ EXCEPT ![i].used = FALSE], i), i),
                !.heap_used = @ - s.blocks[i].size]

(***************************************************************************)
(* The calls.                                                              *)
(***************************************************************************)
Here == [blocks |-> heap.blocks, heap_current |-> heap.heap_current, heap_used |-> heap.heap_used,
         mapped |-> heap.mapped, bitmap |-> bitmap, failed |-> failed, astray |-> astray, stopped |-> FALSE]

Becomes(s) ==
  /\ heap' = [blocks |-> s.blocks, heap_current |-> s.heap_current, heap_used |-> s.heap_used, mapped |-> s.mapped]
  /\ bitmap' = s.bitmap
  /\ failed' = s.failed
  /\ astray' = s.astray

(* kheap_init(), behind pmm_init() and paging_init().                      *)
Init ==
  /\ LET s == Extended([blocks |-> << >>, heap_current |-> 0, heap_used |-> 0,
                        mapped |-> [p \in 0 .. KHEAP_END \div PMM_FRAME_SIZE - 1 |-> NULL],
                        bitmap |-> KernelFrames, failed |-> FALSE, astray |-> FALSE, stopped |-> FALSE], INITIAL)
     IN  /\ heap = [blocks |-> << >>, heap_current |-> s.heap_current, heap_used |-> 0, mapped |-> s.mapped]
         /\ bitmap = s.bitmap /\ failed = s.failed /\ astray = FALSE
  /\ others = {}
  /\ live = << >>

Put(at, size) == [p \in DOMAIN live \cup {at} |-> IF p = at THEN size ELSE live[p]]

(* kmalloc(), and kcalloc(); a request for nothing gets nothing.           *)
Malloc(size) ==
  LET r == Kmalloc(Here, size)
  IN  /\ ~astray
      /\ Becomes(r.s)
      /\ live' = Put(r.at, size)
      /\ UNCHANGED others

(* kfree() of a pointer that is held, and krealloc() of it to nothing.     *)
Free(at) ==
  /\ ~astray
  /\ Becomes(Kfree(Here, at))
  /\ live' = [p \in DOMAIN live \ {at} |-> live[p]]
  /\ UNCHANGED others

(* krealloc(): in place if the block is large enough, else a new block,    *)
(* and the old one is freed after it.                                      *)
Realloc(at, size) ==
  LET blk == heap.blocks[IndexOf(heap.blocks, at - HEADER)]
      r   == Kmalloc(Here, size)
  IN  /\ ~astray
      /\ UNCHANGED others
      /\ IF size <= blk.size - HEADER
         THEN /\ live' = [live EXCEPT ![at] = size]
              /\ UNCHANGED <<heap, bitmap, failed, astray>>
         ELSE /\ Becomes(Kfree(r.s, at))
              /\ live' = [p \in (DOMAIN live \ {at}) \cup {r.at} |-> IF p = r.at THEN size ELSE live[p]]

(* pmm_alloc_frame() for a directory, a page table or a program, and       *)
(* pmm_free_frame() when a process is not created after all.               *)
TakeFrame ==
  /\ FreeFrames(bitmap) # {}
  /\ bitmap' = bitmap \cup {LowestFree(bitmap)}
  /\ others' = others \cup {LowestFree(bitmap)}
  /\ UNCHANGED <<heap, failed, astray, live>>

GiveFrame(f) ==
  /\ bitmap' = bitmap \ {f}
  /\ others' = others \ {f}
  /\ UNCHANGED <<heap, failed, astray, live>>

Next ==
  \/ \E size \in Request : Malloc(size)
  \/ \E at \in DOMAIN live : Free(at)
  \/ \E at \in DOMAIN live, size \in Request : Realloc(at, size)
  \/ TakeFrame
  \/ \E f \in others : GiveFrame(f)

Spec == Init /\ [][Next]_vars

-----------------------------------------------------------------------------
Blocks == heap.blocks
End == IF Blocks = << >> THEN 0 ELSE Last(Blocks).addr + Last(Blocks).size

TypeOK ==
  /\ \A i \in 1 .. Len(Blocks) : Blocks[i].size >= HEADER + KHEAP_BLOCK_MIN /\ Blocks[i].used \in BOOLEAN
  /\ heap.heap_current \in 0 .. KHEAP_END
  /\ KernelFrames \subseteq bitmap /\ bitmap \subseteq Frame
  /\ {failed, astray} \subseteq BOOLEAN

(* The blocks tile the heap without a gap, and a prev that is set names    *)
(* the block in front.                                                     *)
ListOK ==
  /\ Blocks # << >> => Blocks[1].addr = 0 /\ Blocks[1].prev = NULL
  /\ \A i \in 1 .. Len(Blocks) - 1 :
       /\ Blocks[i + 1].addr = Blocks[i].addr + Blocks[i].size
       /\ Blocks[i + 1].prev \in {NULL, Blocks[i].addr}

(* The bytes of the used blocks.                                           *)
UsedBytes(blocks) ==
  LET sum[n \in 0 .. Len(blocks)] ==
        IF n = 0 THEN 0 ELSE sum[n - 1] + (IF blocks[n].used THEN blocks[n].size ELSE 0)
  IN  sum[Len(blocks)]

(* A block is used if and only if a client holds it, and holds what the    *)
(* client asked for; heap_used is the sum of them.                         *)
HeldOK ==
  /\ DOMAIN live = {Blocks[i].addr + HEADER : i \in {j \in 1 .. Len(Blocks) : Blocks[j].used}}
  /\ \A i \in 1 .. Len(Blocks) : Blocks[i].used => live[Blocks[i].addr + HEADER] <= Blocks[i].size - HEADER
  /\ heap.heap_used = UsedBytes(Blocks)

Pages == {p \in DOMAIN heap.mapped : heap.mapped[p] # NULL}

(* No frame has two users, and what heap_current says is mapped is.        *)
FramesOK ==
  /\ \A p, q \in Pages : heap.mapped[p] = heap.mapped[q] => p = q
  /\ \A p \in Pages : heap.mapped[p] \in bitmap \ (others \cup KernelFrames)
  /\ others \subseteq bitmap \ KernelFrames
  /\ \A p \in DOMAIN heap.mapped : (p + 1) * PMM_FRAME_SIZE <= heap.heap_current => p \in Pages

(* Only a heap with an extension that stopped halfway goes astray, and     *)
(* until it does its own frames are behind every block.                    *)
BackedOK ==
  /\ ~failed => ~astray /\ End <= heap.heap_current
  /\ ~astray => Backed(heap.mapped, 0 .. End - 1)

(* List, links, accounting and memory agree after any requests, frees in   *)
(* any order, and extensions that stop halfway, up to the first block that *)
(* no frame of the heap is behind (kheap.c:26-151).                        *)
HeapInv == TypeOK /\ FramesOK /\ BackedOK /\ (~astray => ListOK /\ HeldOK)

(* Clients see an allocator until the heap goes astray: what they hold     *)
(* never overlaps, has memory of its own that stays behind it, and never   *)
(* moves but in krealloc() (kheap.c:26-187).                               *)
IsAllocator ==
  INSTANCE Allocator WITH held <- live, memory <- heap.mapped, lost <- astray, PAGE <- PMM_FRAME_SIZE, NOTHING <- NULL
ImplementsAllocator == IsAllocator!Spec
=============================================================================
