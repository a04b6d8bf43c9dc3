# RedLion OS: specifications, model checking and proofs

TLA+ modules for the kernel and the servers of this repository, the TLC
configurations that check them on small instances, and proofs of the main
results for every size of the system. `PROJECT.json` lists the runs, the source
lines behind each definition, the hazards and which property watches each of
them.

Check a run with `tlc -config <run>.cfg <module>.tla` (the module of each run is
in section 3) and a proof with `tlapm <module>.tla`.

## 1. The system

RedLion OS is an i386 kernel of about 4800 lines with servers of 5600 more.
Everything the shipped image executes is linked into one program in ring 0:
`kmain()` initialises the devices, creates a process for an embedded ELF image,
shows a boot menu and then becomes either the window manager (`srv_wm_main()`)
or the text shell (`shell_update()` in a loop). Two things run concurrently with
it: the interrupt handlers, which run with interrupts off from start to end
(`idt_asm.s`), and, in the code although not in the shipped boot, processes that
the timer switches.

| Part | State | Operations | Modelled |
|---|---|---|---|
| Keyboard (`kernel/keyboard.c`) | ring of events, Shift, CapsLock, prefix | IRQ1 handler, `keyboard_get_event`, `keyboard_get_char` | `KbdQueue`, `Keyboard` |
| Mouse (`kernel/mouse.c`) | packet assembler, position, buttons, wheel, ring | negotiation, IRQ12 handler, getters | `Mouse` |
| Processes (`kernel/process.c`, `pit.c`, `idt.c`) | process table, ready list, `current_proc`, `next_pid` | create, fork, exit, waitpid, schedule, tick | `Process` |
| IPC (`kernel/ipc.c`) | 64 rings of 16 messages, waiter of each, service table | send, receive, notify; register, lookup | `Ipc` (without the service table) |
| Heap and frames (`kernel/kheap.c`, `pmm.c`) | block list, frame bitmap | allocate, free, reallocate, extend | `Heap` |
| File system (`servers/vfs.c`) | 64 nodes, cwd, home, list of edits | mkdir, write, touch, rm, cd, resolve | `Vfs` |
| Window manager (`servers/wm.cpp`) | 16 windows, focus, stacking order, drag and resize state, menu | one loop over mouse and keyboard | `WindowManager` |
| Terminal (`servers/terminal.c`) | grid, cursor, escape parser, line, history | write, key, ENTER | `Terminal` |
| Text console (`kernel/fb.c`) | cells, cursor | put, scroll, clear | `Console` |
| Line editor (`lib/lineedit.c`) | buffer, position on the screen, history | keys, redraw, Enter | `LineEditor` |
| Snake (`servers/snake.c`) | body, direction, food, score, what is drawn | key, move, restart, leave | `Snake` |
| Shell (`servers/shell.c`) | environment, output stream, pipe, script buffer | execute a line, collect and run a block | `Shell` |
| Boot (`kernel/kmain.c`) | menu timer | menu, main loops | `TextSession`, `Process` |
| System calls, interrupts | none of their own | dispatch | as guards of the above |
| Paging, loader | page tables, ramdisk table | map, load | no, see 6 |
| Context switch (`kernel/process_asm.s`) | registers | save, restore | no, see 6 |
| Pixels, clock, serial line, runtime library, user-space servers | device registers | output, formatting | no, see 6 |

How they interact. The keyboard and mouse handlers write rings and positions
that the boot menu, the shell, the games and the window manager read, either
directly with interrupts on or through `int 0x80` with interrupts off.
`pit_tick()` and the IRQ0 handler call the scheduler; so do exit, a page fault
and `ipc_receive()`. The system calls are plain calls of the functions above.
The shell is the only writer of the file system while it runs, the window
manager's terminal while that runs. The line editor and the shell share one
buffer; editor, shell and Snake share the console and the keyboard, one at a
time. Process creation takes frames and heap blocks, each of which may have none
left.

What is hard to test here:

- an interrupt between two memory accesses of a reader (the keyboard ring);
- the scheduler being called with `current_proc` already a zombie, blocked or
  NULL, and a ready list linked through the processes themselves;
- a creation that fails after it took a slot, a pid and half of its memory, and
  a heap extension that stops halfway;
- a byte of a mouse packet that never arrives, an answer that arrives late;
- rings at their limit, and what a full one loses;
- indices kept across a call that renumbers what they index (`vfs_rm()`), a
  focus kept on a window that is gone, a position kept across a scroll;
- long sequences of legal calls (windows, history, heap blocks, scripts);
- what is shown and what is true drifting apart (windows, line, board).

What makes each part correct:

- keyboard: events come out in order, each whole, and one is lost only when the
  ring is full and it is the oldest; a keystroke gives one event, the one that
  the typist means with Shift and CapsLock as they are;
- mouse: driver and device agree on the size of packets, a lost byte costs one
  packet, clicks and releases alternate;
- processes: the ready list is exactly the READY processes, one runs, pids name
  one process each, memory belongs to live processes and to nobody else;
- IPC: each port is a bounded FIFO, and nobody waits on one that has messages;
- memory: no frame or byte belongs to two owners, freed memory can be allocated
  again, and what a client holds keeps the memory behind it;
- file system: the array of nodes behaves like a tree of paths, and each call
  changes the one path it names, which the list of edits then has;
- windows: a click acts on the window that is seen under the pointer, the top
  one has the focus, frame and content agree, the screen catches up;
- terminal and line editor: what is edited is what is seen and what runs, and
  history recalls the lines that were entered;
- shell: a line runs the commands its operators say and leaves the streams as
  it found them, and an if block runs one branch;
- snake: the body is connected, crosses nothing, and is what is drawn.

## 2. The modules

| Module | What it is |
|---|---|
| `DropOldestQueue` | abstract FIFO that loses its oldest entry when full |
| `KbdQueue` | the ring of `keyboard.c` access by access; implements `DropOldestQueue` unless it overruns inside a pop |
| `KbdQueueProofs` | its theorems |
| `Keyboard` | the scan code decoder over `DropOldestQueue`, with the keyboard as environment |
| `KeyboardProofs` | its theorems |
| `Mouse` | driver and device: negotiation, packets, events |
| `MouseProofs` | its theorems |
| `Process` | table, ready list, scheduler and timer |
| `BoundedFifo` | abstract family of FIFOs that refuse what they cannot hold |
| `Ipc` | extends `Process` with the ports; each port implements `BoundedFifo` |
| `IpcProofs` | the theorems of `Process`, carried over to the composition; the ports |
| `Allocator` | abstract allocator: disjoint pieces that stay where they are, with the same memory behind them, until memory is lost |
| `Heap` | block list over the frame bitmap, in the memory it hands out; implements `Allocator` |
| `HeapProofs` | its theorems |
| `FileTree` | abstract file system: a function from paths to entries |
| `Vfs` | the node array of `vfs.c`; implements `FileTree` while no removal moves cwd or home |
| `VfsProofs` | its theorems |
| `WindowManager` | the desktop loop: stack, focus, move, resize, menu, redraw |
| `Terminal` | a terminal window: cursor, escape parser, line, history ring |
| `DesktopProofs` | the theorems of `WindowManager` and of `Terminal` |
| `Console` | the text screen of `fb.c`: operators on cells and cursor |
| `LineEditor` | extends `Console`: keys, redraw, history, Enter |
| `Snake` | the game |
| `TextSession` | composes `LineEditor` and `Snake` with the boot menu |
| `TextProofs` | the theorems of `Snake`, `LineEditor`, their composition, and `Shell` |
| `Shell` | environment, expansion, tokenizer, operators, streams, script blocks |
| `MC*` | constants of the instances TLC checks |

Definitions keep the names of the functions they model. A handler that runs with
interrupts off, or that nothing preempts, is one action; a call that only
returns an error is no step. Operators whose name begins with `Mut` are
deliberate bugs: replacing the definition that follows by one of them makes a
property fail, which shows that the property depends on that definition.

### Keyboard and mouse

`KbdQueue` splits `kbd_queue_pop()` into its memory accesses, because the
Makefile compiles without optimisation and interrupts may come between any two
of them: `pc` is the next access, `head_reg`, `type_reg` and `ch_reg` the
registers. `Interrupt` is IRQ1 with its push. A reader is called in one of two
ways: through `int 0x80`, whose gate clears the interrupt flag (`masked`), or
directly, with pushes between any two of its accesses. `MayOverrun` says whether
a push inside a pop may find the ring full; between two calls it may in any case.
`keyboard_get_char()` is the loop around the pops, with its count of SIZE.

`Keyboard` has one action per branch of `keyboard_handle_interrupt()`, in the
code's order of tests. The environment is a PS/2 keyboard with at most `MaxHeld`
keys down, including the prefixed fake Shift codes that grey keys and PrintScreen
send, and a typist: `shifting`, `locked` and `meant` are histories of what was
pressed, kept without the decoder, and `pushed` of what the handler pushed. A
character is abstracted to the key and whether it is the shifted one.

`Mouse` has driver and device. `Script` is the sequence of commands and polls of
`mouse_init()`; a poll either takes the next answer or ends without one
(`ReadEarly`: a time-out, or a key's byte that IRQ1 takes next). From then on
the device sends packets byte by byte and `PacketByte` is IRQ12. `LoseByte` is a
byte for which no interrupt comes. The variables `early`, `lost`, `noisy` and
`misread` record what went wrong, so that properties can say what holds without
it; `pointer` is where the device's movements should have led. A byte has 64
values in the run: that keeps every bit the code looks at, and the movements keep
their sign in another byte and one more bit than a byte holds.

### Processes and IPC

`Process` keeps, per slot, the state, the pid, the rest of the quantum and what
memory it owns. `NewProcess` is `process_create()` and the equal part of
`process_fork()`, with an outcome per allocation that can fail and the frees of
each error path. `Schedule(st, ticks, cur)` is `process_schedule()` called when
the caller left the table as `st`: exit calls it with a zombie and `current_proc`
NULL, `ipc_receive()` with a blocked process, the timer with the running one.
When nothing is ready the scheduler returns, and the caller goes on: that is why
`cpu`, whose code executes, is a variable of its own besides `current_proc`, what
the kernel believes. `Tick` is the timer branch: `pit_tick()` may switch, in which
case the acknowledgement after it is never reached (`in_service`), and
otherwise the handler schedules at once, quantum or not.

`Launch` is a first call of `process_schedule()` from `kmain()`. The shipped
`kmain()` has none, so `KmainSchedules` is TRUE to study the scheduler that the
code contains; with FALSE the module is the shipped boot.

`Ipc` extends `Process`: its steps are those of `Process` and the port calls, and
`ReceiveEmpty` is `Block` together with the waiter that is noted on the port.
`IpcNotify` takes any number for a pid, as the code does: that of a process which
has exited since it waited, or the -1 (here 0) of a port that nobody waits on.

### Heap

`Heap` changes the block list together with the bitmap, in operators from a
state to a state (`Extended`, `TakeFit`, `AppendBlock`, `MergeNext`,
`MergePrev`), because `kmalloc()` calls `extend_heap()` and `krealloc()` calls
both others. `next` is the order of the sequence; `prev` is kept as the address
in the header, since the code leaves it empty in appended blocks and sets it only
at splits and merges. `mapped` is the frame behind each page. `live` is what
clients hold: with `mapped` it is what the refinement maps to `Allocator`.
`TakeFrame` and `GiveFrame` stand for the other users of the bitmap.

The headers lie in the memory that the heap hands out, so the list is only what
the headers say while that memory is the heap's. `kmalloc()` appends its block
whether or not `extend_heap()` has succeeded: the block may lie where the heap has
no frame, and the identity map then puts its header into a frame of somebody
else; or it lies on pages of the extension that stopped halfway, which the next
extension maps to other frames. Either sets `astray`, from the addresses of the
block and from what is kept on a page (`Backed`, `Kept`, `Touched`). The model
follows the code up to that step: from then on a walk of the list reads what
others have written, and the heap takes no more calls.

Sizes are far from the 2^32 at which `size + sizeof(block_header_t)` and the
product in `kcalloc()` would wrap: the callers ask for stacks, for the embedded
image, and for the buffers of vectors and strings; `kcalloc()` has no caller.

### File system

`Vfs` has the array `nodes`, `node_count`, `cwd`, `home` and the list of edited
paths. A path argument is the node it resolves to: `Resolvable` is every node of
the tree, and the places `.`, `..` and `~` can lead to even when they are stale.
Contents are lengths. `RememberEdit` is part of every write, as in the code. Init
keeps the three default nodes that others depend on; the remaining default nodes
could all be made and removed by the same calls.

`RmAnywhere` is FALSE in `vfs_tree`: `vfs_rm()` renumbers the nodes behind the one
removed but neither cwd nor home, and removals in front of them break the
refinement (see 5). `Behind` says which removals are left: behind home, and
behind cwd or cwd itself as the last node.

### Desktop

`WindowManager` is the loop of `srv_wm_main()` with `pc` between its parts: `Poll`
reads position, buttons and wheel, one action follows for what the button does
(`ResizeStep`, `MenuClick`, `TaskbarClick`, `ButtonClick`, `WindowClick`,
`IconClick`, `ClickNothing`), `DragStep` is an iteration of the nested loop that
moves a window, and the keys end the iteration. A poll may return any of the
listed `Spots` with any button, so position and button that were read by two
system calls need not belong together. Geometry is that of the code, in pixels,
unsigned comparisons included (`UnsignedAtMost`). `stale` is set by what changes
the picture and cleared by a `compose()`.

`Terminal` takes a key as one action, with everything `terminal_handle_key()`
and `term_execute_command()` do for it. Bytes that are written are their class
for the escape parser. Of the grid only size and cursor are kept.

### Text screen

`Console` is a set of operators on a screen: cells, and the position. `LineEditor`
has the buffer shared with the shell, the recorded start of the line on the
screen, and the history; `Edited` computes the effect of a key on the line,
`Press` draws it as `le_redraw()` does, `Enter` is the branch of `shell_update()`
for a finished line, with any of the `Reply` texts as output of the command.
`Snake` is a game on a board with walls; `Advance`, `Collide` and `Quit` are the
ways out of one pass of its loop. `TextSession` puts them behind the boot menu,
with `play` as the way from the editor into the game and `Return` back, to a
prompt at the top of the screen that `builtin_play()` has cleared.

`Shell` executes a line as one action. A line is a sequence of lexemes, words or
the characters the tokenizer looks for. `sh` is passed through operators
(`Run`, `WithOutput`, `TestCondition`, `AllLines`), so that streams are switched
and restored inside them in the order of the code. The file system is flat here,
and all commands of the table answer: those that only print stand for each
other, `clear` and `play` draw past the stream. Blocks are collected by `Begin`
and `Collect`, run by `Finish`; a `while` block is a step per pass, since it need
not end.

## 3. What the runs check

| Run (module) | Instance | Result |
|---|---|---|
| `kbdqueue_reads` (`MCKbdQueue`) | ring of 4, two characters and one key, read with interrupts off or on, overruns between pops | the ring is a drop-oldest FIFO; between two accesses the registers are the live slot at `queue_head`; `keyboard_get_char()` with interrupts off misses no character |
| `kbdqueue_overrun` (`MCKbdQueue`) | the same, with overruns inside a pop | **violated**: a pop says "none" of a full ring |
| `keyboard_decode` (`MCKeyboard`) | one key of each class, 3 held at once | the decoder waits for a second byte only inside a sequence; Shift is on exactly while a Shift key has been held since either was released, CapsLock after an odd number of presses; a keystroke pushes its one event |
| `mouse_packets` (`MCMouse`) | both kinds of device, 3 by 2 pixels, one early poll, lost bytes | with every poll answered, sizes of packets agree and the pointer is where the movements led; events of a button alternate always; one packet at most is misread after a loss |
| `ipc_ports` (`MCIpc`) | 3 slots, quantum 2, pids to 4, 1 port of 2 messages, every call and allocation failure | list, table and `current_proc` agree; pids unique; nothing leaks; the port is a bounded FIFO, and who waits on it waits on an empty one |
| `heap_blocks` (`MCHeap`) | three pages, five frames, two sizes | the heap goes astray only after an extension that failed; until then list, links, accounting and memory agree, and clients see an allocator |
| `vfs_tree` (`MCVfs`) | 6 nodes, 2 names, contents to 1, edit list of 2, printed paths of 2 components | nodes form a tree, cwd and home are directories, the array implements `FileTree`, an edited file is listed and costs at most the oldest entry |
| `vfs_rm_moves_cwd` (`MCVfs`) | 5 nodes, any removal | **violated**: removing a node in front of cwd changes the current directory |
| `desktop_windows` (`MCWindowManager`) | ten points of the real screen, three windows, five raises | what is seen on top is what is clicked and has the focus; frames and contents agree; a resize keeps minimum and edges; a moved window stays under the hand; the screen catches up |
| `terminal_line` (`MCTerminal`) | lines of 2, ring of 3, two sizes | the cursor stays on the grid; what is edited is what runs; UP finds the newest lines in order |
| `text_session` (`MCTextSession`) | screen of 3 by 3, lines of 3, board of 6 by 5 | prompt, line and buffer agree with the screen; the history has what was shown; the body is connected and what is drawn; the menu ends |
| `shell_lines` (`MCShell`) | 25 lines, blocks of 6 lines, 3 variables | streams are restored, variables have one entry, blocks stay in their buffer; `&&` and `||` run what they say; one branch of an if runs |

Each run has one type invariant at most, where possible as the first conjunct of
a stronger one (`StackInOrder`, `TreeOK`, `DecoderInStep`, `LineIsCommand`).

Why the bounds are enough. A keyboard ring of 4 wraps, fills and overflows
within one read, and holds more events than `keyboard_get_char()` has to discard
in one call. Three slots of the process table allow a running process, one on
the list and one that is created, zombie or blocked; four pids reuse a slot. A
port of two messages wraps, fills and refuses; one port keeps the run to a few
minutes, and the theorems on ports are for any number. Heap: the larger request needs two
pages, so that an extension can stop behind the first, for want of address space
or of frames; blocks of both sizes are split, left whole because the rest is too
small, and merged on either side; and the heap goes astray in both ways, by a block
that no frame is behind and by a page that is mapped twice. Six nodes of the file system are the smallest
number at which a removal renumbers both a directory and its child (with five,
the parent indices never need fixing: that is how small it must not be). The
points of the desktop are a close, a maximise, a title, two corners, an icon, a
taskbar button, the start button and a menu entry; the windows are the three the
desktop starts with. Terminal and editor lines reach their last character and
their history its limit; the text screen scrolls on every second command and a
line reaches its end. The board of Snake has 12 free cells and a greatest length
of 5, which is reached and passed. Three mouse events fill and overflow a ring of
3. Script blocks reach `SCRIPT_BUF_SIZE` before and after their terminator.
`MaxPid`, `MaxHeld`, `MaxEarly`, `MaxZ`, `MaxEntered` and `MaxScore` bound the
models only: the code's `next_pid` wraps after 2^32 creations, which is not
modelled.

`vfs_tree` uses a VIEW without the edit list: no call reads it except to write
it. `EditsListed` is thereby checked from one list per tree, the one the first
path to it has left; the run's trees are many, so that lists of every length
occur, full ones that lose their oldest entry among them. `terminal_line` uses the symmetry of its two characters; it has no
liveness property.

Deadlock is checked in the keyboard, mouse, file system and terminal runs.
It is off where the system really stops, or the model of it: in the process run
after an unacknowledged timer interrupt (no more ticks come, and a program that makes no
call runs for ever without a step of the model) and past `MaxPid`; on the desktop
after `Shut Down` and past `MaxZ`; in the heap run when the heap has gone astray and
every frame is gone; in the text session once the desktop was
chosen; in the shell after `shutdown`.

Fairness. `WindowManager` assumes that its loop goes on, that the queue of
keys runs empty, and that the clock is due again and again; a button may stay
down for ever. `TextSession` assumes that ticks come and that the menu's loop
goes round; no key need ever come. No fairness is assumed of users or programs.

## 4. What is proved

Every theorem is about the specification with any values of its constants that
satisfy the assumptions its module declares (sizes positive, NULL not a slot and
the like); what more a theorem supposes stands below.

`KbdQueueProofs`, for every ring size of at least 2, every set of events:

- `TypeCorrect`: the indices stay in the ring under any interleaving.
- Unless the ring overruns inside a pop (`~MayOverrun`), and whether or not there
  are pushes between its accesses: `RingRefinesQueue` (the ring implements
  `DropOldestQueue`), `ReadsAreAtomic`, `NoneIsTrue` and `GetCharComplete`. The
  assumption is needed: `kbdqueue_overrun` violates `NoneMeansEmpty` without it.

The inductive invariant is `TypeOK` with `ReaderInv`: between two accesses of a
pop the registers still agree with the slot at `queue_head`, that slot is live,
every live slot holds an event, and the pops left to `keyboard_get_char()`
exceed the events in the ring. Without the first part a pop could deliver a
slot that was overwritten; the last part is what makes SIZE pops enough.

`KeyboardProofs`, for any keys and any number held at once: `DecoderStaysInStep`,
`ModifiersAreTheTypists`, `EachKeystrokeOnce`. The invariant has to say which
bytes may still be on the wire (`WireInv`): none, one or two sequences, and the
decoder half way through the first of them exactly when its prefix is gone; and
for each of those, what is still to come of the modifiers and of the event that
the typist means.

`MouseProofs`, for a screen and a ring of any size: `DriverFollowsDevice` and
`LossCostsOnePacket`. During the negotiation the answers that are out are those
`mouse_init()` still has to take (`Owed(init_pc)`). After it, `InStep` relates the
assembler to what the device has sent: as many bytes, the same ones, and the
pointer is where the movements up to the packet in progress lead. Behind a
loss the driver is either one byte late or waits for a byte that looks like a
header, and nothing else; that is why one packet at most is misread. That clicks
and releases alternate is kept by taking the first event off the ring and by
appending the opposite of the last one.

`IpcProofs` has first the theorems of `Process`, for every table size and quantum,
any set of calls, with and without a launch: `ProcessTypes`, `ReadyListIsExact`,
`OnlyOneRuns`, `NoPidTwice`, `NoProcessLeaks`. The five invariants are inductive
together: a switch keeps the list exact only if the head of the list was READY and
the preempted process was not on it, which follows from `OneRunning`, and
`OneRunning` in turn needs the list to hold READY processes only. Each action is
shown to keep the conjunction, with lemmas on what pushing and popping does to
a list without repetition.

Then, for any number of ports and size of their rings: a behaviour with
ports is one of `Process` (`PortsAreProcesses`), so its invariants carry over
(`PortsKeepTables`); `PortTypes`; and `PortsImplementFifo`, that each port
implements `BoundedFifo`. Its invariant adds that `tail` is `count` places behind
`head`, around the ring: without it a send could write over a waiting message.
`WaitersWaitOnNothing`: a port that remembers a waiter is empty, whoever the
notifications were for.

`HeapProofs`, for frames, headers and requests of any size and any number of
pages: `HeapStaysWhole` and `HeapIsAllocator`. Both are about a heap until it goes
astray, and the first says that it cannot before an extension has failed. The
invariant is stated of a heap and of what clients hold of it (`Good`), for any
heap and any pieces and not for the variables, because `krealloc()` calls
`kmalloc()` and then `kfree()` on the heap which that leaves. Its parts: blocks
tile the heap and the links name the block in front (`Tiles`); the used blocks are
the held pieces, each the start of its block (`Holds`); no frame has two users
(`FramesApart`); what `heap_current` covers is mapped (`Reaches`); the blocks end
below `heap_current` while no extension has failed, and below the last page that
is mapped while the heap is not astray. That clients keep what they hold is
`Spares`: an extension that leaves the heap in order has given no page with a
header or a held byte on it to another frame. `heap_used` is a sum over the
blocks, kept by lemmas on what a change or a removal of one entry does to a sum
(`SumChange`, `SumDrop`).

`VfsProofs`, for a table and an edit list of any size and any names, while no
removal comes in front of cwd or home (`~RmAnywhere`; section 5 has what happens
otherwise):

- `TreeHolds`, every node lies behind its parent and the parent is a directory,
  nothing leaves its bounds; `PlacesStay`, cwd and home are directories of that
  tree. They hold each other up: new nodes are made in a directory that cwd or
  home leads to, and a removal shifts nodes under the indices that parents, cwd
  and home are.
- `EditsStayListed`: every step that creates or changes a file leaves it in the
  list, and a list that changes, but for being cleared, gains one path at its end
  that it had not, and loses at most its oldest entry, if it is full.
- `ArrayIsTree`, the array implements `FileTree`. `TreeInv` adds that a directory has
  a name once, that directories have no content, and where the home directory
  is. A path then names one node (`OnePathEach`); a new node is one path more and
  there is room for it, because there are no more paths than nodes (`Counted`);
  and after a removal slot `k` has the path that slot `From(i, k)` had, because its
  parent's index was moved with it (`PathsFollow`, `RmMoves`). The paths of
  the refinement are whole: they do not depend on how many components
  `vfs_node_path()` can print.

`DesktopProofs`, for any number of windows and any positions of the pointer:

- `ResizesKeepWindow` and `MovesHoldTitle`. The invariant is what a grab
  remembers: during a resize, the sides that do not move are where they were when
  it began; during a move, the place in the title that is held is one that the
  window has.
- `StackStaysInOrder`: while a window is shown, the one on top has the focus and
  no other, what is painted last at a point is what a click hits, and titles
  stay on the screen. The tie rule of the search makes the top unique; steps that
  do not call `focus_top()` are shown to leave the top and its mark alone, which for
  a window that is minimised or closed takes that it was not the top.
- `FramesStayInStep`: the buffer of every window has the size its frame gives it,
  and a window marked maximised fills the desktop. Its invariant needs that no
  side of a maximised window is held.
- Of `Terminal`, for a grid, a line and a ring of any size: `EditedIsRun` and
  `UpRecalls`. The line keeps its terminator behind it through insertion, removal
  and recall (`LineInv`); the last byte of the prompt closes any sequence that the
  output of a command has left open (`ScreenInv`); and as long as the ring has
  not come round, its slots are the lines entered, in order (`RingInv`).

`TextProofs`, for a screen, a line and a board of any size on which the prompt
fits: `SnakeIsTracked`, `LineIsShown`, `HistoryHoldsWhatWasShown`. That a cell is
free for the food is a matter of counting: the body has fewer segments than the
board has cells, and the score bounds the length. That a line is shown needs
that the prompt stands in front of where the editor believes the line begins,
also after output has scrolled the screen (`PromptStands`), and that each redraw
writes the line from there on.

Of `Shell`, for any lines (a non-empty line fits into the script buffer), any
meaning of the words as numbers and limits of any size:

- `LinesLeaveNothing`: between two lines output goes to the screen, no pipe is
  open, and a block stands in its buffer from its header on. The invariant is
  `Idle`, what `sh` is between lines, with `Block`, what the script variables are.
  Every command, alone, redirected, in a pipe, as a condition or in a block,
  is shown to give back the stream target it found (`After`), and between the
  commands of a line only the pipe buffer may hold something (`Between`).
- `ShellKeepsItsState` adds the variables: no more than `ENV_MAX` entries, one for
  each name. It assumes that no `for` block of the input names a variable with an
  `=` in it (`PlainNames`); section 5 has what happens otherwise. That a new entry
  is new takes that the name of an entry ends at its first `=`, so the values may
  hold any character.
- `BlocksTakeOneBranch`, by induction over the lines of a section without marks:
  in front of `then` and in the branch not taken they change nothing, in the other
  they are run in order. A block of `SCRIPT_MAX_LINES` lines, or one that fills the
  buffer, loses its `fi` and is run all the same.
- `FlagsFollowTheChain`, about operators: for commands with `&&` and `||` between
  them, however many, the loop of `execute_line()` runs what a reading from left
  to right says.

That the scans terminate and yield sequences of lexemes is proved once, for `Scan`:
every step goes on behind where it began, so its values are defined from the end
of the text.

Only model-checked:

- of the shell, `AndOrRight`: that the tokens of a typed chain are the words that
  were typed. The text of a chain of any length is put together by an operator of
  the library that recurses over data, and words in a chain would have to be
  kept free of every character that the scans stop at. What the flags of
  `execute_line()` do with the commands is `FlagsFollowTheChain`.
- what is temporal beyond safety: `ScreenCatchesUp`, `MenuEnds`.
  Liveness under fairness is outside what the proof system handles.

Where the model has a loop it is a recursive function, and a theorem about it
takes an induction over a set: the numbers up to the bound at which the claim
holds contain 0 and with each number the next (`UpTo`). The theorems of the library
that would do the induction once for all take an operator as parameter, which
the provers cannot instantiate.

## 5. Where the code departs from its own comments

`vfs_rm_moves_cwd` shows one: `vfs.c:624` says "Fix cwd/home if needed", but cwd
is not renumbered. `kbdqueue_overrun` shows another: `keyboard.c:62` says that a
pop "returns KBD_EV_NONE if empty", and it does so of a full ring, too, when a push
comes between its loads of the two indices. The others were met while modelling; the models have the code
as it is, and the properties that hold are stated so that they hold of it.

Kernel:

- `keyboard.c:46` "dropping the oldest if full": called with interrupts on, a pop
  that was interrupted by two pushes into a full ring writes back a `queue_head`
  they have passed and empties it. It can also join the type of one event with
  the character of another. (`KbdQueue` with `MayOverrun` TRUE; its refinement
  fails.)
- `idt.c:213` "Kill the faulting process": when nobody else is ready,
  `process_schedule()` returns and the dead process goes on executing.
- `shell.c:389` "Ring 3 user-space servers": nothing makes the first call of
  `process_schedule()`, so no server or program ever runs.
- `ipc.c:34` "wake them up directly": the waiter is forgotten, not woken; it stays
  BLOCKED, and no later send or notification finds it.
- `ipc_notify()` of a pid that waits nowhere puts its message on a port all the
  same if the number is -1, or is what a process that has exited left there.
- The ready list is a stack, so a process below two others that take turns
  never runs; the timer handler schedules on every tick, so the quantum of ten
  ticks is never used up by a process that shares the CPU; a switch inside
  `pit_tick()` leaves IRQ0 unacknowledged and stops the timer; a process that
  blocks when nobody is ready runs on in state BLOCKED.
- `kmalloc()` never answers NULL to a real request: when `extend_heap()` fails the
  block is appended all the same, past the memory that is mapped, so that its
  header and its contents go to whoever has those frames. A failed extension
  keeps the frames it has mapped, and the next one maps the same pages to other
  frames: what a block has there is gone, its header included. `Heap` is `astray`
  from then on. The checks of `process_create()` for a NULL stack are dead;
  `Process` has them as outcomes nevertheless.
- `heap_free` counts whole extensions and is not lowered by appended blocks.
- `process_exit()` frees the tables its directory shares with the kernel
  (`process.c:45` "Does NOT touch kernel mappings"); a user stack is mapped in
  the directory that is current.
- `mouse.c:179`: the reset is followed by three polls so that "the negotiation
  below stays byte-aligned"; one poll that ends early shifts every later answer,
  and driver and device may then disagree on the size of a packet.
- A wheel step that nobody asks for before the next packet is overwritten.

Desktop and terminal:

- A scroll sets `need_redraw`, which is assigned again before the redraw: it is
  shown only when the clock is due.
- The terminal's escape parser ends a sequence at the byte after its bracket, so
  the rest of a sequence is text.

Text shell:

- UP never recalls a line: `lineedit_init()` empties the history on every prompt;
  `history` prints the newest entry only.
- Enter on a fresh empty line executes the last line again, because the buffer
  keeps its string.
- `;` and `|` directly behind a word eat it, and behind a space end the line;
  only `&&` and `||`, and `|` behind a quoted word, work. `>>` runs its file name
  as a command. `do` is executed as a command. `=` is true for different words
  and `!=` for equal ones. `-e`, `-f` and `-d` need three words.
- A script line that does not fit is dropped without a word, as is a variable
  that the environment has no room for; without USER the prompt prints a NULL.
- `for a=b in ...` makes an entry whose name has an `=` in it and which also
  answers to `a`: where a variable `a` was set before, there are then two.

Snake: `q` pressed in the frame of a collision does not leave the game; the food
may be placed under the head of the next frame.

## 6. Not modelled

- The register save and restore of `process_asm.s`. `Process` takes
  `process_context_switch()` at its C interface: it runs the process it is given.
  The assembly does not: it saves into `[current_proc]`, which already points to
  the next process; it reads registers at offsets from a `process_t *` that are
  meant for the registers inside it; and its offsets into the interrupt frame
  assume that the handler calls it directly. No path of the shipped system
  reaches it.
- Paging. What it asks of the frames is in `Heap` (`TakeFrame`, `GiveFrame`), what
  creation and exit ask of it in `Process` (`Acquired`, `Released`); the tables
  themselves matter only once a process runs. Frames above the heap's window
  would be written through an identity map that the heap has replaced.
- The loader: it runs once, on one embedded file.
- The service table of `ipc.c`: its callers are servers that never run.
- `kmalloc_aligned()`, runs of frames and the free counters: no caller.
- The user-space servers: with no first schedule they do not run; their
  traffic is what `Ipc` allows any program.
- The real-time clock: stateless port reads. A rollover between its second test
  and the reads behind it is not excluded.
- Drawing, formatting, device programming, string functions and the C++
  containers: output or leaf code without state worth a model.

## 7. Plan

1. Done: keyboard, mouse, processes, IPC ports, heap over frames, file system,
   window manager, terminal, text console, line editor, Snake, shell, boot menu.
2. Done: proofs of every safety property the runs check, but for `AndOrRight`.
   Left there: that `Commands(Tokens(Expand(env, TypedChain(chain))))` is `chain` for
   plain words; the loop behind it is done.
3. The service table in `Ipc`, and the loader over `Heap` with its exit for want of
   frames, if the shipped boot ever runs a second program.
