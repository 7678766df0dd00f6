# TLA+ models of student-distrib

These modules model the kernel in `src/student-distrib`, a uniprocessor x86
teaching kernel. It has up to six user processes, three text terminals that
the user switches between with Alt+F1..F3, and a PIT-driven round-robin
scheduler. The models check how process management, scheduling, terminal
switching and the keyboard interact under interrupt preemption.

## The system

| Part | Source | State | Operations |
|---|---|---|---|
| Process table | `syscall.c`, `types.h` | `tasks_bitmap` (uint8, bit set = slot free, bit 0 the kernel, bit 7 a sentinel). One `pcb_t` per slot at `8MB - 8KB*slot`: `task_id`, saved `esp`/`ebp`, `parent`, `child`, `term`, `file_array[8]`, `arg`. | `sys_execute` and `load_program`, `sys_fork`, `sys_halt` (also reached from every exception handler) |
| Scheduler | `scheduling.c` | `FIRST_FLAG`, `saved_x/saved_y[term]`, plus `screen_x/screen_y` from `lib.c`, which is outside `src/` | `irq_timer` on every PIT tick |
| Paging | `paging.c` | one page directory per slot. `page_table[slot]` maps the `VMEM_OFFSET` page to `VIDEO` or to a terminal's shadow buffer `VMEM_OFFSET + 4KB*(t+1)`. `page_table[slot+6]` holds the vidmap page. | `map_page`, `ext_map_page`, `ext_unmap_page`, `set_page_directory`, `switch_vidmem` |
| Terminals | `terminal.c` | `TERM1_FLAG`, `TERM2_FLAG` (terminal not opened yet) | `term_switch`, `term_write` |
| Keyboard | `keyboard.c` | `active_term`; per terminal `command_line`, `cl_index`, `ENTER_FLAG`; modifier flags | `keyboard_handler`, `keyboard_put`, `clear_keyboard`, `key_read` |
| File system and descriptors | `file_sys.c`, `syscall.c` | read-only image; per-PCB `file_array` (`flags`, `file_pos`, `inode_num`, `f_ops`) | `sys_open/close/read/write`, `read_data`, `read_directory`, `file_read`, `sys_getargs`, `sys_vidmap` |
| RTC | `rtc.c` | `int_has_occurred[term]`, the hardware rate | `rtc_handler`, `rtc_read`, `rtc_write` |
| IDT, PIC, exceptions | `interrupt.c`, `i8259.c`, `exceptions.c` | IDT set up once; PIC in-service lines, requests | `common_interrupt` dispatch, `send_eoi`; each exception clears the screen, prints and calls `sys_halt(0)` |

**How the parts interact.** There is one CPU. `int 0x80` and the IRQ
vectors are interrupt gates (`init_idt`), so a syscall, a PIT tick or a key
press runs with interrupts off from entry to exit. Preemption happens only
at these points:
- while a process runs user code;
- while it busy-waits in `key_read` or `rtc_read`, which both execute
  `sti()`;
- while a root shell that has halted spins in `sys_halt`;
- inside `keyboard_handler` after Ctrl+L, because `clear_keyboard` ends
  with `sti()`.

`get_pcb()` is computed from the kernel stack pointer, so "the running
process" is whichever slot's stack is in use.

`irq_timer` runs only childless processes (leaves): a parent waits inside
`sys_execute` until `sys_halt` of its child jumps back to `halt_return` on
the parent's saved stack.

When a root shell halts it does not die. `sys_halt` calls `sys_fork` to
build a fresh shell, sets `FIRST_FLAG`, enables interrupts and spins until
the next tick switches away without saving the spinning context.

`term_switch` sets `active_term`. Through `switch_vidmem` it remaps every
occupied slot of the old terminal to that terminal's shadow buffer and
every slot of the new one to `VIDEO`. The first visit to terminals 1 and 2
forks their shell.

A key press echoes the command line of the active terminal through the page
directory of the first PCB that looks like that terminal's leaf, swapping
the cursors in and out.

**Hard behaviours.**
- Interleaving of ticks with execute/halt of several terminals' processes.
- A halting root shell reusing its own stack through `sys_fork` while it
  still runs on it.
- Slot exhaustion (the bit-7 sentinel, the literal `0x80` in `term_switch`).
- PCB memory of freed slots read as if live.
- Cursor state shared between three terminals through one
  `screen_x/screen_y`.
- Readers woken by one terminal's Enter reading another's buffer.

## Modules

### `Kernel.tla`: process table, scheduler, terminal switch, echo target

**State.** These variables map directly to the code:

| Variable | Code |
|---|---|
| `tasks_bitmap` | the `uint8_t` bitmap, as a function from bits 0..7 to {0,1} |
| `pcb[slot]` | `task_id`, `parent`, `child`, `term`, and `ctx` (the kind of frame the saved `esp` points at) |
| `cur` | `get_pcb()` |
| `run` | "boot" = the kernel idle loop, "user" = `cur` runs, "spin" = `cur` spins in `sys_halt` |
| `FIRST_FLAG`, `active_term`, `TERM_FLAG` | the code's variables of the same names |
| `vmap[slot]` | the page `page_table[slot]` maps at `VMEM_OFFSET` |
| `umap[slot]` | the page `page_table[slot + USER_OFFSET][0]` maps at `USER_VMEM` (`NONE` while `vidmap` has not made it present) |
| `cr3` | the loaded directory |
| `tss_esp0` | whose kernel stack `tss.esp0` points into |
| `screen`, `saved[t]` | which terminal's cursor `screen_x/y` and `saved_x/y[t]` hold |

Two variables are auxiliary:
- `resumable`: the slots whose saved `esp` is where they are suspended;
- `echo_page`: the page the last echo went to;
- `vidmapped`: the slots whose current program has called `vidmap`.

Data is abstracted. A cursor is named by the terminal it belongs to, and a
frame by its kind.

**Actions.** One action per handler:

| Action | Code |
|---|---|
| `Tick` | `irq_timer` |
| `Execute`, `ExecuteFails` | `sys_execute` + `load_program` |
| `HaltToParent`, `HaltRoot` | the two paths of `sys_halt`, including the `sys_fork` it calls |
| `TermSwitch`, `TermSwitchFork`, `TermSwitchRefused` | `term_switch` with `switch_vidmem` and `sys_fork` |
| `KeyPress` | `keyboard_handler` → `keyboard_put` |
| `Vidmap`, `VidmapFails` | `sys_vidmap` → `map_page` (`VidmapPage` is the page it picks) |

`SwitchUserVidmem` is `switch_vidmem`'s second write, which moves the
`vidmap` page of occupied slots together with their video page.
`sys_halt` never unmaps the `vidmap` page, so `umap` keeps a freed slot's
page.

**Helpers.**
- `NextOccupied` and `NextLeaf` are the two nested scan loops of
  `irq_timer`, written as recursive operators.
- `MinFree` is the `pd` scan.
- `EchoTarget` is the PCB scan of `keyboard_put`. When nothing matches, the
  loop falls out with `i = MAX_PROCESSES`. That PCB slot is memory nothing
  writes, so it reads as zero: task 0, the kernel directory, `VIDEO`. Other
  contents would give an arbitrary `set_page_directory` and a fault, which
  is not modelled.

**Init.** The state after boot: paging and the timer are initialised, and
the kernel has forked terminal 0's shell into slot 1. The boot code calling
`sys_fork` is not under `src/`.

`MCKernel.tla` gives the constants values. It defines `ControlView`, the
VIEW of `kernel_safety`, and `VidmapView`, the VIEW of `leaf_liveness`:
the control view plus the `vidmap` pages of the slots in `vidmapped`.

### `Keyboard.tla`: the line discipline of `keyboard.c`

State: `command_line` and `cl_index` per terminal, `ENTER_FLAG`,
`active_term`, and the `CTL_FLAG`/`ALT_FLAG` counters. `held` is the set of
modifier keys physically down. `reader[t]` is the `nbytes` of a `key_read`
blocked in terminal `t` (0 when none). `line_in`, `got` and `src` are
auxiliary: the line Enter released, what the reader received and whose
buffer it came from. `screen_x[t]`/`screen_y[t]` are terminal `t`'s cursor.
In the code that is `screen_x/y` while a process of `t` runs and
`saved_x/y[t]` otherwise; `Kernel` checks the swaps that keep it so.
`echo_row` is auxiliary: the lowest row the last `keyboard_put` addressed.

- `Init` is `keyboard_init`.
- Each case of `keyboard_handler` that changes the line discipline is an
  action. These are `CtlDown`/`CtlUp`/`AltDown`/`AltUp` (the counters
  saturate at 2), `TypeChar`, `Backspace` (at index 0 it only echoes)
  and `Enter`. `AltF(t)` is the
  Alt branch that calls `term_switch`; its paging side is in `Kernel`.
  Shift and Caps Lock only choose which character is stored, so one
  character value stands for all of them.
- The down actions may repeat while the key is held: a PS/2 keyboard
  resends the make code of a held key.
- Every key that gets past the Alt branch ends in `keyboard_put`: `Echo`
  is part of each of these actions, not a step of its own. `PutFrom` is
  its loop as a recursive operator: the wrap at `SCREEN_WIDTH`, the
  `'\n'` branch (written at row `screen_y + j`, cursor to the next row),
  the scroll test of every other cell, and the stop at `'\0'`.
  `ClearScreen` is Ctrl+L: `clear_keyboard` puts the row at 0, then the
  echo.
- `TermWrite(t, w)` is `term_write` by terminal `t`'s process while it is
  not blocked in `key_read`. `WriteFrom` is its loop: new row on `'\n'` or
  a full row, scroll back to the last row, column advance.
- `key_read` is split at its busy-wait. `ReadStart` sets `ENTER_FLAG` and
  enables interrupts. `ReadFinish` runs once the flag is clear: it copies
  and clears `command_line[active_term]`. `Copy` is the copy loop,
  including its clamp to `BUFFER_SIZE`.

`MCKeyboard.tla` defines `LineView`. It leaves the auxiliary variables and
the cursors out of state hashing, except for whether a line is pending.
No action reads a cursor except to update it, so this is sound for every
property that does not mention one. The passing run uses it; its
invariant reads only the view. The screen is 3 columns by 2 rows: a
character after a prompt wraps, and a newline reaches the last row.
`CursorBound` (rows up to `MAX_ROW`, two past the screen) is the
constraint under which `EchoWithinFrame` is checked without the view.

### `FileTable.tla`: descriptors, file-system reads, RTC rate

State: one PCB's `file_array` (flags, operations table, inode, `file_pos`)
and `alive`, which is true while a process occupies the slot. `rate` holds
the RTC register-A rate bits. `freq`, `last` and `listing` are auxiliary:
the last accepted frequency, the outcome of the last read, and the names a
directory descriptor has returned. `arg` and `arg_len` are the PCB's argument
buffer and length; `expect` (the argument word of the executed command,
`NONE` when its name is longer than `FNAME_SIZE`) and `got` (the outcome
of the last `getargs`: `nbytes`, return value, and the string the caller
reads from its buffer) are auxiliary.

- `Execute(c)` is `sys_execute` of a command string `c` (a sequence of
  bytes; `NUL` past its end). `ScanName`, `SkipSpaces` and `ScanArg` are
  its three loops over the command index, as recursive operators;
  `ParseArgs` adds `local_arglength` (1, one per byte copied, one more
  after the loop). `load_program` fails, changing nothing, unless the
  name is one of `Programs`. The PCB gets the table (`sys_fork` builds it
  the same way) and the first `arg_len` bytes of the NUL-filled
  `local_args` (`Padded`).
- `GetArgs(n)` and `GetArgsNull` are `sys_getargs`: the length test, then
  `strncpy` of `nbytes` bytes (`Strncpy`: bytes of the PCB that `execute`
  never wrote are `JUNK`, not NUL). `Halt` is the closing loop of `sys_halt`, through
  `sys_close`'s checks (`Closed`), and the reset of `arg` and `arg_len`.
- `Open(nm)` is `sys_open`: the lowest free descriptor, the dentry lookup,
  then the operations table by file type. `rtc_open` programs 2 Hz.
- `ReadFile` is `sys_read` → `file_read` → `read_data`. `CopyFrom` is
  `read_data`'s two copy loops as a recursive operator, step by step,
  including the `uint32` conversion of `nbytes` (`U32`).
- `ReadDirectory` is `read_directory`: the clamp, the length from the
  dentry at `file_pos`, the skip over empty dentries (`SkipEmpty`) and the
  end test (`DirEnd`). `read_directory` takes the length before it skips
  empty dentries. A boot block with an unused dentry between used ones
  therefore ends the listing at the gap: `ListingComplete` fails after two
  reads with `Dir = <<d, EMPTY, f>>`. The checked run uses a gap-free
  image. The boot block has `Len(Dir)` dentries after its
  statistics slot. Index `Len(Dir)` is what `read_dentry_by_index` reads
  at `NUM_DIR_ENTRIES - 1`: the head of inode block 0 (`Beyond`).
- `WriteRtc` is `sys_write` → `rtc_write` with `freq_to_rate`
  (`FreqToRate`).
- Terminal and RTC reads block; they belong to `Keyboard` and the RTC wait.
  `file_write`, and writes to a directory, return -1 and change nothing.

### `Interrupts.tla`: PIC, interrupt nesting, RTC wait, Ctrl+L

State:
- `cpu`: which terminal's leaf process is running.
- `eflags_IF`: the interrupt flag.
- `stack[p]`: the kernel stack of each terminal's leaf process as a
  sequence of frames.
  - Its base is where the process is in its own code: `"user"`, or one of
    `rtc_read`'s three points, `"rtc_sti"`, `"rtc_arm"` and `"rtc_spin"`.
  - Above the base are handler frames, each holding the point at which the
    handler resumes.
  - A process that is not on the CPU has the `"pit"` frame of the
    `irq_timer` that switched away from it.
- `irr` and `isr`: the PIC's request and in-service lines. IRQ 8 is wired
  through master line 2.
- `regc`: the RTC has an interrupt pending and register C is unread.
- `int_has_occurred`: `rtc.c`'s per-terminal flags.
- `active_term`.
- `screen` and `saved[t]`: the cursor. Each holds the id of the terminal
  whose cursor it contains. `Swap` is the save/restore pair that
  `irq_timer`, `keyboard_put` and `clear_keyboard` all perform.

Actions:
- `RaisePit`, `RaiseKeyboard` and `RaiseRtc` are the devices.
- `Deliverable` is the 8259's fully nested priority with `IF` as the gate.
  `common_interrupt` enters each IRQ through an interrupt gate, so a
  delivery clears `IF` and the handler's `iret` sets it again.
- `Timer` is `irq_timer`: EOI first, then a switch to the next leaf that
  saves and restores the cursor.
- `RtcInterrupt` and `RtcEoi` are `rtc_handler`, split where its EOI comes
  last.
- `KeyboardInterrupt(key)` is `keyboard_handler`:
  - an ordinary key is echoed through `keyboard_put` with interrupts off;
  - Alt+F sets `active_term`;
  - Ctrl+L runs `clear_keyboard`, whose final `sti` opens the handler to
    nesting. The rest of the handler is therefore split into `KbdPut`,
    `KbdSwapBack` and `KbdEoi`.
- `RtcReadCall`, `RtcSti`, `RtcArm` and `RtcReturn` are `sys_read` →
  `rtc_read`: `cli`, `sti`, set the flag, spin until it is 0.

- `UserException` and `AsyncException` are the handlers of
  `exceptions.c`. Each one executes `cli`, clears the screen, prints, and
  calls `sys_halt(0)`; `HaltToShell` is that `sys_halt`.
  - A user-mode fault can only come from user code.
  - An NMI or machine check can come at any point, including inside an IRQ
    handler.
  - Either way, the program returns to its shell through `halt_return`,
    and every frame on its kernel stack is abandoned. An abandoned handler
    frame never sends its EOI, so its line stays in service.
  - `faults` counts exceptions; `MAX_FAULTS` bounds them.

The process set is fixed at one leaf per terminal. Each leaf is a program
its shell started, so a halt returns to the shell. Execute, halt and
`term_switch`'s lazy fork are `Kernel`'s concern, and the PIC masks are
those left after boot: IRQs 0, 1, 2 and 8 are enabled.

### `RtcWait.tla`: what `rtc_read` promises

`waiting[t]` and `ticked[t]`: a reader waits (`Wait`), an RTC interrupt
releases every reader then waiting (`Tick`), and only a released reader
returns (`Return`). An exception can also halt a terminal's process
(`Halt`, counted in `halts`), which ends a wait without a return. In
`Interrupts`, `Wait` is the instance under the
following mapping:
- `waiting[t]` is "the base frame of `t` is `rtc_spin`";
- `ticked[t]` is "it is spinning and its flag is 0".

`RtcArm` implements `Wait`, `RtcInterrupt` implements `Tick` and
`RtcReturn` implements `Return`, and each exception implements `Halt`
(`halts` is mapped to `faults`). Every other step leaves both variables
unchanged.

### `SlotLifecycle.tla`: what the process table promises

This module is the per-slot state machine of the specification (§4.3):
Free → Bootstrapped (built by fork, never run) → Foreground ⇄ Parked (has
an active child) → Free. `parent[s]` records the slot a process was
executed from. The actions are as follows:
- `Fork(n)` takes a free slot to Bootstrapped.
- `Schedule(n)` makes a Bootstrapped or Foreground slot Foreground.
- `Execute(p, c)` parks a Foreground `p` and starts `c`.
- `Exit(c)` frees `c` and makes its parked parent Foreground again.
- `Relaunch(c, n)` frees a root shell's slot and forks a shell into a
  free slot, or into `c` itself.

`halt` runs with interrupts masked and is one step of `Kernel`, so the
specification's Halting state is passed through within that step.

`Kernel` implements it under `Life`, checked as `SlotLifecycleRefined`,
with this mapping (`LifeState`):
- an occupied slot whose PCB names a child is Parked;
- an occupied slot holding `sys_fork`'s fabricated frame (`ctx =
  "fresh"`), and not the process that runs, is Bootstrapped;
- any other occupied slot is Foreground;
- every other slot is Free.

`parent` maps to the PCB's parent of occupied slots.

The steps correspond as follows:
- `TermSwitchFork` implements `Fork`.
- `Tick` implements `Schedule`.
- `Execute` implements `Execute`.
- `HaltToParent` implements `Exit`.
- `HaltRoot` implements `Relaunch`.
- Every other step leaves the mapping unchanged.

Two readings of the specification are not part of the checked
abstraction:
- Halting as a state the slot keeps while the halted shell spins. A
  version with it fails: Alt+F to a new terminal forks into the slot the
  shell spins on (hazard `syscall.c:66`).
- The relaunch "in the same slot". `RelaunchInSameSlot` fails in seven
  steps, because `sys_fork` takes the lowest free slot (hazard
  `syscall.c:64`).

## Runs

| Run | Config | Expect | What it shows |
|---|---|---|---|
| `kernel_safety` | `MCKernel.cfg` | pass | `RunningLeafOwnsCpu`, `SuspendedResumable`, `ChainsConsistent` (and `TypeOK`) hold in every interleaving with 6 user slots and 3 terminals. |
| `leaf_liveness` | `MCKernelLive.cfg` | pass | `EveryLeafRuns`: with only the PIT fair, every childless process is eventually scheduled. `VidmapIsolation`: the page `vidmap` gave a program shows its own terminal's screen (VIDEO while visible, its shadow buffer otherwise) through every later terminal switch. `SlotLifecycleRefined`: `Kernel` implements `SlotLifecycle`. |
| `keyboard_safety` | `MCKeyboard.cfg` | pass | `TypeOK`, which bounds `cl_index` against the store guard (`keyboard.c:196`), over every key, echo, `term_write` and both halves of `key_read`. The run is mainly what fires the module's actions. |
| `read_own_terminal` | `MCKeyboard_ReadFromOwnTerminal.cfg` | violation | `key_read` waits on its own terminal's `ENTER_FLAG` but copies `command_line[active_term]`: after Enter, Alt+F2, the reader gets terminal 2's partial line (`keyboard.c:334`). |
| `line_intact` | `MCKeyboard_LineDeliveredIntact.cfg` | violation | Enter leaves `cl_index` at the `'\n'`; a key typed before the reader is scheduled overwrites it (`keyboard.c:175`). |
| `file_safety` | `MCFileTable.cfg` | pass | `PosWithinFile`, `ListingComplete` (full boot block, whole-name reads) and `RateMatchesFreq` over every case of `freq_to_rate` (and `TypeOK`) hold over every sequence of execute, open, close, read, RTC write, `getargs` and halt; `GetArgsReturnsArgument`: after every command of up to six bytes, a `getargs` that returns 0 leaves a terminated string equal to the command's argument word, defined from the command's words (`ArgWord`), not from `execute`'s loops. |
| `read_within_request` | `MCFileTable_ReadWithinRequest.cfg` | violation | `read` copies more than `nbytes`. `read_data` tests `count == length` only after copying, on a `uint32` length, so `nbytes` 0 copies to the block end and -1 the whole file (`file_sys.c:153`). `read_directory` replaces `nbytes` by the name's length (`file_sys.c:204`). |
| `video_isolation` | `MCKernel_VideoIsolation.cfg` | violation | A program executed from a background terminal is mapped to real video memory (`syscall.c:139`). |
| `terminal_keeps_shell` | `MCKernel_TerminalKeepsShell.cfg` | violation | A root shell halting while another terminal is visible is relaunched in the visible one (`sys_fork`, `syscall.c:278`), leaving its own terminal empty. |
| `interrupts` | `MCInterrupts.cfg` | pass | `HandlersExclusive` (and `TypeOK`): no keyboard or RTC handler is entered twice and each runs with its line in service; `RtcReadReturns`: every `rtc_read` returns unless an exception struck inside a keyboard or RTC handler (`HandlerLost`); `RtcWaitRefined`: the PIC-level model implements `RtcWait`. |
| `ctrl_l_cursor` | `MCInterrupts_CursorsPreserved.cfg` | violation | Ctrl+L re-enables interrupts inside `keyboard_handler` (`keyboard.c:440`); a PIT tick between `keyboard_put`'s two cursor swaps saves the visible terminal's cursor over the running (hidden) terminal's, which is lost. |
| `cursors_separated` | `MCKernel_CursorsSeparated.cfg` | violation | A root shell's halt resets `saved_x/y[get_active_term()]`, the visible terminal's cursor, instead of its own. |

**The properties that pass.**
- `RunningLeafOwnsCpu`: whenever user code runs, it is a leaf, and `cr3` and
  `tss.esp0` are its own. A wrong `esp0` makes the next interrupt land on
  another process's stack.
- `SuspendedResumable`: every process that is not running has a live saved
  frame. It is the `halt_return` frame of `sys_execute` exactly when it has
  a child, and otherwise a frame that `irq_timer` saved or `sys_fork` built.
  This is what `FIRST_FLAG` must protect.
- `ChainsConsistent`: parent and child pointers are mutual, they stay in
  one terminal, `task_id` equals the slot, and a leaf exists, so the
  scheduler's scan ends.

**The violations are real behaviours of the code.** Each trace was checked
against the source.
- `video_isolation` (4 steps): terminal 0's shell executes a program after
  the user has switched to terminal 1.
- `terminal_keeps_shell` (3 steps): terminal 0's shell exits while terminal
  1 is open.
- `cursors_separated` follows this sequence:
  1. the user opens terminal 1;
  2. terminal 0's shell exits and its relaunch reuses slot 1 for terminal 1;
  3. the reset zeroes terminal 1's saved cursor;
  4. the tick sees equal terminals and does not swap the cursor back.
- The fault model of `interrupts` shows a failure that is not a separate
  run. `RtcReadReturns` needs its `HandlerLost` exception: without it, TLC
  finds this behaviour:
  1. Ctrl+L is pressed on terminal 0;
  2. an NMI arrives in the `kbd_put` frame;
  3. a tick switches to terminal 1;
  4. terminal 1 calls `rtc_read`, which spins for ever. IRQ1 stays in
     service and blocks both the keyboard and the slave PIC.
  This is recorded as the hazard at `exceptions.c:63`.
- `ctrl_l_cursor` (7 steps):
  1. a tick switches the CPU to terminal 1's process while terminal 0 is
     visible, and another PIT request is raised;
  2. the user presses Ctrl+L. `clear_keyboard` swaps terminal 0's cursor
     in and back out, then executes `sti`;
  3. `keyboard_put` makes its first swap: terminal 1's cursor goes to
     `saved[1]`, terminal 0's to `screen_x/y`;
  4. before its second swap, the pending tick is taken. `irq_timer` saves
     `screen_x/y`, which holds terminal 0's cursor, into `saved[1]`.
  Terminal 1's cursor is then held nowhere: it is the one that is lost.

Two further disagreements were found while modelling and are recorded as
hazards rather than runs: `EchoVisible` in `Kernel` (`keyboard_put` can
pick a freed slot whose page table still maps a shadow page, so typed keys
are invisible) and `ModifiersReleased` in `Keyboard` (typematic repeat of
a held Ctrl brings `CTL_FLAG` to 2 and one release leaves it at 1,
`keyboard.c:134`). `FileTable` states two rules of the specification
that `sys_execute` and `sys_getargs` break, also recorded as hazards:
`GetArgsExactFits` (a buffer holding the argument and its terminator is
enough; `arg_len` is the length plus 2, so `getargs(buf, 1)` after a
command with no argument returns -1, `syscall.c:126`) and
`OverlongNameRefused` (an oversized name fails; a name of `FNAME_SIZE`
bytes or more is cut, and the rest becomes the argument, `syscall.c:114`).
`EchoWithinFrame` in `Keyboard` says `keyboard_put` addresses only rows
of the screen. The `'\n'` branch writes before any scroll test and moves
the cursor below it (`keyboard.c:266`). TLC finds it violated in four
steps: `key_read` starts, Enter is pressed on row 0 of two, then Ctrl is
pressed twice before the reader runs. Each key echoes the same newline one
row lower. At 80x25 the second such key writes past the 4 KB video page.
These properties are still defined, and TLC still finds them violated
with `MCKernel` (without the view) and `MCKeyboard` (without the view,
under `CursorBound`).

## Bounds, symmetry and fairness

- `MAX_PROCESSES = 7` (the build's value: slots 1..6) and `NUM_TERMS = 3`
  in the safety run. This covers both exhaustion cases, `pd ==
  MAX_PROCESSES` in `load_program` and `tasks_bitmap == 0x80` in
  `term_switch`. `ALL_BUSY` is written for a general `MAX_PROCESSES` and
  equals `0x80` at 7.
- The liveness run uses `MAX_PROCESSES = 5`. It still has chains two deep
  in every terminal and slot exhaustion. It also checks `VidmapIsolation`
  under `VidmapView` (252,000 states, about 2.5 minutes with the refinement). At the build's 7
  slots, the subsets of slots that called `vidmap` multiply the state space
  past 20 million states, so that instance is not checked.
- No symmetry is used. Slots are not symmetric (allocation takes the lowest
  free slot and the scan is ordered), and neither are terminals (terminal 0
  is opened at boot, and cleared PCBs say term 0).
- `ControlView` omits `vmap`, `screen`, `saved` and `echo_page` from state
  hashing. No guard, and no update of any other variable, reads them.
  States that agree on the view therefore have the same futures in the
  view.
  - The invariants of `kernel_safety` other than `TypeOK` mention only view
    variables, so they are checked exhaustively.
  - TLC evaluates invariants only on states with a new fingerprint. The
    conjuncts of `TypeOK` on the four omitted variables are therefore
    checked on one representative per control state.
  - The runs for properties about those variables use no VIEW.
- `Keyboard`: 2 terminals, `BUFFER_SIZE = 3` (the build's is 128), one
  character value, reads of 2 and 4 bytes. The buffer is long enough to
  reach the full-buffer branch and the clamp of `Copy`. The two read sizes
  are below and above the line length, so both ends of the copy loop run.
  The screen is 3 columns by 2 rows (80 by 25 in the build). With a
  3-cell line, the wrap count `j` of `keyboard_put` stays below the row
  count, as it does at 80x25 with 128 cells. `term_write` is called with
  `a`, `'\n'` and `a'\n'`, which reach a full row, the last row and the
  scroll.
- `FileTable`: `NUM_FILES = 3` in `file_safety`, which leaves one
  descriptor for `open`, so the table fills and a closed descriptor is
  reused. Every descriptor reaches every file type in turn. Data blocks are 4 bytes and the regular file is 6,
  so reads cross a block. Names have at most 4 bytes and one is
  unterminated (the 32-byte case). `UINT32 = 256` stands for 2^32; every
  size in the model is far below it. `nbytes` is -1, 0 and a whole name.
  The frequencies are all ten that `freq_to_rate` accepts, plus 3, an
  invalid one. With every case of its `switch` reached, `RateMatchesFreq`
  checks the whole table.
  Commands are every string of up to six bytes of `a` and space, with
  `FNAME_SIZE = 2` and `ARG_BYTES = 5`; the programs are `a` and `aa`.
  This reaches a name filling its buffer, a name one byte too long,
  several spaces, a second argument word, and an argument cut at
  `ARG_BYTES`. `getargs` is called with every `nbytes` from -1 to
  `ARG_BYTES`. The run takes a few seconds (87,000 states). With
  `NUM_FILES = 4` and all the frequencies it takes about five minutes,
  because the second descriptor multiplies everything else; the
  violation run `read_within_request` keeps `NUM_FILES = 4`.
- Fairness: `WF_vars(Tick)` only. The PIT fires at `SCHEDULING_RATE` no
  matter what a process does, and `irq_timer` can always make a step when a
  leaf exists. Programs may never call execute or halt, and the user may
  never type, so those actions get no fairness.
- `Interrupts`: `NUM_TERMS = 2`, the fewest with a process running while
  another terminal is visible, which the Ctrl+L race and the RTC flags of
  two readers need. The state space is small (about 29,000 states), but
  each tick, request and nesting depth is reached, including an RTC
  interrupt nested in a Ctrl+L handler and a PIT tick nested in both.
- `Interrupts` allows one exception per behaviour (`MAX_FAULTS = 1`).
  That is enough for an exception to strike in each frame of each handler,
  or to halt a reader, in some behaviour. Two faults would add only
  behaviours in which both terminals' programs are halted. After its
  fault, a terminal's leaf is its root shell, whose halt is `Kernel`'s
  relaunch path.
- `interrupts` hashes states by `ControlView`, which leaves out `screen`
  and `saved`. No guard, and no update of another variable, reads them, so
  states equal in the view have the same futures in it. None of the run's
  properties mentions them, apart from `TypeOK`'s two conjuncts. The view
  cuts the run from 2m47 to about 40 s. `ctrl_l_cursor`, whose property is
  about the cursors, uses no view.
- Fairness in `Interrupts`:
  - `WF` on `RaisePit` and `RaiseRtc`. The PIT and the RTC (at its
    programmed rate) keep requesting.
  - `SF` on `Timer` and `RtcInterrupt`. A pending request is delivered
    whenever `IF` is set and no line of higher or equal priority is in
    service, so it is enabled again and again. It need not stay enabled.
  - `SF` on `Resume(p, d)`, the step of process `p` whose top frame is at
    depth `d`. The CPU executes the process it is on. Fairness per depth,
    rather than per process, rules out a run where a nested handler is
    forever preempted and re-entered while its outer frame never resumes.
  - Nothing on `RaiseKeyboard`, keyboard delivery or `RtcReadCall`: the
    user need not type and a program need not read the RTC.
  - Nothing on the two exception actions. A fault may never come, as with
    the failure transitions of a protocol model.

## Not modelled, and why

- **Data.** File contents, the program image and video memory contents
  are abstracted away. Cursor coordinates are kept only in `Keyboard`,
  where the echo and `term_write` move them. `Kernel` and `Interrupts`
  keep only whose cursor each location holds. `vert_scroll` moves bytes
  only, so it is not modelled.
- **`lib.c`.** Its `clear`, `printf`, `putc` and `get_pcb` are not in the
  repository. `get_pcb()` is modelled as `cur`. `clear()` is taken to
  blank the screen without moving the cursor.
- **Boot-time hardware set-up.** `init_idt`, `i8259_init` and `set_rate`
  program hardware once. Of `rtc_init`, only the rate it sets is modelled
  (as `FileTable`'s `Init`). Of `i8259_init`, only the empty request and
  in-service registers it leaves (`Interrupts`' `Init`).
- **Interrupt masks and unused vectors.** `Interrupts` has the masks left
  after boot. `int_ignore` and the vectors that lead to it change nothing.
- **Exceptions of kernel code.** No handler code in the repository
  faults on a path the models reach. Inside a handler, the exceptions
  modelled are therefore the asynchronous ones (NMI, machine check).
  `Interrupts` treats the gap between a trap gate's entry and the
  handler's `cli` as one step.
- **The root shell's halt in `Interrupts`.** The leaves there are programs
  started from a shell. A root shell's halt and relaunch are `Kernel`'s
  `HaltRoot`.
- **`term_switch` in `Interrupts`.** Alt+F only sets `active_term`. The
  lazy fork, the refusal when slots are exhausted and the video remapping
  are modelled in `Kernel`.
- **The shared RTC rate.** `rtc_write` programs one rate for every
  terminal (`rtc.c:124`). `FileTable` models the rate bits, but not a
  second terminal's reader observing a rate it did not ask for.
- **A stale `vidmap` page.** `VidmapFresh` says `USER_VMEM` is mapped only
  for a program that called `vidmap`. TLC finds it violated in three steps
  (see the hazard at `syscall.c:46`), but no run is given to it.
- **The byte past `local_args` and `file_name`.** `sys_execute` writes
  `local_args[i]` with the command index `i` (`syscall.c:129`) and
  `file_name[FNAME_SIZE]` for a long name (`syscall.c:114`). At the end of
  the buffer these writes land outside it. What they overwrite depends on
  the compiler's stack layout, so the models leave them out. Inside the
  buffer the byte is already NUL.
- **Signals.** `sys_set_handler` and `sys_sigreturn` return 0 and change
  nothing.

## Plan

Ordered by importance. All ten items are in place.

1. `Kernel`: process lifecycle and scheduler. Done.
2. `Kernel`: terminal switch and video mappings. Done.
3. `Kernel`: echo target and cursor bookkeeping of `keyboard_put`. Done.
4. `Keyboard`: the line discipline. State: `command_line`, `cl_index`,
   `ENTER_FLAG` and blocked readers. Actions: typing, Backspace, Enter,
   Alt+F, and `key_read` split at its `sti` busy-wait. This checks that a
   reader gets the line typed in its own terminal. Done.
5. `FileTable`: per-process `file_array` with `sys_open/close/read/write`,
   `file_read` positions, `read_directory`, and the closing of files in
   `sys_halt`. Done. `read_data` is a recursive operator, checked against
   the at-most-`nbytes` contract (`ReadWithinRequest`).
6. `Interrupts` and `RtcWait`: per-terminal wait flags, a wait split at
   its `sti`, liveness of `rtc_read` under a fair RTC, and the refinement
   to `RtcWait`. Done. The shared rate remains open.
7. An abstract specification of the process table. Done, as
   `SlotLifecycle`, the specification's per-slot state machine, which
   `Kernel` implements. A per-terminal abstraction (each terminal a stack
   of programs) is not checked: `terminal_keeps_shell` and
   `cursors_separated` already show that the code does not keep terminals
   apart when a root shell halts, so such an abstraction would only
   restate those violations.
8. The vidmap page (`page_table[pd+USER_OFFSET]`) and `sys_vidmap`. Done.
   `sys_getargs` and the argument parsing of `sys_execute` are in
   `FileTable`.
9. Split the Ctrl+L path of `keyboard_handler` at the `sti` of
   `clear_keyboard`. Done, in `Interrupts`.
10. A fault model: an exception taken inside a handler (`exceptions.c`).
    Done, in `Interrupts`.
