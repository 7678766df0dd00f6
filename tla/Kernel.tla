------------------------------- MODULE Kernel -------------------------------
(***************************************************************************)
(* The process-management core of student-distrib: the process table      *)
(* (tasks_bitmap and the PCB of every slot), the lifecycle syscalls        *)
(* sys_execute, sys_fork and sys_halt (syscall.c), the PIT scheduler       *)
(* irq_timer (scheduling.c), the Alt+Fn terminal switch term_switch with   *)
(* switch_vidmem (terminal.c, paging.c) and the target that keyboard_put   *)
(* echoes a typed key into (keyboard.c).                                   *)
(*                                                                         *)
(* One processor; concurrency is interrupt preemption.  int 0x80 and the   *)
(* IRQ vectors are interrupt gates (interrupt.c init_idt), so a syscall,   *)
(* a timer tick and a keyboard interrupt each run with IF clear and are    *)
(* one atomic step here.  A process can be interrupted whenever it runs    *)
(* user code, busy-waits in a blocking read (which executes sti), or spins *)
(* in sys_halt after relaunching a root shell.                             *)
(*                                                                         *)
(* Data is abstracted: a saved esp/ebp pair is the kind of frame it points *)
(* at, a physical video page is VIDEO or the shadow page of a terminal, a  *)
(* cursor position is the terminal it belongs to.                          *)
(***************************************************************************)
EXTENDS Integers, FiniteSets, FiniteSetsExt

CONSTANTS MAX_PROCESSES,   \* types.h: slot 0 is the kernel, 1..MAX-1 user
          NUM_TERMS        \* scheduling.h

ASSUME MAX_PROCESSES \in 2..7 /\ NUM_TERMS \in 1..3

Slots     == 0..(MAX_PROCESSES - 1)
UserSlots == 1..(MAX_PROCESSES - 1)
Bits      == 0..7                 \* tasks_bitmap is a uint8_t; 1 = free
Terms     == 0..(NUM_TERMS - 1)
NULL      == 0                    \* a NULL pcb_t pointer; slot 0 is never a parent or child

\* A physical video page: VIDEO (0xB8000) or the shadow buffer of terminal t,
\* VMEM_OFFSET + FOUR_KB * (t + 1), named here by t + 1.
VIDEO     == 0
\* Seeded fault: one page too far, VMEM_OFFSET + FOUR_KB * (t + 2).
ShadowPastBuffer(t) == t + 2
Shadow(t) == t + 1
Pages     == 0..NUM_TERMS
NONE      == -1

\* What a PCB's saved esp/ebp point at: nothing (cleared by halt), the top of
\* the kernel stack (sys_execute), the frame fabricated by sys_fork, a frame
\* saved by irq_timer, or the frame sys_execute left for halt_return.
Ctx == {"none", "top", "fresh", "tick", "exec"}

\* 0xFE: only the kernel's bit clear.  0x80: every slot below MAX_PROCESSES
\* taken, bit 7 set (term_switch writes the literal, which is this value for
\* the build's MAX_PROCESSES of 7).
NO_PROCESSES == [b \in Bits |-> IF b = 0 THEN 0 ELSE 1]
ALL_BUSY     == [b \in Bits |-> IF b >= MAX_PROCESSES THEN 1 ELSE 0]

\* Terminals whose first shell term_switch forks lazily (TERM1_FLAG, TERM2_FLAG).
FreshTerms == 1..(NUM_TERMS - 1)

\* PCB memory that was never written, or that sys_halt has cleared.
ZeroPCB == [task_id |-> 0, parent |-> NULL, child |-> NULL, term |-> 0, ctx |-> "none"]

VARIABLES
    tasks_bitmap,  \* syscall.c: occupancy bitmap, bit set = slot free
    pcb,           \* the pcb_t at EIGHT_MB - EIGHT_KB * slot
    cur,           \* the slot whose kernel stack is in use: what get_pcb() returns
    run,           \* "boot": kernel idle loop; "user": cur runs its program;
                   \* "spin": cur spins in sys_halt after relaunching a shell
    FIRST_FLAG,    \* scheduling.c
    active_term,   \* keyboard.c: the visible terminal
    TERM_FLAG,     \* terminal.c: TERM1_FLAG, TERM2_FLAG
    vmap,          \* page_table[slot][VMEM_OFFSET >> 12]: the page a slot sees as video memory
    cr3,           \* the loaded page directory
    tss_esp0,      \* the slot whose kernel stack tss.esp0 points into
    screen,        \* lib.c screen_x/screen_y: whose cursor they hold
    saved,         \* scheduling.c saved_x/saved_y per terminal: whose cursor each holds
    resumable,     \* auxiliary: slots whose saved esp is where they are suspended now
    echo_page,     \* auxiliary: the video page the last echoed key was written to
    umap,          \* page_table[slot + USER_OFFSET][0]: the page USER_VMEM shows, NONE until present
    vidmapped      \* auxiliary: slots whose current program has called vidmap

vars == <<tasks_bitmap, pcb, cur, run, FIRST_FLAG, active_term, TERM_FLAG,
          vmap, cr3, tss_esp0, screen, saved, resumable, echo_page, umap, vidmapped>>

-----------------------------------------------------------------------------
Occupied(s) == s \in UserSlots /\ tasks_bitmap[s] = 0

Leaf(s) == Occupied(s) /\ pcb[s].child = NULL

\* The scan `while((tasks_bitmap & (0x1 << pd)) == 0) pd++`: lowest free bit.
MinFree(bm) == Min({b \in Bits : bm[b] = 1})

\* irq_timer's inner loop: the next occupied slot after i, wrapping to 1.
\* The fuel n only bounds the recursion; Tick is enabled only when a leaf exists.
\* Seeded fault: wraps one slot early, so the last slot is never scanned.
StepWrapsEarly(i) == IF i + 1 >= MAX_PROCESSES - 1 THEN 1 ELSE i + 1
Step(i) == IF i + 1 >= MAX_PROCESSES THEN 1 ELSE i + 1

RECURSIVE NextOccupied(_, _)
NextOccupied(i, n) ==
    IF n = 0 \/ tasks_bitmap[Step(i)] = 0 THEN Step(i)
    ELSE NextOccupied(Step(i), n - 1)

\* irq_timer's outer loop: repeat until the slot found has no child.
RECURSIVE NextLeaf(_, _)
NextLeaf(i, n) ==
    LET j == NextOccupied(i, MAX_PROCESSES)
    IN  IF n = 0 \/ pcb[j].child = NULL THEN j ELSE NextLeaf(j, n - 1)

\* Seeded fault: the shell's saved esp/ebp left at the top of its kernel
\* stack, as sys_execute leaves a child's, instead of below a fabricated frame.
ForkedShellAtTop(pd, t) ==
    [task_id |-> pd, parent |-> NULL, child |-> NULL, term |-> t, ctx |-> "top"]

\* The PCB sys_fork builds for a shell in slot pd: no parent, frame fabricated.
ForkedShell(pd, t) ==
    [task_id |-> pd, parent |-> NULL, child |-> NULL, term |-> t, ctx |-> "fresh"]

\* The PCB sys_execute builds for the child in slot pd of the caller par:
\* saved esp/ebp at the top of its kernel stack, terminal inherited.
\* Seeded fault: the terminal taken from get_active_term(), as sys_fork does.
ChildPCBInActiveTerm(pd, par) ==
    [task_id |-> pd, parent |-> par, child |-> NULL, term |-> active_term, ctx |-> "top"]
ChildPCB(pd, par) ==
    [task_id |-> pd, parent |-> par, child |-> NULL, term |-> pcb[par].term, ctx |-> "top"]

\* The page directory keyboard_put (and term_switch's refusal) writes through:
\* the first slot whose PCB says it is a childless process of the active
\* terminal.  The loop reads PCB memory without consulting tasks_bitmap.  When
\* nothing matches it falls out with i = MAX_PROCESSES, the PCB just below the
\* last slot's, memory nothing writes: it reads as zero, task_id 0, the kernel
\* directory, which maps VIDEO.
\* The result is the task_id read from the PCB found, the directory that
\* set_page_directory loads: 0 for a PCB that sys_halt cleared.
EchoTarget ==
    LET c == {i \in UserSlots : pcb[i].term = active_term /\ pcb[i].child = NULL}
    IN  IF c = {} THEN 0 ELSE pcb[Min(c)].task_id

\* Where saved_x/y stand after keyboard_put's or term_switch's two cursor swaps
\* when get_pcb() is in another terminal: the outgoing terminal's slot gets
\* screen_x/y, the active one gets its own cursor back, screen_x/y are restored.
SavedAfterSwaps ==
    IF pcb[cur].term # active_term THEN [saved EXCEPT ![pcb[cur].term] = screen] ELSE saved

-----------------------------------------------------------------------------
\* State after boot: paging, keyboard and PIT initialised (FIRST_FLAG = 1)
\* and the kernel's sys_fork of the first shell of terminal 0 into slot 1.
Init ==
    /\ tasks_bitmap = [NO_PROCESSES EXCEPT ![1] = 0]
    /\ pcb = [s \in Slots |-> IF s = 1 THEN ForkedShell(1, 0) ELSE ZeroPCB]
    /\ cur = 0
    /\ run = "boot"
    /\ FIRST_FLAG = 1
    /\ active_term = 0
    /\ TERM_FLAG = [t \in FreshTerms |-> 1]
    /\ vmap = [s \in Slots |-> VIDEO]
    /\ cr3 = 0
    /\ tss_esp0 = 0
    /\ screen = 0
    /\ saved = [t \in Terms |-> t]
    /\ resumable = {1}
    /\ echo_page = NONE
    /\ umap = [s \in Slots |-> NONE]
    /\ vidmapped = {}

-----------------------------------------------------------------------------
(* irq_timer: a PIT tick.  Acknowledged first; nothing else while no process *)
(* exists.  Otherwise scan cyclically from the current task for a childless  *)
(* occupied slot (the scan never ends when there is none, so no step is      *)
(* possible then).  Keep running when it is the current task, unless         *)
(* FIRST_FLAG; else swap the cursors of the two terminals, point tss.esp0 at *)
(* the new stack, save the outgoing frame unless FIRST_FLAG, clear the flag, *)
(* load the new page directory and resume from the new task's saved esp.    *)
\* Seeded fault: FIRST_FLAG is never cleared after the first switch.
TickKeepsFirstFlag ==
    /\ tasks_bitmap # NO_PROCESSES
    /\ \E s \in UserSlots : Leaf(s)
    /\ LET old == pcb[cur]
           new == NextLeaf(old.task_id, MAX_PROCESSES)
       IN  /\ ~(old.task_id = new /\ FIRST_FLAG = 0)
           /\ IF old.term # pcb[new].term
                THEN /\ saved' = [saved EXCEPT ![old.term] = screen]
                     /\ screen' = saved[pcb[new].term]
                ELSE UNCHANGED <<saved, screen>>
           /\ tss_esp0' = new
           /\ pcb' = IF FIRST_FLAG = 0 THEN [pcb EXCEPT ![cur].ctx = "tick"] ELSE pcb
           /\ resumable' = (IF FIRST_FLAG = 0 THEN resumable \cup {cur} ELSE resumable) \ {new}
           /\ FIRST_FLAG' = FIRST_FLAG
           /\ cr3' = new
           /\ cur' = new
           /\ run' = "user"
    /\ UNCHANGED <<tasks_bitmap, active_term, TERM_FLAG, vmap, echo_page, umap, vidmapped>>

Tick ==
    /\ tasks_bitmap # NO_PROCESSES
    /\ \E s \in UserSlots : Leaf(s)
    /\ LET old == pcb[cur]
           new == NextLeaf(old.task_id, MAX_PROCESSES)
       IN  /\ ~(old.task_id = new /\ FIRST_FLAG = 0)
           /\ IF old.term # pcb[new].term
                THEN /\ saved' = [saved EXCEPT ![old.term] = screen]
                     /\ screen' = saved[pcb[new].term]
                ELSE UNCHANGED <<saved, screen>>
           /\ tss_esp0' = new
           /\ pcb' = IF FIRST_FLAG = 0 THEN [pcb EXCEPT ![cur].ctx = "tick"] ELSE pcb
           /\ resumable' = (IF FIRST_FLAG = 0 THEN resumable \cup {cur} ELSE resumable) \ {new}
           /\ FIRST_FLAG' = 0
           /\ cr3' = new
           /\ cur' = new
           /\ run' = "user"
    /\ UNCHANGED <<tasks_bitmap, active_term, TERM_FLAG, vmap, echo_page, umap, vidmapped>>

(* sys_execute failing: load_program returns -1 when the name is not in the *)
(* file system, when no slot is free (pd = MAX_PROCESSES), when the file is  *)
(* not a regular file or lacks the ELF magic.  Nothing the model tracks      *)
(* changes (the image mapping of the free slot is not modelled).  The last *)
(* read_data, after set_page_directory(pd), cannot fail: it reads the same *)
(* inode at offset 0 as the magic-number read that succeeded.             *)
ExecuteFails(prog) ==
    /\ run = "user"
    /\ prog = "bad" \/ MinFree(tasks_bitmap) = MAX_PROCESSES
    /\ UNCHANGED vars

(* sys_execute succeeding: take the lowest free slot, load the image and     *)
(* switch to its directory, mark it occupied, map its video page to VIDEO,   *)
(* point tss.esp0 at it, build its PCB (parent = caller, terminal inherited)*)
(* and record it as the caller's child, save the caller's esp/ebp for       *)
(* halt_return and iret into the new program.                               *)
Execute(prog) ==
    /\ run = "user"
    /\ prog = "exec"
    /\ LET pd == MinFree(tasks_bitmap)
       IN  /\ pd < MAX_PROCESSES
           /\ tasks_bitmap' = [tasks_bitmap EXCEPT ![pd] = 0]
           /\ vmap' = [vmap EXCEPT ![pd] = VIDEO]
           /\ tss_esp0' = pd
           /\ pcb' = [pcb EXCEPT
                        ![pd]  = ChildPCB(pd, cur),
                        ![cur].child = pd,
                        ![cur].ctx = "exec"]
           /\ resumable' = resumable \cup {cur}
           /\ cr3' = pd
           /\ cur' = pd
           /\ vidmapped' = vidmapped \ {pd}
    /\ UNCHANGED <<run, FIRST_FLAG, active_term, TERM_FLAG, screen, saved, echo_page, umap>>

(* sys_halt of a process with a parent (also what every exception handler  *)
(* calls): clear the PCB, give tss.esp0 and cr3 back to the parent, unmap   *)
(* the child's image, clear the parent's child, free the slot and jump to   *)
(* halt_return on the parent's saved esp/ebp.                               *)
\* Seeded fault: tss.esp0 is left pointing into the halted child's stack.
HaltToParentKeepsEsp0 ==
    /\ run = "user"
    /\ pcb[cur].parent # NULL
    /\ LET par == pcb[cur].parent
       IN  /\ cr3' = par
           /\ pcb' = [pcb EXCEPT ![cur] = ZeroPCB, ![par].child = NULL]
           /\ tasks_bitmap' = [tasks_bitmap EXCEPT ![cur] = 1]
           /\ resumable' = resumable \ {cur, par}
           /\ cur' = par
           /\ vidmapped' = vidmapped \ {cur}
    /\ UNCHANGED <<tss_esp0, run, FIRST_FLAG, active_term, TERM_FLAG, vmap, screen, saved,
                   echo_page, umap>>

HaltToParent ==
    /\ run = "user"
    /\ pcb[cur].parent # NULL
    /\ LET par == pcb[cur].parent
       IN  /\ tss_esp0' = par
           /\ cr3' = par
           /\ pcb' = [pcb EXCEPT ![cur] = ZeroPCB, ![par].child = NULL]
           /\ tasks_bitmap' = [tasks_bitmap EXCEPT ![cur] = 1]
           /\ resumable' = resumable \ {cur, par}
           /\ cur' = par
           /\ vidmapped' = vidmapped \ {cur}
    /\ UNCHANGED <<run, FIRST_FLAG, active_term, TERM_FLAG, vmap, screen, saved, echo_page,
                   umap>>

(* sys_halt of a root shell: clear the PCB (task_id and parent stay), free  *)
(* the slot, zero screen_x/y and the saved cursor of the ACTIVE terminal,   *)
(* sys_fork a shell into the lowest free slot for the ACTIVE terminal, set  *)
(* FIRST_FLAG and spin with interrupts on until the scheduler takes over.   *)
HaltRoot ==
    /\ run = "user"
    /\ pcb[cur].parent = NULL
    /\ LET bm1 == [tasks_bitmap EXCEPT ![cur] = 1]
           p1  == [pcb EXCEPT ![cur].ctx = "none", ![cur].term = 0, ![cur].child = NULL]
           pd  == MinFree(bm1)
       IN  /\ tasks_bitmap' = [bm1 EXCEPT ![pd] = 0]
           /\ pcb' = [p1 EXCEPT ![pd] = ForkedShell(pd, active_term)]
           /\ vmap' = [vmap EXCEPT ![pd] = VIDEO]
           /\ cr3' = IF pd # 1 THEN p1[cur].task_id ELSE 0
           /\ screen' = pcb[cur].term
           /\ saved' = [saved EXCEPT ![active_term] = pcb[cur].term]
           /\ resumable' = (resumable \ {cur}) \cup {pd}
           /\ vidmapped' = vidmapped \ {cur, pd}
    /\ FIRST_FLAG' = 1
    /\ run' = "spin"
    /\ UNCHANGED <<cur, tss_esp0, active_term, TERM_FLAG, echo_page, umap>>

(* switch_vidmem(old, new): every occupied slot of terminal old now sees    *)
(* old's shadow page, every occupied slot of terminal new sees VIDEO; free *)
(* slots are skipped and keep whatever they saw.                            *)
SwitchVidmem(old, new) ==
    [s \in Slots |->
        IF Occupied(s) /\ pcb[s].term = old THEN Shadow(old)
        ELSE IF Occupied(s) /\ pcb[s].term = new THEN VIDEO
        ELSE vmap[s]]

\* Seeded fault: the new terminal's vidmap pages are left alone.
SwitchUserVidmemOldOnly(old, new) ==
    [s \in Slots |->
        IF umap[s] # NONE /\ Occupied(s) /\ pcb[s].term = old THEN Shadow(old)
        ELSE umap[s]]

(* The same loop's second write, page_table[pd + USER_OFFSET][0]: the page *)
(* vidmap maps at USER_VMEM follows the terminal as the video page does.   *)
(* Only the address bits change: a page vidmap never made present stays   *)
(* absent.                                                                  *)
SwitchUserVidmem(old, new) ==
    [s \in Slots |->
        IF umap[s] # NONE /\ Occupied(s) /\ pcb[s].term = old THEN Shadow(old)
        ELSE IF umap[s] # NONE /\ Occupied(s) /\ pcb[s].term = new THEN VIDEO
        ELSE umap[s]]

(* term_switch refusing: every slot is taken (tasks_bitmap == 0x80) and the *)
(* terminal has no shell yet.  It prints the error into the active          *)
(* terminal's leaf (EchoTarget) and restores cr3 to get_pcb()->task_id.    *)
TermSwitchRefused(new) ==
    /\ tasks_bitmap = ALL_BUSY
    /\ new \in FreshTerms /\ TERM_FLAG[new] = 1
    /\ echo_page' = vmap[EchoTarget]
    /\ saved' = SavedAfterSwaps
    /\ cr3' = pcb[cur].task_id
    /\ UNCHANGED <<tasks_bitmap, pcb, cur, run, FIRST_FLAG, active_term, TERM_FLAG,
                   vmap, tss_esp0, screen, resumable, umap, vidmapped>>

(* term_switch to a terminal that already has a shell: set active_term and *)
(* switch_vidmem, which ends by reloading get_pcb()'s directory.            *)
TermSwitch(new) ==
    /\ new # active_term
    /\ ~(new \in FreshTerms /\ TERM_FLAG[new] = 1)
    /\ active_term' = new
    /\ vmap' = SwitchVidmem(active_term, new)
    /\ umap' = SwitchUserVidmem(active_term, new)
    /\ cr3' = pcb[cur].task_id
    /\ UNCHANGED <<tasks_bitmap, pcb, cur, run, FIRST_FLAG, TERM_FLAG,
                   tss_esp0, screen, saved, resumable, echo_page, vidmapped>>

(* term_switch to a terminal visited for the first time: as above, then    *)
(* sys_fork a shell for it (term = the new active_term) into the lowest    *)
(* free slot (one exists: not every slot is busy) and clear the terminal's *)
(* flag.  sys_fork maps the video page,                                     *)
(* marks the slot, writes the PCB with the fabricated iret frame and       *)
(* reloads the directory of get_pcb()->task_id (of 0 when pd is 1).        *)
TermSwitchFork(new) ==
    /\ tasks_bitmap # ALL_BUSY
    /\ new # active_term
    /\ new \in FreshTerms /\ TERM_FLAG[new] = 1
    /\ LET pd == MinFree(tasks_bitmap)
       IN  /\ active_term' = new
           /\ TERM_FLAG' = [TERM_FLAG EXCEPT ![new] = 0]
           /\ tasks_bitmap' = [tasks_bitmap EXCEPT ![pd] = 0]
           /\ pcb' = [pcb EXCEPT ![pd] = ForkedShell(pd, new)]
           /\ vmap' = [SwitchVidmem(active_term, new) EXCEPT ![pd] = VIDEO]
           /\ umap' = SwitchUserVidmem(active_term, new)
           /\ vidmapped' = vidmapped \ {pd}
           /\ cr3' = IF pd # 1 THEN pcb[cur].task_id ELSE 0
           /\ resumable' = resumable \cup {pd}
    /\ UNCHANGED <<cur, run, FIRST_FLAG, tss_esp0, screen, saved, echo_page>>

(* keyboard_handler for a key that is echoed: keyboard_put switches to the *)
(* directory of EchoTarget, writes the command line at the cursor of the   *)
(* active terminal (swapping screen_x/y in and back out when get_pcb() is  *)
(* in another terminal) and reloads                                         *)
(* get_pcb()->task_id's directory.                                          *)
KeyPress ==
    /\ echo_page' = vmap[EchoTarget]
    /\ saved' = SavedAfterSwaps
    /\ cr3' = pcb[cur].task_id
    /\ UNCHANGED <<tasks_bitmap, pcb, cur, run, FIRST_FLAG, active_term, TERM_FLAG,
                   vmap, tss_esp0, screen, resumable, umap, vidmapped>>

(* sys_vidmap: a screen_start outside the program's 4 MB page returns -1;  *)
(* otherwise map_page makes USER_VMEM present in get_pcb()'s directory,    *)
(* showing VIDEO when its terminal is visible and its shadow page if not.  *)
\* The page sys_vidmap maps for slot s.
VidmapPage(s) == IF pcb[s].term = active_term THEN VIDEO ELSE Shadow(pcb[s].term)

VidmapFails ==
    /\ run = "user"
    /\ UNCHANGED vars

Vidmap ==
    /\ run = "user"
    /\ umap' = [umap EXCEPT ![cur] = VidmapPage(cur)]
    /\ vidmapped' = vidmapped \cup {cur}
    /\ UNCHANGED <<tasks_bitmap, pcb, cur, run, FIRST_FLAG, active_term, TERM_FLAG,
                   vmap, cr3, tss_esp0, screen, saved, resumable, echo_page>>

\* Program names as sys_execute sees them: one that loads, one that does not.
Programs == {"exec", "bad"}

Next ==
    \/ Tick
    \/ \E prog \in Programs : Execute(prog) \/ ExecuteFails(prog)
    \/ HaltToParent
    \/ HaltRoot
    \/ \E t \in Terms : TermSwitchRefused(t) \/ TermSwitch(t) \/ TermSwitchFork(t)
    \/ KeyPress
    \/ Vidmap \/ VidmapFails

\* The PIT keeps interrupting at SCHEDULING_RATE; nothing else is fair:
\* processes and the user at the keyboard may stop acting.
Spec == Init /\ [][Next]_vars /\ WF_vars(Tick)

-----------------------------------------------------------------------------
(***************************************************************************)
(* The refinement mapping onto SlotLifecycle.  A slot is Parked while its  *)
(* PCB names a child; Bootstrapped while it holds the frame sys_fork       *)
(* fabricated and has not been resumed from it; Foreground when otherwise  *)
(* occupied; Free otherwise, also while a halted root shell still spins   *)
(* on its kernel stack.                                                     *)
(***************************************************************************)
LifeState(s) ==
    IF Occupied(s) /\ pcb[s].child # NULL THEN "Parked"
    ELSE IF Occupied(s) /\ pcb[s].ctx = "fresh" /\ ~(s = cur /\ run = "user")
         THEN "Bootstrapped"
    ELSE IF Occupied(s) THEN "Foreground"
    ELSE "Free"

Life == INSTANCE SlotLifecycle WITH
            st <- [s \in UserSlots |-> LifeState(s)],
            parent <- [s \in UserSlots |-> IF Occupied(s) THEN pcb[s].parent ELSE NULL]

-----------------------------------------------------------------------------
(***************************************************************************)
(* Properties                                                              *)
(***************************************************************************)
TypeOK ==
    /\ tasks_bitmap \in [Bits -> {0, 1}]
    /\ pcb \in [Slots -> [task_id : Slots, parent : Slots, child : Slots,
                          term : Terms, ctx : Ctx]]
    /\ cur \in Slots
    /\ run \in {"boot", "user", "spin"}
    /\ FIRST_FLAG \in {0, 1}
    /\ active_term \in Terms
    /\ TERM_FLAG \in [FreshTerms -> {0, 1}]
    /\ vmap \in [Slots -> Pages]
    /\ cr3 \in Slots
    /\ tss_esp0 \in Slots
    /\ screen \in Terms
    /\ saved \in [Terms -> Terms]
    /\ resumable \subseteq UserSlots
    /\ echo_page \in Pages \cup {NONE}
    /\ umap \in [Slots -> Pages \cup {NONE}]
    /\ vidmapped \subseteq UserSlots

(* Only a terminal's leaf ever runs, and it runs in its own address space  *)
(* on its own kernel stack: whenever user code of get_pcb() executes, its  *)
(* slot is occupied, it has no active child, cr3 holds its page directory  *)
(* and tss.esp0 points into its kernel stack.  irq_timer, sys_execute and  *)
(* both halt paths each set part of this; a wrong esp0 makes the next      *)
(* interrupt from user mode land on another process's stack.               *)
RunningLeafOwnsCpu ==
    run = "user" =>
        /\ Leaf(cur)
        /\ cr3 = cur
        /\ tss_esp0 = cur

(* Every process that is not running can be resumed from where it stopped: *)
(* its PCB's saved esp is live, it is the halt_return frame of sys_execute *)
(* exactly when the process is parked on a child, and otherwise a frame    *)
(* irq_timer saved or sys_fork fabricated.  Broken if the scheduler skips  *)
(* saving an outgoing process (FIRST_FLAG left set) or resumes a parent.   *)
SuspendedResumable ==
    \A s \in UserSlots :
        Occupied(s) /\ ~(run = "user" /\ s = cur) =>
            /\ s \in resumable
            /\ pcb[s].ctx \in {"exec", "tick", "fresh"}
            /\ (pcb[s].ctx = "exec") = (pcb[s].child # NULL)

(* The parent and child pointers of occupied PCBs form chains within one   *)
(* terminal: a child pointer names an occupied slot whose parent pointer   *)
(* names back, and so does a parent pointer; each PCB's task_id is its     *)
(* slot; and once a process exists some occupied slot is childless, so the *)
(* scan in irq_timer terminates.                                            *)
ChainsConsistent ==
    /\ \A s \in UserSlots : Occupied(s) =>
          /\ pcb[s].task_id = s
          /\ pcb[s].child # NULL =>
                /\ Occupied(pcb[s].child)
                /\ pcb[pcb[s].child].parent = s
                /\ pcb[pcb[s].child].term = pcb[s].term
          /\ pcb[s].parent # NULL =>
                /\ Occupied(pcb[s].parent)
                /\ pcb[pcb[s].parent].child = s
    /\ tasks_bitmap # NO_PROCESSES => \E s \in UserSlots : Leaf(s)

(* Round robin reaches every leaf: a process that is occupied and          *)
(* childless eventually runs.  Only the timer is assumed to keep firing.   *)
EveryLeafRuns ==
    \A s \in UserSlots : Leaf(s) ~> (cur = s /\ run = "user")

(* The process table follows the slot life cycle of the specification:   *)
(* execute, fork, both halt paths and the scheduler's switch together      *)
(* only move slots Free -> Bootstrapped -> Foreground <-> Parked, hand     *)
(* control back to the parent recorded by execute, execute only from the  *)
(* process that runs, and relaunch only for a halting root shell.         *)
SlotLifecycleRefined == Life!Spec

(* Not checked by a run; TLC finds it violated (see README).  A halting   *)
(* root shell's replacement is forked into the same slot (spec 4.4, halt). *)
RelaunchInSameSlot ==
    [][run = "user" /\ run' = "spin" => tasks_bitmap'[cur] = 0]_vars

(* Each process sees its own terminal's screen: an occupied slot whose     *)
(* terminal is visible has VIDEO mapped, any other occupied slot its        *)
(* terminal's shadow page (spec 4.1 swap_video).                            *)
VideoIsolation ==
    \A s \in UserSlots : Occupied(s) =>
        vmap[s] = IF pcb[s].term = active_term THEN VIDEO ELSE Shadow(pcb[s].term)

(* The page vidmap gave a program keeps showing its own terminal's screen *)
(* through every later terminal switch (spec 4, vidmap: the real frame     *)
(* buffer while its terminal is visible, its shadow buffer otherwise).     *)
(* switch_vidmem must move it along with the video page, for the old and  *)
(* the new terminal alike, and a halted program's slot must drop out.      *)
VidmapIsolation ==
    \A s \in vidmapped :
        /\ Occupied(s)
        /\ umap[s] = IF pcb[s].term = active_term THEN VIDEO ELSE Shadow(pcb[s].term)

(* USER_VMEM is mapped only for a program that asked for it with vidmap.   *)
(* sys_halt unmaps the program page but not this one, so a program loaded *)
(* into a slot inherits its predecessor's mapping.                          *)
VidmapFresh ==
    \A s \in UserSlots : Occupied(s) /\ umap[s] # NONE => s \in vidmapped

(* A terminal that has been opened always keeps its root shell: halting a  *)
(* root shell relaunches one in the same terminal (spec 3, 4.4).            *)
TerminalKeepsShell ==
    \A t \in Terms : (t \notin FreshTerms \/ TERM_FLAG[t] = 0) =>
        \E s \in UserSlots : Occupied(s) /\ pcb[s].term = t /\ pcb[s].parent = NULL

(* A key typed into the visible terminal is echoed into the real video     *)
(* memory, never into a shadow page.                                        *)
EchoVisible ==
    echo_page \in {NONE, VIDEO}

(* While a process runs, screen_x/y hold its terminal's cursor and         *)
(* saved_x/y of every other terminal hold that terminal's cursor.           *)
CursorsSeparated ==
    run = "user" =>
        /\ screen = pcb[cur].term
        /\ \A t \in Terms \ {pcb[cur].term} : saved[t] = t
=============================================================================
