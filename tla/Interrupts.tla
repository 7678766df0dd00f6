------------------------------ MODULE Interrupts ------------------------------
(***************************************************************************)
(* Interrupt delivery on the one CPU: the cascaded 8259 PICs (i8259.c),    *)
(* the gates init_idt installs (interrupt.c), the handlers of the PIT      *)
(* (scheduling.c irq_timer), the keyboard (keyboard.c keyboard_handler,    *)
(* clear_keyboard, keyboard_put) and the RTC (rtc.c rtc_handler), and the  *)
(* RTC read that waits for them (rtc_read).                                *)
(*                                                                         *)
(* Every terminal runs one leaf process (its shell, already started), and  *)
(* irq_timer passes the CPU round robin between them.  A process's kernel  *)
(* stack is a sequence of frames: its base (user mode or a step of         *)
(* rtc_read) and, above it, the handlers it was interrupted by.  A process *)
(* that is not on the CPU was switched out by irq_timer, so its top frame  *)
(* is a PIT frame.  IRQ and system-call gates are interrupt gates (IF is   *)
(* cleared on entry); iret restores the IF of the interrupted code, which  *)
(* is 1 for every frame, as interrupts are delivered only with IF set.     *)
(* Cursors are abstracted to whose they are: screen_x/y and saved_x/y[t]   *)
(* each hold the cursor of some terminal.  The leaf of every terminal is a *)
(* program its shell started, so an exception's sys_halt returns to the    *)
(* shell; a root shell's halt and relaunch are modelled in Kernel.         *)
(***************************************************************************)
EXTENDS Integers, Sequences, FiniteSets

CONSTANTS
    NUM_TERMS,    \* terminals, one leaf process each
    MAX_FAULTS    \* bound on the exceptions of one behaviour

Terms == 0 .. NUM_TERMS - 1

\* IRQ lines (i8259.h, rtc.h, keyboard.h).
PIT == 0
KEYBOARD == 1
SLAVE_IRQ == 2
RTC == 8
Lines == {PIT, KEYBOARD, SLAVE_IRQ, RTC}

\* The master input a line reaches the CPU through.
MasterLine(l) == IF l >= 8 THEN SLAVE_IRQ ELSE l

\* Frames of a kernel stack.
Bases == {"user", "rtc_sti", "rtc_arm", "rtc_spin"}
Handlers == {"pit", "rtc_eoi", "kbd_put", "kbd_swap_back", "kbd_eoi"}
LineOf == [f \in Handlers |-> IF f = "rtc_eoi" THEN RTC
                              ELSE IF f = "pit" THEN PIT ELSE KEYBOARD]

\* Scan codes the handler tells apart: Alt+Fn of a terminal, Ctrl+L, and a
\* key that is stored and echoed.
Keys == {<<"ctrl_l", 0>>, <<"char", 0>>} \cup {<<"alt_f", t>> : t \in Terms}

VARIABLES
    cpu,       \* the terminal whose leaf process is on the CPU
    eflags_IF, \* EFLAGS.IF
    stack,     \* Terms -> the kernel stack of the terminal's process
    irr,       \* lines requested at the PICs
    isr,       \* lines in service at the PICs (master and slave)
    regc,      \* the RTC holds its interrupt until register C is read
    int_has_occurred,  \* rtc.c, per terminal
    active_term,
    screen,    \* whose cursor screen_x/screen_y hold
    saved,     \* Terms -> whose cursor saved_x/saved_y[t] hold
    faults     \* exceptions taken so far

vars == <<cpu, eflags_IF, stack, irr, isr, regc, int_has_occurred, active_term,
          screen, saved, faults>>

Top(p) == stack[p][Len(stack[p])]
Base(p) == stack[p][1]
Push(p, f) == [stack EXCEPT ![p] = Append(@, f)]
Pop(p) == [stack EXCEPT ![p] = SubSeq(@, 1, Len(@) - 1)]
SetTop(p, f) == [stack EXCEPT ![p][Len(stack[p])] = f]

Init ==
    /\ cpu = 0
    /\ eflags_IF = TRUE
    /\ stack = [p \in Terms |-> IF p = 0 THEN <<"user">> ELSE <<"user", "pit">>]
    /\ irr = {}
    /\ isr = {}
    /\ regc = FALSE
    /\ int_has_occurred = [t \in Terms |-> 0]
    /\ active_term = 0
    /\ screen = 0
    /\ saved = [t \in Terms |-> t]
    /\ faults = 0
(***************************************************************************)
(* The PIC.  Every line is unmasked once the kernel has booted             *)
(* (i8259_init, keyboard_init, rtc_init, the PIT's setup).  In fully       *)
(* nested mode a request reaches the CPU while no line of the same or      *)
(* higher priority is in service; a slave line goes through master line 2, *)
(* so the slave's in-service line blocks every slave line.                 *)
(***************************************************************************)

\* The CPU takes line l now (IF set, requested, not blocked).
Deliverable(l) ==
    /\ eflags_IF
    /\ l \in irr
    /\ \A m \in isr : MasterLine(l) < MasterLine(m)

\* Seeded fault: send_eoi of a slave line without the master's EOI.
EoiSlaveOnly(l) == {l}

\* The lines send_eoi ends: a slave line and the master's cascade line.
EoiLines(l) == IF l >= 8 THEN {l, SLAVE_IRQ} ELSE {l}

\* Accepting a request: the PIC moves it to in service, the gate clears IF.
Accepted(l) == {l} \cup (IF l >= 8 THEN {SLAVE_IRQ} ELSE {})

\* A device raises its line (edge triggered: a repeat before the CPU takes
\* it is one request).  The RTC raises again only once register C is read.
RaisePit ==
    /\ irr' = irr \cup {PIT}
    /\ UNCHANGED <<cpu, eflags_IF, stack, isr, regc, int_has_occurred,
                   active_term, screen, saved, faults>>

RaiseKeyboard ==
    /\ irr' = irr \cup {KEYBOARD}
    /\ UNCHANGED <<cpu, eflags_IF, stack, isr, regc, int_has_occurred,
                   active_term, screen, saved, faults>>

RaiseRtc ==
    /\ ~regc
    /\ regc' = TRUE
    /\ irr' = irr \cup {RTC}
    /\ UNCHANGED <<cpu, eflags_IF, stack, isr, int_has_occurred,
                   active_term, screen, saved, faults>>

(***************************************************************************)
(* Cursor swaps: keyboard_put, clear_keyboard and irq_timer each save      *)
(* screen_x/y into saved[from] and load saved[to] when the two differ.     *)
(***************************************************************************)
Swap(c, from, to) ==
    IF from = to THEN c
    ELSE [screen |-> c.saved[to], saved |-> [c.saved EXCEPT ![from] = c.screen]]

Cursor == [screen |-> screen, saved |-> saved]

\* The leaf process after p in irq_timer's scan of task ids (the shells of
\* terminals 0, 1, 2 have task ids 1, 2, 3).
NextLeaf(p) == (p + 1) % NUM_TERMS

(***************************************************************************)
(* irq_timer: the EOI first, then the switch to the next leaf; the old     *)
(* process keeps its PIT frame, the new one irets out of its own.          *)
(***************************************************************************)
\* Seeded fault: the frames of the old and the new process exchanged.
TimerSwapped ==
    /\ Deliverable(PIT)
    /\ LET new == NextLeaf(cpu) IN
       /\ irr' = irr \ {PIT}
       /\ isr' = (isr \cup Accepted(PIT)) \ EoiLines(PIT)
       /\ cpu' = new
       /\ stack' = [stack EXCEPT ![new] = Append(@, "pit"),
                                 ![cpu] = SubSeq(@, 1, Len(@) - 1)]
       /\ screen' = Swap(Cursor, cpu, new).screen
       /\ saved' = Swap(Cursor, cpu, new).saved
       /\ eflags_IF' = TRUE
       /\ UNCHANGED <<regc, int_has_occurred, active_term, faults>>

Timer ==
    /\ Deliverable(PIT)
    /\ LET new == NextLeaf(cpu) IN
       /\ irr' = irr \ {PIT}
       /\ isr' = (isr \cup Accepted(PIT)) \ EoiLines(PIT)
       /\ cpu' = new
       /\ stack' = [stack EXCEPT ![cpu] = Append(@, "pit"),
                                 ![new] = SubSeq(@, 1, Len(@) - 1)]
       /\ screen' = Swap(Cursor, cpu, new).screen
       /\ saved' = Swap(Cursor, cpu, new).saved
       /\ eflags_IF' = TRUE
       /\ UNCHANGED <<regc, int_has_occurred, active_term, faults>>

(***************************************************************************)
(* rtc_handler: with IF clear it reads register C and clears every         *)
(* terminal's flag, then sets IF (line 71) before its EOI (line 72).       *)
(***************************************************************************)
\* Seeded fault: the EOI sent on entry, before the handler's work.
RtcInterruptEarlyEoi ==
    /\ Deliverable(RTC)
    /\ irr' = irr \ {RTC}
    /\ isr' = isr
    /\ regc' = FALSE
    /\ int_has_occurred' = [t \in Terms |-> 0]
    /\ stack' = Push(cpu, "rtc_eoi")
    /\ eflags_IF' = TRUE
    /\ UNCHANGED <<cpu, active_term, screen, saved, faults>>

RtcInterrupt ==
    /\ Deliverable(RTC)
    /\ irr' = irr \ {RTC}
    /\ isr' = isr \cup Accepted(RTC)
    /\ regc' = FALSE
    /\ int_has_occurred' = [t \in Terms |-> 0]
    /\ stack' = Push(cpu, "rtc_eoi")
    /\ eflags_IF' = TRUE
    /\ UNCHANGED <<cpu, active_term, screen, saved, faults>>

RtcEoi ==
    /\ Top(cpu) = "rtc_eoi"
    /\ isr' = isr \ EoiLines(RTC)
    /\ stack' = Pop(cpu)
    /\ eflags_IF' = TRUE
    /\ UNCHANGED <<cpu, irr, regc, int_has_occurred, active_term, screen, saved, faults>>
(***************************************************************************)
(* keyboard_handler.  Alt+Fn runs term_switch and an echoed key runs       *)
(* keyboard_put with IF clear, then the EOI.  Ctrl+L runs clear_keyboard,  *)
(* which ends with sti (keyboard.c:440): keyboard_put and the EOI then run *)
(* with IF set, in three steps the PIT can fall between.                   *)
(***************************************************************************)
\* clear_keyboard's cursor swap to the visible terminal and back (it redraws
\* with screen_y reset in between); keyboard_put with IF clear does the same.
ClearKeyboard == Swap(Swap(Cursor, cpu, active_term), active_term, cpu)
KeyboardPut == Swap(Swap(Cursor, cpu, active_term), active_term, cpu)

KeyboardInterrupt(key) ==
    /\ Deliverable(KEYBOARD)
    /\ irr' = irr \ {KEYBOARD}
    /\ CASE key[1] = "ctrl_l" ->
              /\ screen' = ClearKeyboard.screen
              /\ saved' = ClearKeyboard.saved
              /\ isr' = isr \cup Accepted(KEYBOARD)
              /\ stack' = Push(cpu, "kbd_put")
              /\ eflags_IF' = TRUE
              /\ UNCHANGED active_term
         [] key[1] = "char" ->
              /\ screen' = KeyboardPut.screen
              /\ saved' = KeyboardPut.saved
              /\ UNCHANGED <<isr, stack, eflags_IF, active_term>>
         [] OTHER ->
              \* term_switch: the shells already run, so neither its lazy
              \* fork nor its all-slots-busy refusal applies.
              /\ active_term' = key[2]
              /\ UNCHANGED <<isr, stack, eflags_IF, screen, saved>>
    /\ UNCHANGED <<cpu, regc, int_has_occurred, faults>>

\* keyboard_put up to its echo: the first cursor swap and the video writes.
KbdPut ==
    /\ Top(cpu) = "kbd_put"
    /\ screen' = Swap(Cursor, cpu, active_term).screen
    /\ saved' = Swap(Cursor, cpu, active_term).saved
    /\ stack' = SetTop(cpu, "kbd_swap_back")
    /\ UNCHANGED <<cpu, eflags_IF, irr, isr, regc, int_has_occurred, active_term,
                   faults>>

\* keyboard_put's second swap, back to the interrupted process's cursor.
KbdSwapBack ==
    /\ Top(cpu) = "kbd_swap_back"
    /\ screen' = Swap(Cursor, active_term, cpu).screen
    /\ saved' = Swap(Cursor, active_term, cpu).saved
    /\ stack' = SetTop(cpu, "kbd_eoi")
    /\ UNCHANGED <<cpu, eflags_IF, irr, isr, regc, int_has_occurred, active_term,
                   faults>>

\* send_eoi(LOC_OF_KEYBOARD) and the iret.
KbdEoi ==
    /\ Top(cpu) = "kbd_eoi"
    /\ isr' = isr \ EoiLines(KEYBOARD)
    /\ stack' = Pop(cpu)
    /\ eflags_IF' = TRUE
    /\ UNCHANGED <<cpu, irr, regc, int_has_occurred, active_term, screen, saved, faults>>

(***************************************************************************)
(* rtc_read, entered from user mode through the system-call gate: sti,     *)
(* set the terminal's flag, spin until an RTC interrupt clears it.         *)
(***************************************************************************)
RtcReadCall ==
    /\ stack[cpu] = <<"user">>
    /\ stack' = [stack EXCEPT ![cpu] = <<"rtc_sti">>]
    /\ eflags_IF' = FALSE
    /\ UNCHANGED <<cpu, irr, isr, regc, int_has_occurred, active_term, screen, saved, faults>>

RtcSti ==
    /\ stack[cpu] = <<"rtc_sti">>
    /\ stack' = [stack EXCEPT ![cpu] = <<"rtc_arm">>]
    /\ eflags_IF' = TRUE
    /\ UNCHANGED <<cpu, irr, isr, regc, int_has_occurred, active_term, screen, saved, faults>>

RtcArm ==
    /\ stack[cpu] = <<"rtc_arm">>
    /\ int_has_occurred' = [int_has_occurred EXCEPT ![cpu] = 1]
    /\ stack' = [stack EXCEPT ![cpu] = <<"rtc_spin">>]
    /\ UNCHANGED <<cpu, eflags_IF, irr, isr, regc, active_term, screen, saved, faults>>

\* Seeded fault: the spin left without testing the flag.
RtcReturnUnchecked ==
    /\ stack[cpu] = <<"rtc_spin">>
    /\ stack' = [stack EXCEPT ![cpu] = <<"user">>]
    /\ UNCHANGED <<cpu, eflags_IF, irr, isr, regc, int_has_occurred, active_term,
                   screen, saved, faults>>

\* The spin ends once the flag is clear; rtc_read returns 0 to user mode.
RtcReturn ==
    /\ stack[cpu] = <<"rtc_spin">>
    /\ int_has_occurred[cpu] = 0
    /\ stack' = [stack EXCEPT ![cpu] = <<"user">>]
    /\ UNCHANGED <<cpu, eflags_IF, irr, isr, regc, int_has_occurred, active_term,
                   screen, saved, faults>>

(***************************************************************************)
(* Exceptions (exceptions.c).  Every handler is entered through a trap     *)
(* gate, executes cli, clears the screen, prints and calls sys_halt(0),    *)
(* which never returns to it.  sys_halt of a program started by its shell  *)
(* frees it and jumps to halt_return on the shell's saved stack, where     *)
(* sys_execute returns to user mode.  Whatever the running process had on  *)
(* its kernel stack, handler frames included, is abandoned: no send_eoi of *)
(* theirs is ever sent.  With no fairness, a fault may or may not come.    *)
(***************************************************************************)

\* sys_halt of the running program: its shell, now the terminal's leaf,
\* irets to user mode out of sys_execute.
HaltToShell == [stack EXCEPT ![cpu] = <<"user">>]

\* A fault of the program's own code in user mode (divide error, page fault,
\* general protection, ...).
UserException ==
    /\ faults < MAX_FAULTS
    /\ stack[cpu] = <<"user">>
    /\ stack' = HaltToShell
    /\ faults' = faults + 1
    /\ UNCHANGED <<cpu, eflags_IF, irr, isr, regc, int_has_occurred, active_term,
                   screen, saved>>

\* An NMI or a machine check, which come whatever the CPU executes, IF and
\* handler frames included.
AsyncException ==
    /\ faults < MAX_FAULTS
    /\ stack' = HaltToShell
    /\ eflags_IF' = TRUE
    /\ faults' = faults + 1
    /\ UNCHANGED <<cpu, irr, isr, regc, int_has_occurred, active_term,
                   screen, saved>>

Next ==
    \/ RaisePit \/ RaiseKeyboard \/ RaiseRtc
    \/ Timer
    \/ RtcInterrupt \/ RtcEoi
    \/ \E key \in Keys : KeyboardInterrupt(key)
    \/ KbdPut \/ KbdSwapBack \/ KbdEoi
    \/ RtcReadCall \/ RtcSti \/ RtcArm \/ RtcReturn
    \/ UserException \/ AsyncException

(***************************************************************************)
(* Fairness.  The PIT and the RTC raise their lines periodically; the PIC  *)
(* delivers a request whenever IF is set and nothing blocks it, and the    *)
(* CPU executes each next step of the process it runs; both hold only     *)
(* intermittently (IF and the CPU change hands), hence strong fairness.    *)
(* Typing, the user's calls of rtc_read and exceptions get no fairness.    *)
(***************************************************************************)

\* The kernel step process p takes at stack depth d: the code of its base
\* (d = 1) or of the handler that interrupted the level below.
Resume(p, d) ==
    /\ cpu = p
    /\ Len(stack[p]) = d
    /\ \/ RtcEoi \/ KbdPut \/ KbdSwapBack \/ KbdEoi
       \/ RtcSti \/ RtcArm \/ RtcReturn

Fairness ==
    /\ WF_vars(RaisePit) /\ WF_vars(RaiseRtc)
    /\ SF_vars(Timer) /\ SF_vars(RtcInterrupt)
    /\ \A p \in Terms : \A d \in 1 .. 3 : SF_vars(Resume(p, d))

Spec == Init /\ [][Next]_vars /\ Fairness

-----------------------------------------------------------------------------

TypeOK ==
    /\ cpu \in Terms
    /\ eflags_IF \in BOOLEAN
    /\ \A p \in Terms :
         /\ stack[p] \in Seq(Bases \cup Handlers)
         /\ Len(stack[p]) >= 1 /\ Base(p) \in Bases
         /\ \A i \in 2 .. Len(stack[p]) : stack[p][i] \in Handlers
    /\ irr \subseteq Lines /\ isr \subseteq Lines
    /\ regc \in BOOLEAN
    /\ int_has_occurred \in [Terms -> {0, 1}]
    /\ active_term \in Terms
    /\ screen \in Terms /\ saved \in [Terms -> Terms]
    /\ faults \in 0 .. MAX_FAULTS

\* The frames, over every kernel stack, of the handler of line l.
FramesOf(l) ==
    UNION {{<<p, i>> : i \in {j \in 2 .. Len(stack[p]) : LineOf[stack[p][j]] = l}}
           : p \in Terms}

\* A keyboard or RTC handler is never entered again before its EOI, even
\* while the process it interrupted is switched out by the PIT inside the
\* handler's IF-set window (rtc.c:71, keyboard.c:440): at most one frame of
\* each handler exists over all stacks, and its line is in service.
HandlersExclusive ==
    \A l \in {KEYBOARD, RTC} :
        /\ Cardinality(FramesOf(l)) <= 1
        /\ FramesOf(l) # {} => l \in isr

\* No terminal's cursor is lost: each is held by screen_x/y or by some
\* saved_x/y entry, across keyboard_put's swaps and irq_timer's.
CursorsPreserved ==
    \A t \in Terms : screen = t \/ \E u \in Terms : saved[u] = t

\* A device line in service whose handler frame is gone: an exception
\* struck inside the handler, which will never send its EOI.
HandlerLost ==
    \E l \in {KEYBOARD, RTC} : l \in isr /\ FramesOf(l) = {}

\* A process blocked in rtc_read returns to user mode (or is halted there),
\* unless an exception inside a keyboard or RTC handler has left that line
\* in service: the slave cascade, hence the RTC, is then blocked for good.
RtcReadReturns ==
    \A t \in Terms : Base(t) = "rtc_spin" ~> (Base(t) = "user" \/ HandlerLost)

\* rtc_read implements RtcWait: a reader waits from the moment its flag is
\* set, is released by the RTC interrupts that clear the flag, and stops
\* waiting otherwise only when an exception halts its process.
Wait == INSTANCE RtcWait WITH
    Terms <- Terms,
    waiting <- [t \in Terms |-> Base(t) = "rtc_spin"],
    ticked <- [t \in Terms |-> Base(t) = "rtc_spin" /\ int_has_occurred[t] = 0],
    halts <- faults

\* The RTC wait as the RtcWait specification describes it.
RtcWaitRefined == Wait!Spec
=============================================================================
