------------------------------- MODULE RtcWait -------------------------------
(***************************************************************************)
(* What rtc_read promises (rtc.c, "waiting until an interrupt has occurred *)
(* and then returning"): a read of the RTC on a terminal waits, and        *)
(* returns only once an RTC interrupt has come after it began to wait.     *)
(* One reader per terminal: the leaf process of the terminal.              *)
(***************************************************************************)
EXTENDS Naturals

CONSTANTS Terms

VARIABLES
    waiting,   \* the terminal's reader is blocked in rtc_read
    ticked,    \* an RTC interrupt has come since it began to wait
    halts      \* processes halted by an exception

vars == <<waiting, ticked, halts>>

Init ==
    /\ waiting = [t \in Terms |-> FALSE]
    /\ ticked = [t \in Terms |-> FALSE]
    /\ halts = 0

\* A reader begins to wait.
Wait(t) ==
    /\ ~waiting[t]
    /\ waiting' = [waiting EXCEPT ![t] = TRUE]
    /\ ticked' = [ticked EXCEPT ![t] = FALSE]
    /\ UNCHANGED halts

\* An RTC interrupt releases every reader then waiting.
Tick ==
    /\ ticked' = [t \in Terms |-> ticked[t] \/ waiting[t]]
    /\ UNCHANGED <<waiting, halts>>

\* A released reader returns.
Return(t) ==
    /\ waiting[t]
    /\ ticked[t]
    /\ waiting' = [waiting EXCEPT ![t] = FALSE]
    /\ ticked' = [ticked EXCEPT ![t] = FALSE]
    /\ UNCHANGED halts

\* The terminal's process is halted by an exception; if it was reading, the
\* read ends without returning.
Halt(t) ==
    /\ halts' = halts + 1
    /\ waiting' = [waiting EXCEPT ![t] = FALSE]
    /\ ticked' = [ticked EXCEPT ![t] = FALSE]

Next == Tick \/ \E t \in Terms : Wait(t) \/ Return(t) \/ Halt(t)

Spec == Init /\ [][Next]_vars

=============================================================================
