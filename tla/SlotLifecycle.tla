--------------------------- MODULE SlotLifecycle ---------------------------
(***************************************************************************)
(* What the process table promises of each slot (the per-slot state       *)
(* machine of the scheduler's specification):                              *)
(*                                                                         *)
(*   Free -> Bootstrapped (built by fork, never run) -> Foreground          *)
(*        -> Parked (has an active child) -> Foreground -> ... -> Free      *)
(*                                                                         *)
(* A Foreground process with a parent halts back to it; one without a     *)
(* parent (a terminal's root shell) halts by freeing its slot and forking *)
(* a shell.  halt is one step with interrupts masked, so its Halting      *)
(* state is passed through within the step: the slot is Free as soon as   *)
(* its occupancy bit is cleared.  The abstraction says nothing about      *)
(* terminals, addresses or which slot the scheduler picks.                *)
(***************************************************************************)
CONSTANTS UserSlots, NULL

VARIABLES
    st,       \* the state of each slot
    parent    \* the slot a process was executed from, NULL for a shell

vars == <<st, parent>>

States == {"Free", "Bootstrapped", "Foreground", "Parked"}

\* After boot: the first shell forked into the first slot.
Init ==
    /\ st = [s \in UserSlots |-> IF s = 1 THEN "Bootstrapped" ELSE "Free"]
    /\ parent = [s \in UserSlots |-> NULL]

\* fork builds a shell in a free slot.
Fork(n) ==
    /\ st[n] = "Free"
    /\ st' = [st EXCEPT ![n] = "Bootstrapped"]
    /\ parent' = [parent EXCEPT ![n] = NULL]

\* The scheduler resumes a process that may run.
Schedule(n) ==
    /\ st[n] \in {"Bootstrapped", "Foreground"}
    /\ st' = [st EXCEPT ![n] = "Foreground"]
    /\ UNCHANGED parent

\* A foreground process executes a program into a free slot and is parked
\* until it halts.
Execute(p, c) ==
    /\ st[p] = "Foreground"
    /\ st[c] = "Free"
    /\ st' = [st EXCEPT ![p] = "Parked", ![c] = "Foreground"]
    /\ parent' = [parent EXCEPT ![c] = p]

\* A foreground process with a parent halts; the parent runs again.
Exit(c) ==
    /\ st[c] = "Foreground"
    /\ parent[c] # NULL
    /\ st[parent[c]] = "Parked"
    /\ st' = [st EXCEPT ![c] = "Free", ![parent[c]] = "Foreground"]
    /\ parent' = [parent EXCEPT ![c] = NULL]

\* A root shell halts and a shell is forked into a free slot, or into the
\* one just freed.
Relaunch(c, n) ==
    /\ st[c] = "Foreground"
    /\ parent[c] = NULL
    /\ n = c \/ st[n] = "Free"
    /\ st' = [st EXCEPT ![c] = "Free", ![n] = "Bootstrapped"]
    /\ UNCHANGED parent

Next ==
    \E s, t \in UserSlots :
        \/ Fork(s)
        \/ Schedule(s)
        \/ Execute(s, t)
        \/ Exit(s)
        \/ Relaunch(s, t)

Spec == Init /\ [][Next]_vars
=============================================================================
