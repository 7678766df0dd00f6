---------------------------- MODULE MCInterrupts ----------------------------
(* Interrupts with two terminals: the fewest where a process runs while  *)
(* another terminal is visible, which is what the cursor swaps are for.   *)
EXTENDS Interrupts

MCNumTerms == 2

\* One exception per behaviour: enough to strike inside each handler, and
\* to halt a reader, in some behaviour.
MCMaxFaults == 1

\* State hashing without the cursors: no guard, and no update of any other
\* variable, reads screen or saved, so states equal in the view have the
\* same futures in it.  The runs whose properties are about the cursors
\* use no view.
ControlView ==
    <<cpu, eflags_IF, stack, irr, isr, regc, int_has_occurred, active_term,
      faults>>
=============================================================================
