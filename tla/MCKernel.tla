------------------------------ MODULE MCKernel ------------------------------
(* Kernel at the build's sizes: MAX_PROCESSES 7 (six user slots) and three *)
(* terminals.                                                              *)
EXTENDS Kernel

MCMaxProcesses == 7
MCFewProcesses == 5
MCNumTerms == 3

\* The cursor tags, the video mappings and the echo auxiliary are written but
\* never read by any guard or by an update of the other variables, so states
\* that differ only in them have the same futures of the control variables.
\* umap and vidmapped (vidmap's page) are omitted as well.
\* Invariants over the view's variables are checked exhaustively under it;
\* TypeOK's conjuncts on the six omitted variables only on one state per view.
ControlView == <<tasks_bitmap, pcb, cur, run, FIRST_FLAG, active_term, TERM_FLAG,
                 cr3, tss_esp0, resumable>>

\* The control view and the vidmap pages of the programs that asked for
\* them.  umap and vidmapped are read by no guard and by no update of the
\* control variables, and the page of a slot outside vidmapped is
\* overwritten by the Vidmap step that puts it in: states equal in this view
\* agree on VidmapIsolation now and in every future.
VidmapView == <<ControlView, [s \in vidmapped |-> umap[s]]>>
=============================================================================
