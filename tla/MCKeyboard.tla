----------------------------- MODULE MCKeyboard -----------------------------
(* The line discipline with two terminals, three-cell command lines, one    *)
(* character, and key_read called with a buffer smaller than the line and  *)
(* with one larger than BUFFER_SIZE.  The screen is three columns by two   *)
(* rows, so a line plus a prompt wraps and a newline reaches the last row; *)
(* term_write is called with a character, a newline and both.             *)
EXTENDS Keyboard

CONSTANTS a

MCChars == {a}
MCNBytes == {2, 4}
MCWrites == {<<a>>, <<"NL">>, <<a, "NL">>}

\* Rows past the screen are counted up to two below it.
MAX_ROW == NUM_ROWS + 1
CursorBound == \A t \in Terms : screen_y[t] <= MAX_ROW

\* got, src and the contents of line_in are written but never read by an
\* action, nor are the cursors read by any action but their own updates,
\* so states that differ only in them have the same line-discipline futures.
LineView == <<command_line, cl_index, ENTER_FLAG, active_term, CTL_FLAG, ALT_FLAG,
              held, reader>>
=============================================================================
