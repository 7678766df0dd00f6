------------------------------ MODULE Keyboard ------------------------------
(***************************************************************************)
(* The line discipline of keyboard.c: the per-terminal command_line        *)
(* buffers filled by keyboard_handler, the Ctrl and Alt modifier counters, *)
(* Alt+Fn terminal switching, and key_read, which a terminal's foreground  *)
(* process calls to block until Enter.                                     *)
(*                                                                         *)
(* keyboard_handler is reached through an interrupt gate and runs with IF  *)
(* clear: one atomic step per scancode.  key_read sets ENTER_FLAG, then    *)
(* executes sti() and busy-waits; the wait ends when the scheduler next    *)
(* runs the reader after an Enter, so it is split into ReadStart and       *)
(* ReadFinish with any number of keyboard interrupts in between.  Each     *)
(* terminal has one reader: only a terminal's leaf process runs (Kernel).  *)
(*                                                                         *)
(* Character maps, Shift and Caps Lock only choose which character is      *)
(* stored; the characters are the model values of Chars.                   *)
(*                                                                         *)
(* Every scancode that gets past the Alt branch and key_valid ends with    *)
(* keyboard_put, which echoes the active line at the active terminal's    *)
(* cursor; term_write moves the cursor of the writer's terminal.  The      *)
(* cursor of each terminal is screen_x/y while one of its processes runs  *)
(* and saved_x/y otherwise; the swaps that keep this so are Kernel's.      *)
(* Only the cursor and the rows addressed are kept, not the video bytes.   *)
(***************************************************************************)
EXTENDS Integers, FiniteSets, Sequences

CONSTANTS NUM_TERMS,     \* keyboard.h
          BUFFER_SIZE,   \* keyboard.h: length of each command_line
          Chars,         \* printable characters a key can store
          NBytes,        \* nbytes arguments key_read is called with
          NUM_COLS,      \* terminal.h (SCREEN_WIDTH of keyboard.h is the same)
          NUM_ROWS,      \* terminal.h
          Writes,        \* buffers term_write is called with
          NONE           \* a model value: no line captured, no read returned yet

ASSUME NUM_TERMS \in 1..3 /\ BUFFER_SIZE \in 2..128 /\ NBytes \subseteq Int
ASSUME NUM_COLS \in 1..80 /\ NUM_ROWS \in 1..25 /\ Writes \subseteq Seq(Chars \cup {"NL"})

Terms == 0..(NUM_TERMS - 1)
Idx   == 0..(BUFFER_SIZE - 1)
NUL   == "NUL"               \* '\0'
NL    == "NL"                \* '\n'
Cell  == Chars \cup {NUL, NL}

\* The physical modifier keys.  A held key repeats its make code (typematic
\* repeat); its one break code comes when it is released.
ModKeys == {"ctrl", "alt"}

EmptyLine == [i \in Idx |-> NUL]

VARIABLES
    command_line,  \* keyboard.c: command_line[NUM_TERMS][BUFFER_SIZE]
    cl_index,      \* keyboard.c: next free position per terminal
    ENTER_FLAG,    \* keyboard.c: 1 while a key_read of that terminal waits
    active_term,   \* keyboard.c: the visible terminal
    CTL_FLAG,      \* keyboard.c
    ALT_FLAG,      \* keyboard.c
    held,          \* environment: modifier keys the user holds down
    reader,        \* per terminal: 0 = no key_read pending, else its nbytes
    line_in,       \* auxiliary: the line as it stood when Enter released the reader
    got,           \* auxiliary: what the last key_read of the terminal returned
    src,           \* auxiliary: whose command_line that key_read copied
    screen_x,      \* lib.c screen_x / scheduling.c saved_x, per terminal
    screen_y,      \* lib.c screen_y / scheduling.c saved_y, per terminal
    echo_row       \* auxiliary: the lowest row the last keyboard_put addressed

vars == <<command_line, cl_index, ENTER_FLAG, active_term, CTL_FLAG, ALT_FLAG,
          held, reader, line_in, got, src, screen_x, screen_y, echo_row>>
cursor == <<screen_x, screen_y, echo_row>>

-----------------------------------------------------------------------------
(* key_read's copy out of a line L for nbytes n: scan while i < BUFFER_SIZE *)
(* and i < n - 1, counting the bytes and stopping after a '\n'; copy that   *)
(* many bytes, and write '\n' at buf[n - 1] when the scan ran to n - 1.     *)
(* The result is the bytes written, as a function from their offsets, and   *)
(* the count returned.                                                      *)
ScanLimit(n) == IF n - 1 < BUFFER_SIZE THEN n - 1 ELSE BUFFER_SIZE

Copy(L, n) ==
    LET lim   == ScanLimit(n)
        stops == {i \in Idx : i < lim /\ L[i] = NL}
        end   == IF stops # {} THEN CHOOSE i \in stops : \A j \in stops : i <= j
                 ELSE IF lim < 0 THEN 0 ELSE lim
        count == IF stops # {} THEN end + 1 ELSE end
        bytes == [k \in 0..(count - 1) |-> L[k]]
    IN  [count |-> count,
         bytes |-> IF end = n - 1 THEN [k \in 0..(n - 1) |-> IF k = n - 1 THEN NL ELSE bytes[k]]
                                   ELSE bytes]

\* The default case of keyboard_handler stores a character only when neither
\* modifier counter is set and one cell is left for the newline.
\* Seeded fault: the last cell is filled too, leaving no room for '\n'.
StoresToLastCell(t) == ALT_FLAG = 0 /\ CTL_FLAG = 0 /\ cl_index[t] < BUFFER_SIZE
Stores(t) == ALT_FLAG = 0 /\ CTL_FLAG = 0 /\ cl_index[t] < BUFFER_SIZE - 1

(* keyboard_put's loop over line L from cell i at column x, j rows below   *)
(* the cursor row y; top is the lowest row addressed so far.  A column    *)
(* past the last wraps to the next row.  A '\n' is written at row y + j   *)
(* and ends the loop with the cursor on the row after it; any other cell  *)
(* first scrolls if row y + j is below the screen, then is written there; *)
(* a '\0' ends the loop with the cursor where it was.                     *)
RECURSIVE PutFrom(_, _, _, _, _, _)
PutFrom(L, i, x, j, y, top) ==
    LET jj  == IF x > NUM_COLS - 1 THEN j + 1 ELSE j
        xx  == IF x > NUM_COLS - 1 THEN 0 ELSE x
        yy  == IF y + jj > NUM_ROWS - 1 THEN NUM_ROWS - jj - 1 ELSE y
        low(r) == IF r > top THEN r ELSE top
    IN  CASE i >= BUFFER_SIZE -> [y |-> y, nl |-> FALSE, row |-> top]
          [] L[i] = NL        -> [y |-> y + jj + 1, nl |-> TRUE, row |-> low(y + jj)]
          [] L[i] = NUL       -> [y |-> yy, nl |-> FALSE, row |-> low(yy + jj)]
          [] OTHER            -> PutFrom(L, i + 1, xx + 1, jj, yy, low(yy + jj))

(* keyboard_put: echo the active terminal's line cl[active_term] at that  *)
(* terminal's cursor, whose row is y; screen_x becomes 0 only when a '\n' was echoed.      *)
Echo(cl, y) ==
    LET a == active_term
        r == PutFrom(cl[a], 0, screen_x[a], 0, y, 0)
    IN  /\ screen_y' = [screen_y EXCEPT ![a] = r.y]
        /\ screen_x' = [screen_x EXCEPT ![a] = IF r.nl THEN 0 ELSE @]
        /\ echo_row' = r.row

(* term_write's loop over buffer w from its i-th byte: a '\n' or a column *)
(* past the last starts a new row, a row below the screen scrolls back to *)
(* the last row at column 0, and every byte but '\n' is written and moves *)
(* the column on.                                                          *)
RECURSIVE WriteFrom(_, _, _, _)
WriteFrom(w, i, x, y) ==
    IF i > Len(w) THEN [x |-> x, y |-> y]
    ELSE LET brk == w[i] = NL \/ x > NUM_COLS - 1
             x1  == IF brk THEN 0 ELSE x
             y1  == IF brk THEN y + 1 ELSE y
             x2  == IF y1 > NUM_ROWS - 1 THEN 0 ELSE x1
             y2  == IF y1 > NUM_ROWS - 1 THEN NUM_ROWS - 1 ELSE y1
         IN  WriteFrom(w, i + 1, IF w[i] # NL THEN x2 + 1 ELSE x2, y2)

-----------------------------------------------------------------------------
\* keyboard_init, run at boot.
Init ==
    /\ command_line = [t \in Terms |-> EmptyLine]
    /\ cl_index = [t \in Terms |-> 0]
    /\ ENTER_FLAG = [t \in Terms |-> 0]
    /\ active_term = 0
    /\ CTL_FLAG = 0
    /\ ALT_FLAG = 0
    /\ held = {}
    /\ reader = [t \in Terms |-> 0]
    /\ line_in = [t \in Terms |-> NONE]
    /\ got = [t \in Terms |-> NONE]
    /\ src = [t \in Terms |-> NONE]
    /\ screen_x = [t \in Terms |-> 0]
    /\ screen_y = [t \in Terms |-> 0]
    /\ echo_row = 0

\* The saturating counters of the CTL_DOWN/ALT_DOWN and CTL_UP/ALT_UP cases.
Up(x)   == IF x + 1 > 2 THEN 2 ELSE x + 1
Down(x) == IF x - 1 < 0 THEN 0 ELSE x - 1

(* Modifier make codes: the counter goes up, saturating at 2.  A held key  *)
(* repeats its make code.  Modifier codes are excluded from the Alt branch,*)
(* so they are counted whatever ALT_FLAG is.                               *)
CtlDown ==
    /\ CTL_FLAG' = Up(CTL_FLAG)
    /\ held' = held \cup {"ctrl"}
    /\ UNCHANGED <<command_line, cl_index, ENTER_FLAG, active_term, ALT_FLAG,
                   reader, line_in, got, src>>
    /\ Echo(command_line, screen_y[active_term])

AltDown ==
    /\ ALT_FLAG' = Up(ALT_FLAG)
    /\ held' = held \cup {"alt"}
    /\ UNCHANGED <<command_line, cl_index, ENTER_FLAG, active_term, CTL_FLAG,
                   reader, line_in, got, src>>
    /\ Echo(command_line, screen_y[active_term])

(* Modifier break codes, one per release: the counter goes down, saturating*)
(* at 0.                                                                   *)
CtlUp ==
    /\ "ctrl" \in held
    /\ CTL_FLAG' = Down(CTL_FLAG)
    /\ held' = held \ {"ctrl"}
    /\ UNCHANGED <<command_line, cl_index, ENTER_FLAG, active_term, ALT_FLAG,
                   reader, line_in, got, src>>
    /\ Echo(command_line, screen_y[active_term])

AltUp ==
    /\ "alt" \in held
    /\ ALT_FLAG' = Down(ALT_FLAG)
    /\ held' = held \ {"alt"}
    /\ UNCHANGED <<command_line, cl_index, ENTER_FLAG, active_term, CTL_FLAG,
                   reader, line_in, got, src>>
    /\ Echo(command_line, screen_y[active_term])

(* A character key: with ALT_FLAG set it is swallowed by the Alt branch,   *)
(* with CTL_FLAG set it is not stored (Ctrl+L is ClearScreen),            *)
(* otherwise it is stored at cl_index of the active terminal if there is   *)
(* room.  Past the Alt branch keyboard_put then echoes the line.         *)
TypeChar(c) ==
    /\ IF Stores(active_term)
         THEN /\ command_line' = [command_line EXCEPT ![active_term][cl_index[active_term]] = c]
              /\ cl_index' = [cl_index EXCEPT ![active_term] = @ + 1]
         ELSE UNCHANGED <<command_line, cl_index>>
    /\ IF ALT_FLAG # 0 THEN UNCHANGED cursor
                       ELSE Echo(command_line', screen_y[active_term])
    /\ UNCHANGED <<ENTER_FLAG, active_term, CTL_FLAG, ALT_FLAG, held, reader,
                   line_in, got, src>>

(* Ctrl+L (L with CTL_FLAG set, outside the Alt branch): clear_keyboard     *)
(* scrolls the active screen up by its cursor row and sets the row to 0,   *)
(* leaving the column; then keyboard_put echoes the line from there.       *)
ClearScreen ==
    /\ CTL_FLAG # 0
    /\ ALT_FLAG = 0
    /\ Echo(command_line, 0)
    /\ UNCHANGED <<command_line, cl_index, ENTER_FLAG, active_term, CTL_FLAG,
                   ALT_FLAG, held, reader, line_in, got, src>>

(* BACKSPACE (outside the Alt branch): step back one cell and clear it; at *)
(* cl_index 0 the case breaks out with the line unchanged.  Either way     *)
(* keyboard_put echoes the line.                                           *)
Backspace ==
    /\ ALT_FLAG = 0
    /\ IF cl_index[active_term] = 0
         THEN UNCHANGED <<command_line, cl_index>>
         ELSE /\ cl_index' = [cl_index EXCEPT ![active_term] = @ - 1]
              /\ command_line' = [command_line EXCEPT ![active_term][cl_index[active_term] - 1] = NUL]
    /\ Echo(command_line', screen_y[active_term])
    /\ UNCHANGED <<ENTER_FLAG, active_term, CTL_FLAG, ALT_FLAG, held, reader,
                   line_in, got, src>>

(* ENTER (outside the Alt branch): put '\n' at cl_index (at the last cell  *)
(* if the index ran past it).  If no key_read of the terminal waits, clear *)
(* the line; either way clear ENTER_FLAG, which releases a waiting reader. *)
(* cl_index is not advanced past the newline.                              *)
Enter ==
    /\ ALT_FLAG = 0
    /\ LET a    == active_term
           pos  == IF cl_index[a] >= BUFFER_SIZE THEN BUFFER_SIZE - 1 ELSE cl_index[a]
           line == [command_line[a] EXCEPT ![pos] = NL]
       IN  /\ IF ENTER_FLAG[a] = 0
                THEN /\ command_line' = [command_line EXCEPT ![a] = EmptyLine]
                     /\ cl_index' = [cl_index EXCEPT ![a] = 0]
                     /\ UNCHANGED line_in
                ELSE /\ command_line' = [command_line EXCEPT ![a] = line]
                     /\ UNCHANGED cl_index
                     /\ line_in' = [line_in EXCEPT ![a] = line]
           /\ ENTER_FLAG' = [ENTER_FLAG EXCEPT ![a] = 0]
           /\ Echo(command_line', screen_y[a])
    /\ UNCHANGED <<active_term, CTL_FLAG, ALT_FLAG, held, reader, got, src>>

(* Fn with ALT_FLAG set: term_switch(n), which changes active_term (its     *)
(* refusal when no slot is free leaves active_term alone: a stutter here). *)
AltF(t) ==
    /\ ALT_FLAG # 0
    /\ active_term' = t
    /\ UNCHANGED <<command_line, cl_index, ENTER_FLAG, CTL_FLAG, ALT_FLAG, held,
                   reader, line_in, got, src>>
    /\ UNCHANGED cursor

(* key_read up to its busy-wait: a non-NULL buf; ENTER_FLAG[pcb->term] = 1. *)
ReadStart(t, n) ==
    /\ reader[t] = 0
    /\ ENTER_FLAG' = [ENTER_FLAG EXCEPT ![t] = 1]
    /\ reader' = [reader EXCEPT ![t] = n]
    /\ line_in' = [line_in EXCEPT ![t] = NONE]
    /\ UNCHANGED <<command_line, cl_index, active_term, CTL_FLAG, ALT_FLAG, held, got, src>>
    /\ UNCHANGED cursor

(* key_read after the wait, when the scheduler runs the reader with        *)
(* ENTER_FLAG[pcb->term] clear: copy out of command_line[active_term],     *)
(* then clear that line and its index.                                     *)
ReadFinish(t) ==
    /\ reader[t] # 0
    /\ ENTER_FLAG[t] = 0
    /\ got' = [got EXCEPT ![t] = [n |-> reader[t], res |-> Copy(command_line[active_term], reader[t])]]
    /\ src' = [src EXCEPT ![t] = active_term]
    /\ command_line' = [command_line EXCEPT ![active_term] = EmptyLine]
    /\ cl_index' = [cl_index EXCEPT ![active_term] = 0]
    /\ reader' = [reader EXCEPT ![t] = 0]
    /\ UNCHANGED <<ENTER_FLAG, active_term, CTL_FLAG, ALT_FLAG, held, line_in>>
    /\ UNCHANGED cursor

(* term_write by the foreground process of terminal t, which is not       *)
(* blocked in key_read: the cursor of t moves as the loop leaves it.       *)
(* (A NULL buf or negative nbytes returns -1 and changes nothing.)         *)
TermWrite(t, w) ==
    /\ reader[t] = 0
    /\ LET r == WriteFrom(w, 1, screen_x[t], screen_y[t])
       IN  /\ screen_x' = [screen_x EXCEPT ![t] = r.x]
           /\ screen_y' = [screen_y EXCEPT ![t] = r.y]
    /\ UNCHANGED <<command_line, cl_index, ENTER_FLAG, active_term, CTL_FLAG,
                   ALT_FLAG, held, reader, line_in, got, src, echo_row>>

Next ==
    \/ CtlDown \/ AltDown \/ CtlUp \/ AltUp
    \/ \E c \in Chars : TypeChar(c)
    \/ ClearScreen
    \/ Backspace
    \/ Enter
    \/ \E t \in Terms : AltF(t)
    \/ \E t \in Terms, n \in NBytes : ReadStart(t, n)
    \/ \E t \in Terms : ReadFinish(t)
    \/ \E t \in Terms, w \in Writes : TermWrite(t, w)

Spec == Init /\ [][Next]_vars

-----------------------------------------------------------------------------
TypeOK ==
    /\ command_line \in [Terms -> [Idx -> Cell]]
    /\ cl_index \in [Terms -> Idx]
    /\ ENTER_FLAG \in [Terms -> {0, 1}]
    /\ active_term \in Terms
    /\ CTL_FLAG \in 0..2 /\ ALT_FLAG \in 0..2
    /\ held \subseteq ModKeys
    /\ reader \in [Terms -> {0} \cup NBytes]
    /\ screen_x \in [Terms -> 0..NUM_COLS]
    /\ \A t \in Terms : screen_y[t] \in Nat

(* key_read returns a line of its caller's terminal: the buffer it copies  *)
(* is command_line[pcb->term], the terminal whose ENTER_FLAG it waited on. *)
ReadFromOwnTerminal ==
    \A t \in Terms : src[t] \in {NONE, t}

(* A key_read that copied its own terminal's buffer returns exactly the    *)
(* line that stood there when Enter released it: keys typed (or a second  *)
(* Enter) before the reader is scheduled do not change the line.           *)
LineDeliveredIntact ==
    \A t \in Terms :
        reader[t] = 0 /\ src[t] = t => got[t].res = Copy(line_in[t], got[t].n)

(* Once the user has let go of Ctrl and Alt, the modifier counters are     *)
(* back at zero, so typed characters are stored again and are not taken   *)
(* as Alt combinations.                                                    *)
ModifiersReleased ==
    /\ "ctrl" \notin held => CTL_FLAG = 0
    /\ "alt" \notin held => ALT_FLAG = 0

(* keyboard_put only addresses rows of the screen: every row it writes a  *)
(* cell of, NUM_COLS*(screen_y + j) + x, is above NUM_ROWS.  The '\n'      *)
(* branch writes at row screen_y + j before any scroll check and leaves   *)
(* screen_y one past it, and every key that reaches keyboard_put before   *)
(* the reader clears the line echoes the same '\n' again, a row lower.    *)
EchoWithinFrame == echo_row <= NUM_ROWS - 1

=============================================================================
