----------------------------- MODULE FileTable -----------------------------
(***************************************************************************)
(* The file-descriptor table of one process slot (pcb_t.file_array,       *)
(* syscall.c sys_open/sys_close/sys_read/sys_write), the read paths of the *)
(* read-only file system that descriptors dispatch to (file_sys.c          *)
(* read_data, file_read, read_directory) and the RTC rate that rtc_open    *)
(* and rtc_write program (rtc.c).                                          *)
(*                                                                         *)
(* The slot lives through Execute (the PCB is rebuilt) and Halt (every     *)
(* open descriptor goes through sys_close).  A directory image is a        *)
(* sequence of dentry names; the slot after the last dentry of the boot    *)
(* block is the first bytes of inode block 0, which read_dentry_by_index   *)
(* still accepts (Beyond).  Reads of the terminal and the RTC block and    *)
(* belong to the Keyboard module and the interrupt side; they change no    *)
(* state of this table.                                                    *)
(***************************************************************************)
EXTENDS Integers, Sequences, FiniteSets

CONSTANTS
    NUM_FILES,      \* descriptors per PCB (syscall.h NUM_FILES)
    BLOCK_SIZE,     \* bytes per data block, scaled down
    MAX_NAME_SIZE,  \* bytes of a dentry name, scaled down
    UINT32,         \* 2^32, scaled: modulus of an int32 nbytes seen as uint32
    Names,          \* file names (model values)
    EMPTY,          \* the name of an unused dentry
    Dir,            \* the dentries of the boot block, in order
    Beyond,         \* the name read_dentry_by_index sees one past the last dentry
    FileType,       \* Names -> 0 (RTC) | 1 (directory) | 2 (regular)
    Size,           \* Names -> size of the file's inode
    NameLen,        \* Names -> strlen of the name (MAX_NAME_SIZE: unterminated)
    Missing,        \* a name no dentry has
    NBytes,         \* nbytes arguments of read
    Freqs,          \* frequencies passed to rtc_write
    FNAME_SIZE,     \* bytes of sys_execute's file_name buffer, scaled down
    ARG_BYTES,      \* bytes of the argument buffers (types.h), scaled down
    Programs,       \* names of the executable files, as byte sequences
    Commands,       \* command strings sys_execute may be passed
    ArgNBytes,      \* nbytes arguments of getargs
    NONE

FDs == 0 .. NUM_FILES - 1
STDOUT == 2
MIN_FD == 2
MAX_FD == NUM_FILES - 1
NUM_DIR_ENTRIES == Len(Dir) + 1
Ops == {"none", "term", "rtc", "dir", "file"}
ClosedFile == [flags |-> 0, ops |-> "none", inode |-> 0, pos |-> 0]
TermFile == [flags |-> 1, ops |-> "term", inode |-> 0, pos |-> 0]
DEFAULT_FREQ == 2

\* int32 nbytes passed to read_data's uint32 length.
U32(n) == n % UINT32

\* The dentry at an index of the boot block, as read_dentry_by_index finds it.
DentryAt(i) == IF i < Len(Dir) THEN Dir[i + 1] ELSE Beyond

StrLen(nm) == IF nm = EMPTY THEN 0 ELSE NameLen[nm]

\* Seeded fault: the rates of 512 Hz and 1024 Hz swapped.
FreqToRateSwapped(f) ==
    CASE f = 2 -> 15 [] f = 4 -> 14 [] f = 8 -> 13 [] f = 16 -> 12
      [] f = 32 -> 11 [] f = 64 -> 10 [] f = 128 -> 9 [] f = 256 -> 8
      [] f = 512 -> 6 [] f = 1024 -> 7 [] OTHER -> 1

\* freq_to_rate: the register-A rate of a frequency, 1 when it is invalid.
FreqToRate(f) ==
    CASE f = 2 -> 15 [] f = 4 -> 14 [] f = 8 -> 13 [] f = 16 -> 12
      [] f = 32 -> 11 [] f = 64 -> 10 [] f = 128 -> 9 [] f = 256 -> 8
      [] f = 512 -> 7 [] f = 1024 -> 6 [] OTHER -> 1

\* read_data's copy loops: the byte at off + count is copied, then the loop
\* returns once count reaches length or the end of the file; at the end of a
\* block it goes on only while count < length.
\* Seeded fault: the end-of-file test of the copy loop off by one.
RECURSIVE CopyFromPastEnd(_, _, _, _)
CopyFromPastEnd(count, off, len, size) ==
    LET c == count + 1 IN
    IF c = len \/ c + off > size THEN c
    ELSE IF (off + c) % BLOCK_SIZE = 0 /\ c >= len THEN c
    ELSE CopyFromPastEnd(c, off, len, size)

RECURSIVE CopyFrom(_, _, _, _)
CopyFrom(count, off, len, size) ==
    LET c == count + 1 IN
    IF c = len \/ c + off >= size THEN c
    ELSE IF (off + c) % BLOCK_SIZE = 0 /\ c >= len THEN c
    ELSE CopyFrom(c, off, len, size)

ReadData(nm, off, len) ==
    IF off > Size[nm] THEN -1
    ELSE IF off = Size[nm] THEN 0
    ELSE CopyFrom(0, off, len, Size[nm])

\* The first index from i on whose dentry is not empty, or NUM_DIR_ENTRIES.
SkipEmpty(i) ==
    CHOOSE j \in i .. NUM_DIR_ENTRIES :
        /\ DentryAt(j) # EMPTY \/ j = NUM_DIR_ENTRIES
        /\ \A k \in i .. j - 1 : DentryAt(k) = EMPTY

\* Seeded fault: the end test one entry early.
DirEndEarly(i) == i > NUM_DIR_ENTRIES - 2

\* read_directory's end test on the directory index.
DirEnd(i) == i > NUM_DIR_ENTRIES - 1

\* The bytes of a command string; the byte at index i (from 0) is NUL past
\* its end.
SP == " "
NUL == "NUL"
\* A byte of a PCB that execute left uninitialised, taken as not NUL.
JUNK == "JUNK"
At(c, i) == IF i < Len(c) THEN c[i + 1] ELSE NUL

\* sys_execute's first loop: the index where the file name ends, at a space,
\* the terminator or FNAME_SIZE bytes.
RECURSIVE ScanName(_, _)
ScanName(c, i) ==
    IF i = FNAME_SIZE \/ At(c, i) \in {SP, NUL} THEN i ELSE ScanName(c, i + 1)

FileName(c) == SubSeq(c, 1, ScanName(c, 0))

\* The loop past the spaces after the name.
RECURSIVE SkipSpaces(_, _)
SkipSpaces(c, i) == IF At(c, i) = SP THEN SkipSpaces(c, i + 1) ELSE i

\* The argument loop: up to a space or the terminator, while i < ARG_BYTES.
RECURSIVE ScanArg(_, _)
ScanArg(c, i) ==
    IF i >= ARG_BYTES \/ At(c, i) \in {SP, NUL} THEN i ELSE ScanArg(c, i + 1)

\* The first n bytes of a word in a NUL-filled buffer.
Padded(w, n) == [k \in 1 .. n |-> IF k <= Len(w) THEN w[k] ELSE NUL]

\* Seeded fault: local_arglength counting only the bytes copied.
ParseArgsCountOnly(c) ==
    LET s == SkipSpaces(c, ScanName(c, 0))
        e == ScanArg(c, s)
    IN [word |-> SubSeq(c, s + 1, e), arg_len |-> e - s]

\* The argument word sys_execute copies into local_args, and local_arglength:
\* 1, plus one per byte copied, plus one after the loop.
ParseArgs(c) ==
    LET s == SkipSpaces(c, ScanName(c, 0))
        e == ScanArg(c, s)
    IN [word |-> SubSeq(c, s + 1, e), arg_len |-> 1 + (e - s) + 1]

\* strncpy(dst, src, n) from a source of which only the bytes of src are
\* initialised: the bytes up to the first NUL, then NULs up to n.
Strncpy(src, n) ==
    LET nuls == {k \in DOMAIN src : src[k] = NUL}
        stop == IF nuls = {} THEN n + 1
                ELSE CHOOSE k \in nuls : \A j \in nuls : k <= j
    IN [k \in 1 .. n |-> IF k >= stop THEN NUL
                         ELSE IF k <= Len(src) THEN src[k] ELSE JUNK]

\* The string a caller reads from a buffer: the bytes before its first NUL,
\* NONE when the buffer holds no NUL.
CString(buf) ==
    LET nuls == {k \in DOMAIN buf : buf[k] = NUL}
    IN IF nuls = {} THEN NONE
       ELSE SubSeq(buf, 1, (CHOOSE k \in nuls : \A j \in nuls : k <= j) - 1)

\* What getargs is meant to hand back, defined from the words of the command
\* rather than from execute's loops: the second space-separated word of the
\* first ARG_BYTES bytes of the command.
ArgWord(c) ==
    LET t == SubSeq(c, 1, IF Len(c) < ARG_BYTES THEN Len(c) ELSE ARG_BYTES)
        starts == {k \in 2 .. Len(t) : t[k] # SP /\ t[k - 1] = SP}
        a == CHOOSE k \in starts : \A j \in starts : k <= j
        b == CHOOSE k \in a .. Len(t) : /\ \A j \in a .. k : t[j] # SP
                                        /\ k = Len(t) \/ t[k + 1] = SP
    IN IF starts = {} THEN <<>> ELSE SubSeq(t, a, b)

\* The first word of a command fits sys_execute's file_name buffer.
NameFits(c) == \A k \in 1 .. Len(c) : c[k] = SP \/ k <= FNAME_SIZE \/
                                      \E j \in 1 .. k - 1 : c[j] = SP

VARIABLES
    file_array,   \* the slot's pcb->file_array
    arg,          \* the slot's pcb->arg: the bytes execute wrote to it
    arg_len,      \* the slot's pcb->arg_len
    expect,       \* auxiliary: the argument word of the command executed
    got,          \* auxiliary: the outcome of the last getargs
    alive,        \* a process occupies the slot
    rate,         \* RTC register A rate bits
    freq,         \* auxiliary: the frequency last programmed successfully
    last,         \* auxiliary: the outcome of the last read of a descriptor
    listing       \* auxiliary: names a directory descriptor returned so far

argvars == <<arg, arg_len, expect, got>>
vars == <<file_array, alive, rate, freq, last, listing, argvars>>

NoListing == [names |-> <<>>, done |-> FALSE, whole |-> TRUE]

Init ==
    /\ file_array = [fd \in FDs |-> ClosedFile]
    /\ alive = FALSE
    /\ rate = 15
    /\ freq = DEFAULT_FREQ
    /\ last = NONE
    /\ listing = [fd \in FDs |-> NoListing]
    /\ arg = Padded(<<>>, ARG_BYTES)
    /\ arg_len = 0
    /\ expect = NONE
    /\ got = NONE

\* sys_execute: the file name and the argument word are cut out of the
\* command; load_program fails, leaving everything as it was, unless a
\* dentry of an executable has that name (strncmp over MAX_NAME_SIZE
\* bytes); the PCB gets fd 0 and 1 bound to the terminal, the rest free, and
\* the first arg_len bytes of local_args.
Execute(c) ==
    /\ ~alive
    /\ FileName(c) \in Programs
    /\ alive' = TRUE
    /\ file_array' = [fd \in FDs |-> IF fd < STDOUT THEN TermFile ELSE ClosedFile]
    /\ listing' = [fd \in FDs |-> NoListing]
    /\ LET p == ParseArgs(c)
       IN /\ arg' = Padded(p.word, p.arg_len)
          /\ arg_len' = p.arg_len
    /\ expect' = IF NameFits(c) THEN ArgWord(c) ELSE NONE
    /\ got' = NONE
    /\ UNCHANGED <<rate, freq, last>>

\* sys_close's effect on an in-use descriptor it accepts.
Closed(fa, fd) ==
    IF fd > NUM_FILES - 1 \/ fd < STDOUT \/ fa[fd].flags = 0 THEN fa
    ELSE [fa EXCEPT ![fd] = ClosedFile]

\* sys_halt runs sys_close on every descriptor whose flag is set.
Halt ==
    /\ alive
    /\ alive' = FALSE
    /\ file_array' = [fd \in FDs |->
                        IF file_array[fd].flags = 1
                        THEN Closed(file_array, fd)[fd] ELSE file_array[fd]]
    /\ arg' = Padded(<<>>, ARG_BYTES)
    /\ arg_len' = 0
    /\ expect' = NONE
    /\ got' = NONE
    /\ UNCHANGED <<rate, freq, last, listing>>

\* sys_getargs: a NULL buffer fails; so does one shorter than arg_len;
\* otherwise strncpy copies nbytes bytes of the PCB's argument buffer,
\* and the caller reads the string they hold.
GetArgs(n) ==
    /\ alive
    /\ got' = IF arg_len > n THEN [n |-> n, ret |-> -1, str |-> NONE]
              ELSE [n |-> n, ret |-> 0, str |-> CString(Strncpy(arg, n))]
    /\ UNCHANGED <<file_array, alive, rate, freq, last, listing, arg, arg_len, expect>>

GetArgsNull ==
    /\ alive
    /\ got' = [n |-> 0, ret |-> -1, str |-> NONE]
    /\ UNCHANGED <<file_array, alive, rate, freq, last, listing, arg, arg_len, expect>>

\* The names sys_open may be passed: every dentry's and one that is absent.
OpenNames == ({DentryAt(i) : i \in 0 .. Len(Dir) - 1} \ {EMPTY}) \cup {Missing}

OpsOf(nm) == CASE FileType[nm] = 0 -> "rtc"
               [] FileType[nm] = 1 -> "dir"
               [] FileType[nm] = 2 -> "file"

\* sys_open: the lowest free descriptor, the dentry found by name (the scan of
\* read_dentry_by_name covers the dentries of the boot block only), then the
\* open operation of its type; rtc_open programs 2 Hz through rtc_write.
Open(nm) ==
    /\ alive
    /\ \E fd \in FDs : file_array[fd].flags = 0
    /\ LET fd == CHOOSE f \in FDs : file_array[f].flags = 0
                      /\ \A g \in 0 .. f - 1 : file_array[g].flags = 1
       IN \/ /\ nm = Missing
             /\ UNCHANGED vars
          \/ /\ nm # Missing
             /\ file_array' = [file_array EXCEPT ![fd] =
                    [flags |-> 1, ops |-> OpsOf(nm), inode |-> nm, pos |-> 0]]
             /\ listing' = [listing EXCEPT ![fd] = NoListing]
             /\ IF FileType[nm] = 0
                   THEN rate' = FreqToRate(DEFAULT_FREQ) /\ freq' = DEFAULT_FREQ
                   ELSE UNCHANGED <<rate, freq>>
             /\ UNCHANGED <<argvars, alive, last>>

Close(fd) ==
    /\ alive
    /\ file_array' = Closed(file_array, fd)
    /\ UNCHANGED <<argvars, alive, rate, freq, last, listing>>

\* sys_read's descriptor checks before it dispatches.
Readable(fd) == fd \in 0 .. NUM_FILES - 1 /\ fd # 1 /\ file_array[fd].flags = 1

\* sys_read on a regular file: file_read reads from file_pos with read_data
\* and advances file_pos by the count.
ReadFile(fd, n) ==
    /\ alive
    /\ Readable(fd) /\ file_array[fd].ops = "file"
    /\ fd >= MIN_FD /\ fd <= MAX_FD
    /\ LET f == file_array[fd]
           count == ReadData(f.inode, f.pos, U32(n))
       IN /\ file_array' = IF count = -1 THEN file_array
                            ELSE [file_array EXCEPT ![fd].pos = f.pos + count]
          /\ last' = [kind |-> "file", fd |-> fd, n |-> n, copied |-> IF count = -1 THEN 0 ELSE count,
                      ret |-> count]
    /\ UNCHANGED <<argvars, alive, rate, freq, listing>>

\* sys_read on a directory: read_directory clamps nbytes to a name, takes the
\* length of the dentry at file_pos, skips empty dentries, copies that many
\* bytes of the dentry it stopped at, and moves past it.
ReadDirectory(fd, n) ==
    /\ alive
    /\ Readable(fd) /\ file_array[fd].ops = "dir"
    /\ LET i  == file_array[fd].pos
           n1 == IF n > MAX_NAME_SIZE THEN MAX_NAME_SIZE ELSE n
           n2 == IF StrLen(DentryAt(i)) < MAX_NAME_SIZE THEN StrLen(DentryAt(i)) ELSE n1
           j  == SkipEmpty(i)
           nm == IF j < NUM_DIR_ENTRIES THEN DentryAt(j) ELSE DentryAt(i)
           ret == IF DirEnd(j + 1) THEN 0 ELSE n2
       IN IF DirEnd(i)
          THEN /\ last' = [kind |-> "dir", fd |-> fd, n |-> n, copied |-> 0, ret |-> 0]
               /\ listing' = [listing EXCEPT ![fd].done = TRUE,
                                             ![fd].whole = @ /\ n >= MAX_NAME_SIZE]
               /\ UNCHANGED file_array
          ELSE /\ file_array' = [file_array EXCEPT ![fd].pos = j + 1]
               /\ last' = [kind |-> "dir", fd |-> fd, n |-> n, copied |-> U32(n2), ret |-> ret]
               /\ listing' = [listing EXCEPT ![fd] =
                      [names |-> IF ret > 0 THEN Append(@.names, nm) ELSE @.names,
                       done  |-> @.done \/ ret = 0,
                       whole |-> @.whole /\ n >= MAX_NAME_SIZE]]
    /\ UNCHANGED <<argvars, alive, rate, freq>>

\* Seeded fault: rtc_write without its test of freq_to_rate's result.
WriteRtcUnchecked(fd, f) ==
    /\ alive
    /\ fd \in 0 .. NUM_FILES - 1 /\ fd # 0 /\ file_array[fd].flags = 1
    /\ file_array[fd].ops = "rtc"
    /\ rate' = FreqToRate(f) /\ freq' = f
    /\ UNCHANGED <<argvars, file_array, alive, last, listing>>

\* sys_write's descriptor checks before it dispatches.
Writable(fd) == fd \in 0 .. NUM_FILES - 1 /\ fd # 0 /\ file_array[fd].flags = 1

\* sys_write of four bytes to an RTC descriptor: rtc_write keeps the rate
\* unless freq_to_rate rejects the frequency.
WriteRtc(fd, f) ==
    /\ alive
    /\ Writable(fd)
    /\ file_array[fd].ops = "rtc"
    /\ IF FreqToRate(f) = 1
          THEN UNCHANGED <<rate, freq>>
          ELSE rate' = FreqToRate(f) /\ freq' = f
    /\ UNCHANGED <<argvars, file_array, alive, last, listing>>

Next ==
    \/ \E c \in Commands : Execute(c)
    \/ \E n \in ArgNBytes : GetArgs(n)
    \/ GetArgsNull
    \/ Halt
    \/ \E nm \in OpenNames : Open(nm)
    \/ \E fd \in FDs : Close(fd)
    \/ \E fd \in FDs, n \in NBytes : ReadFile(fd, n) \/ ReadDirectory(fd, n)
    \/ \E fd \in FDs, f \in Freqs : WriteRtc(fd, f)

Spec == Init /\ [][Next]_vars

-----------------------------------------------------------------------------
TypeOK ==
    /\ file_array \in [FDs -> [flags : {0, 1}, ops : Ops,
                                inode : Names \cup {0}, pos : Nat]]
    /\ alive \in BOOLEAN
    /\ rate \in 6 .. 15
    /\ listing \in [FDs -> [names : Seq(Names), done : BOOLEAN, whole : BOOLEAN]]
    /\ arg \in Seq({"a", SP, NUL}) /\ Len(arg) <= ARG_BYTES
    /\ arg_len \in 0 .. ARG_BYTES

\* file_read never moves file_pos past the end of its inode, and
\* read_directory never moves its index more than one past the last slot it
\* scans, however reads of any sizes follow each other.
PosWithinFile ==
    \A fd \in FDs :
        /\ file_array[fd].ops = "file" => file_array[fd].pos <= Size[file_array[fd].inode]
        /\ file_array[fd].ops = "dir" => file_array[fd].pos <= NUM_DIR_ENTRIES + 1

\* Reading a directory descriptor until read_directory returns 0, asking for
\* a whole name each time as ls does, yields every non-empty dentry of the
\* boot block, in order, each once (the names of the reads that returned a
\* positive count).
ListingComplete ==
    \A fd \in FDs :
        file_array[fd].ops = "dir" /\ listing[fd].done /\ listing[fd].whole =>
            listing[fd].names = SelectSeq(Dir, LAMBDA x : x # EMPTY)

\* The RTC runs at the frequency last accepted by rtc_write or rtc_open:
\* register A's rate r divides 32768 Hz by 2^(r-1).
RateMatchesFreq == 32768 \div (2 ^ (rate - 1)) = freq

\* After a getargs that returned 0, the caller's buffer holds a terminated
\* string and that string is the argument word of the command execute ran
\* (for a command whose name fits FNAME_SIZE): execute's three scanning
\* loops, its count local_arglength, the strncpy into the PCB and the
\* length test and strncpy of getargs together deliver it.
GetArgsReturnsArgument ==
    got # NONE /\ got.ret = 0 /\ expect # NONE =>
        got.str = expect

\* Not checked by a run; TLC finds it violated (see README).  A buffer
\* holding exactly the argument and its terminator is long enough for
\* getargs, as the specification's "buffer shorter than the stored argument
\* length fails" reads for the argument's length.
GetArgsExactFits ==
    got # NONE /\ expect # NONE /\ got.n = Len(expect) + 1 => got.ret = 0

\* Not checked by a run; TLC finds it violated (see README).  Execute
\* refuses a command whose program name is longer than its name buffer, as
\* the specification's error taxonomy says of an oversized name.
OverlongNameRefused == alive => expect # NONE

\* A read copies at most nbytes bytes into the caller's buffer (none for a
\* negative nbytes), as sys_read's contract says: for file_read the bytes of
\* read_data, for read_directory the bytes of the name it copies.
ReadWithinRequest ==
    last # NONE => last.copied <= (IF last.n < 0 THEN 0 ELSE last.n)
====
