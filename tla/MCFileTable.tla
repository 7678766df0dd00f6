---------------------------- MODULE MCFileTable ----------------------------
(* A boot block of three dentries (the real one holds 63), a regular file *)
(* spanning two data blocks of four bytes, names of up to four bytes and   *)
(* two descriptors beyond stdin and stdout.                                *)
EXTENDS FileTable, SequencesExt, TLC

CONSTANTS d, r, f, x, m

\* A full boot block: ".", "rtc" and a file with an unterminated name.
MCFullDir == <<d, r, f>>
MCFileType == (d :> 1) @@ (r :> 0) @@ (f :> 2) @@ (x :> 2)
MCSize == (d :> 0) @@ (r :> 0) @@ (f :> 6) @@ (x :> 0)
MCNameLen == (d :> 1) @@ (r :> 3) @@ (f :> 4) @@ (x :> 2)
\* nbytes of a read: negative, zero, exactly a name.
MCNBytes == {-1, 0, 4}
\* Executables named "a" and "aa" (a name filling the FNAME_SIZE buffer).
MCPrograms == {<<"a">>, <<"a", "a">>}
\* Every command of up to six bytes of "a" and space: up to the end of the
\* ARG_BYTES buffer and one byte past it.
MCCommands == BoundedSeq({"a", " "}, 6)
\* nbytes of getargs: negative, and every length up to ARG_BYTES.
MCArgNBytes == -1 .. 5
====
