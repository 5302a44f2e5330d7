------------------------------ MODULE FileOps ------------------------------
(***************************************************************************)
(* The loops of util/file.cc around read, write, pread and pwrite: a call  *)
(* that was interrupted is repeated, and a transfer that came up short     *)
(* goes on where it stopped.                                               *)
(*                                                                         *)
(* The state s of a descriptor is [file, pos, returns]: the bytes of the   *)
(* file, the position of the descriptor, and what the coming system calls  *)
(* return: Eintr, Error or how many bytes they are willing to move.  A     *)
(* call beyond the end of this list moves as much as it is asked for.      *)
(***************************************************************************)
EXTENDS Integers, Sequences, FiniteSetsExt, SequencesExt

\* -1, with errno EINTR or another one
Eintr == -1
Error == -2

\* What the next system call returns for `size` bytes of `there`.
Answer(s, size, there) ==
    IF s.returns = <<>> THEN Min({size, there})
    ELSE IF s.returns[1] \in {Eintr, Error} THEN s.returns[1]
    ELSE Min({s.returns[1], size, there})

Answered(s) == [s EXCEPT !.returns = IF @ = <<>> THEN @ ELSE Tail(@)]

LeftFrom(s, pos) == Max({0, Len(s.file) - pos})

\* Where a call repeats itself after EINTR.
RECURSIVE AfterEintr(_)
AfterEintr(s) ==
    IF s.returns # <<>> /\ s.returns[1] = Eintr THEN AfterEintr(Answered(s)) ELSE s

-----------------------------------------------------------------------------
(* read *)

\* What was read, the state after it, and whether there was an error.
PartialRead(s, amount) ==
    LET t == AfterEintr(s)
        ret == Answer(t, amount, LeftFrom(t, t.pos))
    IN  IF ret = Error THEN [bytes |-> <<>>, s |-> Answered(t), thrown |-> TRUE]
        ELSE [bytes |-> SubSeq(t.file, t.pos + 1, t.pos + ret),
              s |-> [Answered(t) EXCEPT !.pos = @ + ret], thrown |-> FALSE]

\* The loop of ReadOrThrow and ReadOrEOF, which differ only at the end of the
\* file; `to` is what they have got.
RECURSIVE ReadLoop(_, _, _, _)
ReadLoop(s, amount, to, mayEnd) ==
    IF amount = 0 THEN [to |-> to, s |-> s, status |-> "ok"]
    ELSE LET r == PartialRead(s, amount)
         IN  IF r.thrown THEN [to |-> to, s |-> r.s, status |-> "error"]
             ELSE IF r.bytes = <<>>
             THEN [to |-> to, s |-> r.s, status |-> IF mayEnd THEN "ok" ELSE "eof"]
             ELSE ReadLoop(r.s, amount - Len(r.bytes), to \o r.bytes, mayEnd)

ReadOrThrow(s, amount) == ReadLoop(s, amount, <<>>, FALSE)
ReadOrEOF(s, amount) == ReadLoop(s, amount, <<>>, TRUE)

-----------------------------------------------------------------------------
(* write *)

\* The file after `bytes` were written at a position within it or at its end.
Overwritten(file, pos, bytes) ==
    [i \in 1..Max({Len(file), pos + Len(bytes)}) |->
        IF i \in (pos + 1)..(pos + Len(bytes)) THEN bytes[i - pos] ELSE file[i]]

\* A call that writes nothing counts as an error.
RECURSIVE WriteOrThrow(_, _)
WriteOrThrow(s, data) ==
    IF data = <<>> THEN [to |-> <<>>, s |-> s, status |-> "ok"]
    ELSE LET t == AfterEintr(s)
             ret == Answer(t, Len(data), Len(data))
         IN  IF ret \in {Error, 0} THEN [to |-> <<>>, s |-> Answered(t), status |-> "error"]
             ELSE WriteOrThrow([Answered(t) EXCEPT
                                   !.file = Overwritten(@, t.pos, SubSeq(data, 1, ret)),
                                   !.pos = @ + ret],
                               SubSeq(data, ret + 1, Len(data)))

-----------------------------------------------------------------------------
(* pread and pwrite, which leave the descriptor's position alone *)

\* Slip: the offset stays where it was after a short pread.
RECURSIVE ErsatzPReadStays(_, _, _, _)
ErsatzPReadStays(s, size, off, to) ==
    LET ret == Answer(s, size, LeftFrom(s, off))
        t == Answered(s)
    IN  IF size = 0 THEN [to |-> to, s |-> s, status |-> "ok"]
        ELSE IF ret = Eintr THEN ErsatzPReadStays(t, size, off, to)
        ELSE IF ret \in {Error, 0}
        THEN [to |-> to, s |-> t, status |-> IF ret = 0 THEN "eof" ELSE "error"]
        ELSE ErsatzPReadStays(t, size - ret, off, to \o SubSeq(s.file, off + 1, off + ret))

RECURSIVE ErsatzPRead(_, _, _, _)
ErsatzPRead(s, size, off, to) ==
    LET ret == Answer(s, size, LeftFrom(s, off))
        t == Answered(s)
    IN  IF size = 0 THEN [to |-> to, s |-> s, status |-> "ok"]
        ELSE IF ret = Eintr THEN ErsatzPRead(t, size, off, to)
        ELSE IF ret \in {Error, 0}
        THEN [to |-> to, s |-> t, status |-> IF ret = 0 THEN "eof" ELSE "error"]
        ELSE ErsatzPRead(t, size - ret, off + ret, to \o SubSeq(s.file, off + 1, off + ret))

RECURSIVE ErsatzPWrite(_, _, _)
ErsatzPWrite(s, from, off) ==
    LET ret == Answer(s, Len(from), Len(from))
        t == Answered(s)
    IN  IF from = <<>> THEN [to |-> <<>>, s |-> s, status |-> "ok"]
        ELSE IF ret = Eintr THEN ErsatzPWrite(t, from, off)
        ELSE IF ret \in {Error, 0}
        THEN [to |-> <<>>, s |-> t, status |-> IF ret = 0 THEN "eof" ELSE "error"]
        ELSE ErsatzPWrite([t EXCEPT !.file = Overwritten(@, off, SubSeq(from, 1, ret))],
                          SubSeq(from, ret + 1, Len(from)), off + ret)
=============================================================================
