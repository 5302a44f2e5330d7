-------------------------- MODULE WriteCompressed --------------------------
(***************************************************************************)
(* util/compress.cc, writing: WriteStream feeds a compressor (zlib or      *)
(* bzip2, external) and writes what it has put in a small buffer to the    *)
(* file.  flush() completes a member; so does the destructor.              *)
(*                                                                         *)
(* A member for n bytes is a magic token, n data tokens and an end token.  *)
(* The compressor takes bytes in and puts tokens out when it likes.        *)
(***************************************************************************)
EXTENDS Integers, Sequences, FiniteSets

CONSTANTS
    BufSize,     \* buf_size_, at least kMinOutput
    MinOutput,   \* Compressor::kMinOutput
    SizeMax,     \* Compressor::kSizeMax
    MaxWrites,   \* bound: calls of write() and flush()
    MaxAmount    \* bound: bytes in a call

VARIABLES
    calls,      \* calls so far
    written,    \* bytes given to write()
    later,      \* bytes of the write() under way beyond SizeMax
    avail,      \* bytes set as input of the compressor
    taken,      \* bytes of this member the compressor has taken
    emitted,    \* tokens of this member it has put out
    buf,        \* buf_ up to NextOutput()
    out,        \* the file
    dirty,      \* dirty_
    pc          \* where the code is

vars == <<calls, written, later, avail, taken, emitted, buf, out, dirty, pc>>

Token(i, n) == IF i = 1 THEN "magic" ELSE IF i <= n + 1 THEN "data" ELSE "end"

\* Tokens from..to of the member for n bytes.
Tokens(from, to, n) == [i \in 1..(to - from + 1) |-> Token(from + i - 1, n)]

\* avail_out
Room == BufSize - Len(buf)

Init ==
    /\ calls = 0 /\ written = 0
    /\ later = 0 /\ avail = 0
    /\ taken = 0 /\ emitted = 0
    /\ buf = <<>> /\ out = <<>>
    /\ dirty = TRUE
    /\ pc = "idle"

-----------------------------------------------------------------------------

SmallerOf(a, b) == IF a < b THEN a ELSE b

\* write(): what is beyond the maximum size goes to the compressor in pieces.
BeginWrite(amount) ==
    /\ pc = "idle"
    /\ calls < MaxWrites
    /\ calls' = calls + 1
    /\ written' = written + amount
    /\ avail' = SmallerOf(amount, SizeMax)
    /\ later' = amount - avail'
    /\ pc' = "write"
    /\ UNCHANGED <<taken, emitted, buf, out, dirty>>

EnoughOutput == Room >= MinOutput

\* The buffer is written to the file.
Drain ==
    /\ out' = out \o buf
    /\ buf' = <<>>

\* Slip: the loop goes round without the buffer being written.
MakeRoomNever ==
    /\ pc = "finish" \/ (pc = "write" /\ avail > 0)
    /\ ~EnoughOutput
    /\ UNCHANGED vars

\* The buffer is written when there is not enough room left in it.
MakeRoom ==
    /\ pc = "finish" \/ (pc = "write" /\ avail > 0)
    /\ ~EnoughOutput
    /\ Drain
    /\ UNCHANGED <<calls, written, later, avail, taken, emitted, dirty, pc>>

\* Process: the compressor takes some input, puts some output, or both.
Process ==
    /\ pc = "write"
    /\ avail > 0 /\ EnoughOutput
    /\ \E k \in 0..avail :
        /\ taken' = taken + k
        /\ avail' = avail - k
        /\ \E e \in emitted..SmallerOf(taken' + 1, emitted + Room) :
            /\ k + (e - emitted) > 0
            /\ emitted' = e
            /\ buf' = buf \o Tokens(emitted + 1, e, taken')
    /\ UNCHANGED <<calls, written, later, out, dirty, pc>>

\* The next piece, or the end of write().
EndPiece ==
    /\ pc = "write"
    /\ avail = 0
    /\ avail' = SmallerOf(later, SizeMax)
    /\ later' = later - avail'
    /\ dirty' = TRUE
    /\ pc' = IF avail' = 0 THEN "idle" ELSE "write"
    /\ UNCHANGED <<calls, written, taken, emitted, buf, out>>

\* flush() and, as the last thing, the destructor.
BeginFlush ==
    /\ pc = "idle"
    /\ calls < MaxWrites
    /\ calls' = calls + 1
    /\ pc' = IF dirty THEN "finish" ELSE "idle"
    /\ UNCHANGED <<written, later, avail, taken, emitted, buf, out, dirty>>

\* Slip: the destructor does not flush.
DestroyUnflushed ==
    /\ pc = "idle"
    /\ calls' = MaxWrites + 1
    /\ pc' = "gone"
    /\ UNCHANGED <<written, later, avail, taken, emitted, buf, out, dirty>>

Destroy ==
    /\ pc = "idle"
    /\ calls' = MaxWrites + 1
    /\ pc' = IF dirty THEN "finish" ELSE "gone"
    /\ UNCHANGED <<written, later, avail, taken, emitted, buf, out, dirty>>

\* Finish: as much of the rest of the member as there is room for.
Finish ==
    LET e == SmallerOf(taken + 2, emitted + Room)
    IN  /\ pc = "finish"
        /\ EnoughOutput
        /\ emitted' = e
        /\ buf' = buf \o Tokens(emitted + 1, e, taken)
        /\ pc' = IF e = taken + 2 THEN "finished" ELSE pc
        /\ UNCHANGED <<calls, written, later, avail, taken, out, dirty>>

\* The rest of the buffer is written and the compressor begins a new member.
EndFlush ==
    /\ pc = "finished"
    /\ Drain
    /\ taken' = 0 /\ emitted' = 0
    /\ dirty' = FALSE
    /\ pc' = IF calls > MaxWrites THEN "gone" ELSE "idle"
    /\ UNCHANGED <<calls, written, later, avail>>

Next ==
    \/ \E amount \in 0..MaxAmount : BeginWrite(amount)
    \/ MakeRoom \/ Process \/ EndPiece
    \/ BeginFlush \/ Destroy \/ Finish \/ EndFlush

Spec == Init /\ [][Next]_vars

-----------------------------------------------------------------------------
(* Properties *)

\* Type invariant of the stream.
TypeOK ==
    /\ calls \in 0..(MaxWrites + 1)
    /\ {written, later, avail, taken, emitted} \subseteq Nat
    /\ buf \in Seq({"magic", "data", "end"}) /\ Len(buf) <= BufSize
    /\ out \in Seq({"magic", "data", "end"})
    /\ dirty \in BOOLEAN
    /\ pc \in {"idle", "write", "finish", "finished", "gone"}

DataOf(tokens) == Cardinality({i \in 1..Len(tokens) : tokens[i] = "data"})

\* Members follow each other: a magic token at the start and after every end
\* token, and nowhere else.
WellFormed(tokens) ==
    \A i \in 1..Len(tokens) : tokens[i] = "magic" <=> i = 1 \/ tokens[i - 1] = "end"

\* At every moment the file and the buffer are the beginning of a well-formed
\* file, and no byte is lost: each is in them, in the compressor or to come.
NothingLost ==
    /\ WellFormed(out \o buf)
    /\ DataOf(out \o buf) + (taken - IF emitted = 0 THEN 0 ELSE SmallerOf(emitted - 1, taken))
         + avail + later = written

\* The file that is left behind consists of complete members with all the
\* bytes, and of at least one member, so that it is a valid compressed file.
CompleteWhenGone ==
    pc = "gone" =>
        /\ out # <<>> /\ WellFormed(out) /\ out[Len(out)] = "end"
        /\ buf = <<>>
        /\ DataOf(out) = written
=============================================================================
