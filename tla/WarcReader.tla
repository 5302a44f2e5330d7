----------------------------- MODULE WarcReader -----------------------------
(***************************************************************************)
(* WARCReader of preprocess/warc.cc: records out of a file that is read in *)
(* pieces.  What was read beyond the end of a record is kept for the next  *)
(* one (overhang_).                                                        *)
(*                                                                         *)
(* A file is a sequence of bytes: "cr", "nl" and others.  The text of a    *)
(* header counts as one byte: "warc" for that of the first line and        *)
(* "length 2" for a Content-Length of 2.  The state of a reader is the     *)
(* record [file, fd, sizes, overhang]: the file, how much of it was read,  *)
(* how much the coming calls of ReadCompressed::Read return, and           *)
(* overhang_.                                                              *)
(***************************************************************************)
EXTENDS Integers, Sequences, FiniteSetsExt, SequencesExt

CONSTANTS
    kRead,     \* bytes asked for in ReadMore
    MaxSize    \* bytes that std::string can hold

ASSUME ReadAssumption == kRead \in Nat \ {0} /\ MaxSize \in Nat

\* A Read for `amount` bytes: at least one if there is one, and the sizes are
\* used in turn.
ReaderRead(r, amount) ==
    LET got == Min({amount, r.sizes[1], Len(r.file) - r.fd})
    IN  [bytes |-> SubSeq(r.file, r.fd + 1, r.fd + got),
         reader |-> [r EXCEPT !.fd = @ + got, !.sizes = Append(Tail(@), @[1])]]

-----------------------------------------------------------------------------
(* HeaderReader.  Its state h is [r, out, consumed, line, status]; status is *)
(* "ok", "end" if Line returned false, or "thrown".                          *)

ReadMore(h) ==
    LET got == ReaderRead(h.r, kRead)
    IN  IF got.bytes # <<>> THEN [h EXCEPT !.r = got.reader, !.out = @ \o got.bytes]
        ELSE [h EXCEPT !.status = IF h.out # <<>> THEN "thrown" ELSE "end"]

WithoutCr(line) ==
    IF line # <<>> /\ line[Len(line)] = "cr" THEN SubSeq(line, 1, Len(line) - 1) ELSE line

\* Slip: after more was read, the search goes on behind it.
RECURSIVE LineFromBehind(_, _)
LineFromBehind(h, newline_start) ==
    LET found == {i \in (newline_start + 1)..Len(h.out) : h.out[i] = "nl"}
        newline == Min(found)
        more == ReadMore(h)
    IN  IF found # {}
        THEN [h EXCEPT !.line = WithoutCr(SubSeq(h.out, h.consumed + 1, newline - 1)),
                       !.consumed = newline]
        ELSE IF more.status # "ok" THEN more
        ELSE LineFromBehind(more, Len(more.out))

RECURSIVE LineFrom(_, _)
LineFrom(h, newline_start) ==
    LET found == {i \in (newline_start + 1)..Len(h.out) : h.out[i] = "nl"}
        newline == Min(found)
        more == ReadMore(h)
    IN  IF found # {}
        THEN [h EXCEPT !.line = WithoutCr(SubSeq(h.out, h.consumed + 1, newline - 1)),
                       !.consumed = newline]
        ELSE IF more.status # "ok" THEN more
        ELSE LineFrom(more, Len(h.out))

Line(h) == LineFrom(h, h.consumed)

-----------------------------------------------------------------------------
(* Read *)

\* Values of Content-Length, and what strtoll makes of them.
Lengths ==
    [c \in {"length 0", "length 1", "length 2", "length 3", "length -1", "length -4"} |->
        CASE c = "length 0" -> 0 [] c = "length 1" -> 1 [] c = "length 2" -> 2
          [] c = "length 3" -> 3 [] c = "length -1" -> -1 [] c = "length -4" -> -4]

Thrown(h) == [h EXCEPT !.status = "thrown"]

\* The lines of the header, up to the empty one.
RECURSIVE Headers(_, _)
HeadersFrom(next, lengths) ==
    IF next.status # "ok" THEN [h |-> Thrown(next), lengths |-> lengths]
    ELSE IF next.line = <<>> THEN [h |-> next, lengths |-> lengths]
    ELSE IF next.line[1] \notin DOMAIN Lengths \cup {"length x"} THEN Headers(next, lengths)
    ELSE IF lengths # <<>> \/ next.line[1] = "length x" \/ Len(next.line) > 1
    THEN [h |-> Thrown(next), lengths |-> lengths]
    ELSE Headers(next, <<Lengths[next.line[1]]>>)
Headers(h, lengths) == HeadersFrom(Line(h), lengths)

\* The rest of a record is read in as many pieces as it takes.
RECURSIVE ReadRest(_, _)
ReadRest(h, total) ==
    IF Len(h.out) = total THEN h
    ELSE LET got == ReaderRead(h.r, total - Len(h.out))
         IN  IF got.bytes = <<>> THEN Thrown(h)
             ELSE ReadRest([h EXCEPT !.r = got.reader, !.out = @ \o got.bytes], total)

\* Header, content and CRLF CRLF make `total` bytes.  A negative sum is a
\* huge size_t.
RecordBody(h, total) ==
    IF total < 0 \/ total > MaxSize THEN Thrown(h)
    ELSE IF total < Len(h.out)
    THEN [h EXCEPT !.r.overhang = SubSeq(h.out, total + 1, Len(h.out)), !.out = SubSeq(@, 1, total)]
    ELSE ReadRest(h, total)

EndsInCrlfCrlf(out) == SubSeq(out, Len(out) - 3, Len(out)) = <<"cr", "nl", "cr", "nl">>

CheckEnd(whole) == IF whole.status = "ok" /\ ~EndsInCrlfCrlf(whole.out) THEN Thrown(whole) ELSE whole

ReadBody(header) ==
    IF header.h.status # "ok" THEN header.h
    ELSE IF header.lengths = <<>> THEN Thrown(header.h)
    ELSE CheckEnd(RecordBody(header.h, header.h.consumed + header.lengths[1] + 4))

ReadAfter(first) ==
    IF first.status # "ok" THEN first
    ELSE IF first.line # <<"warc">> THEN Thrown(first)
    ELSE ReadBody(Headers(first, <<>>))

\* The state after Read, with the record in `out` if the status is "ok".
Read(r) ==
    ReadAfter(Line([r |-> [r EXCEPT !.overhang = <<>>], out |-> r.overhang, consumed |-> 0,
                    line |-> <<>>, status |-> "ok"]))

\* What a loop over Read gets out of a file: the records, and how it ends.
RECURSIVE ReadAll(_)
ReadOthers(h) ==
    IF h.status # "ok" THEN [records |-> <<>>, status |-> h.status]
    ELSE LET others == ReadAll(h.r)
         IN  [others EXCEPT !.records = <<h.out>> \o @]
ReadAll(r) == ReadOthers(Read(r))
=============================================================================
