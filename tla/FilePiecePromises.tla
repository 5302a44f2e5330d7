------------------------- MODULE FilePiecePromises -------------------------
(***************************************************************************)
(* What comments say of util/file_piece.cc and the code does not do.  A    *)
(* program reads one file after the other through a FilePiece, each until  *)
(* one of the promises has been broken by it.                              *)
(***************************************************************************)
EXTENDS FilePiece

VARIABLE kept    \* the promises that no file has broken yet

Promises == {"LinesWithoutCr", "GetsUntilEnd", "SearchInWindow"}

Broken ==
    {p \in Promises : CASE p = "LinesWithoutCr" -> ~LinesWithoutCr
                        [] p = "GetsUntilEnd" -> ~GetsUntilEnd
                        [] p = "SearchInWindow" -> ~SearchInWindow}

ReadOn == Broken = {} /\ Next /\ UNCHANGED kept

\* The FilePiece is destroyed and another one made for the next file.
NextFile ==
    /\ Broken \cap kept # {}
    /\ kept' = kept \ Broken
    /\ file' \in Files
    /\ kind' \in Kinds
    /\ fallback' = (kind' = "pipe")
    /\ data' = <<>> /\ pos' = 0 /\ offset' = 0
    /\ mapSize' = 2 * PageSize
    /\ atEnd' = FALSE
    /\ lastSpace' = 0
    /\ taken' = 0
    /\ op' = "open" /\ skip' = 0 /\ from' = 0
    /\ last' = NoText

PromisesInit == Init /\ kept = Promises
PromisesSpec == PromisesInit /\ [][ReadOn \/ NextFile]_<<vars, kept>>

\* At least one of these promises holds for every file: LinesWithoutCr ("any
\* trailing carriate return [...] will be left out of the returned line",
\* util/file_piece.hh:129), GetsUntilEnd ("End of file reached.",
\* util/file.hh:75) or SearchInWindow ("Notice an mmap failure might set the
\* fallback.", util/file_piece.cc:261).
SomePromiseKept == kept # {}
=============================================================================
