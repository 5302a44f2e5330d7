----------------------- MODULE ThreadedBufferedStream -----------------------
(***************************************************************************)
(* The output stream of util/threaded_buffered_stream.hh.  The owner       *)
(* writes into a block of a ring and hands full blocks to a thread that    *)
(* gives them to the Writer.  Two leases walk the ring, each waiting on    *)
(* the semaphore the other one posts: In() takes blocks from trash_ and    *)
(* posts output_, Out() takes them from output_ and posts trash_.  An      *)
(* empty block tells the thread to stop.                                   *)
(*                                                                         *)
(* Bytes are numbered in the order in which the owner writes them.         *)
(***************************************************************************)
EXTENDS Integers, Sequences

CONSTANTS
    KBlocks,       \* kBlocks, blocks in the ring (3 in the code)
    BlockSize,     \* kBlockSize, bytes of a block
    MaxBytes,      \* bound: number of bytes written in all
    MaxWrite,      \* bound: length of one write()
    WriteMayFail   \* whether the Writer may throw

Blocks == 0..(KBlocks - 1)

ASSUME KBlocksAssumption == KBlocks \in Nat \ {0}
ASSUME BlockSizeAssumption == BlockSize \in Nat \ {0}
ASSUME StreamBoundsAssumption == MaxBytes \in Nat /\ MaxWrite \in Nat /\ WriteMayFail \in BOOLEAN

VARIABLES
    output,        \* semaphore output_: blocks ready for the thread
    trash,         \* semaphore trash_: blocks ready for the owner
    data,          \* content of each block
    size,          \* size field of each block
    inBlock,       \* block of the owner's lease
    outBlock,      \* block of the thread's lease
    mpc,           \* where the owner is
    then,          \* where the owner goes on after SpillBuffer
    left,          \* bytes that the call under way still has to write
    current,       \* current_, relative to the base of the block
    total,         \* bytes accepted so far
    wpc,           \* where the thread is
    sink,          \* bytes the Writer was given
    flushed        \* whether the Writer was flushed

semVars == <<output, trash>>
blockVars == <<data, size, inBlock, outBlock>>
ownerVars == <<mpc, then, left, current, total>>
writerVars == <<wpc, sink, flushed>>
vars == <<semVars, blockVars, ownerVars, writerVars>>

\* The constructor has taken the first block by queue_.In().
Init ==
    /\ output = 0
    /\ trash = KBlocks - 1
    /\ data = [b \in Blocks |-> <<>>]
    /\ size = [b \in Blocks |-> BlockSize]
    /\ inBlock = 0
    /\ outBlock = 0
    /\ mpc = "open"
    /\ then = "open"
    /\ left = 0
    /\ current = 0
    /\ total = 0
    /\ wpc = "waiting"
    /\ sink = <<>>
    /\ flushed = FALSE

NextBlock(b) == IF b + 1 = KBlocks THEN 0 ELSE b + 1

\* The next n bytes of the stream.
Bytes(n) == [i \in 1..n |-> total + i]

\* The owner's content of its block, which it overwrites from the base.
InContent == IF current = 0 THEN <<>> ELSE data[inBlock]

\* memcpy of n bytes to current_.
Copy(n) ==
    /\ data' = [data EXCEPT ![inBlock] = InContent \o Bytes(n)]
    /\ total' = total + n

\* SpillBuffer as it begins: nothing to do for an empty buffer, or a block to
\* publish before going on at label.
Spill(at, label) ==
    \/ /\ at = 0
       /\ mpc' = label
       /\ UNCHANGED then
    \/ /\ at # 0
       /\ mpc' = "publish"
       /\ then' = label

-----------------------------------------------------------------------------
(* The owner *)

\* write(): arbitrary length, copied to the buffer piece by piece.
Write(n) ==
    /\ mpc = "open"
    /\ total + n <= MaxBytes
    /\ left' = n
    /\ mpc' = "write"
    /\ UNCHANGED <<semVars, blockVars, then, current, total, writerVars>>

\* The loop: the block is filled to its end and spilled.
FillBlock ==
    /\ mpc = "write"
    /\ current + left > BlockSize
    /\ Copy(BlockSize - current)
    /\ left' = left - (BlockSize - current)
    /\ current' = BlockSize
    /\ Spill(BlockSize, "write")
    /\ UNCHANGED <<semVars, size, inBlock, outBlock, writerVars>>

\* The rest fits.
CopyRest ==
    /\ mpc = "write"
    /\ current + left <= BlockSize
    /\ Copy(left)
    /\ current' = current + left
    /\ left' = 0
    /\ mpc' = "open"
    /\ UNCHANGED <<semVars, size, inBlock, outBlock, then, writerVars>>

\* Ensure(amount), before an in-place write of at most amount bytes.
Ensure(amount) ==
    /\ mpc = "open"
    /\ total + amount <= MaxBytes
    /\ left' = amount
    /\ \/ /\ current + amount > BlockSize
          /\ Spill(current, "inplace")
       \/ /\ current + amount <= BlockSize
          /\ mpc' = "inplace"
          /\ UNCHANGED then
    /\ UNCHANGED <<semVars, blockVars, current, total, writerVars>>

\* AdvanceTo, after n bytes were put in place.
AdvanceTo(n) ==
    /\ mpc = "inplace"
    /\ n <= left
    /\ Copy(n)
    /\ current' = current + n
    /\ left' = 0
    /\ mpc' = "open"
    /\ UNCHANGED <<semVars, size, inBlock, outBlock, then, writerVars>>

\* Slip: the destructor does not spill the last bytes.
CloseWithoutSpill ==
    /\ mpc = "open"
    /\ mpc' = "poison"
    /\ UNCHANGED <<semVars, blockVars, then, left, current, total, writerVars>>

\* The destructor begins with SpillBuffer.
Close ==
    /\ mpc = "open"
    /\ Spill(current, "poison")
    /\ UNCHANGED <<semVars, blockVars, left, current, total, writerVars>>

\* SpillBuffer: the size is set, the lease moves on and output_ is posted.
Publish ==
    /\ mpc = "publish"
    /\ size' = [size EXCEPT ![inBlock] = current]
    /\ inBlock' = NextBlock(inBlock)
    /\ output' = output + 1
    /\ mpc' = "acquire"
    /\ UNCHANGED <<trash, data, outBlock, then, left, current, total, writerVars>>

\* Slip: SuccessNext does not wait for the block it moves to.
AcquireNoWait ==
    /\ mpc = "acquire"
    /\ current' = 0
    /\ mpc' = then
    /\ UNCHANGED <<semVars, blockVars, then, left, total, writerVars>>

\* ... and it waits for the next block to be free.
Acquire ==
    /\ mpc = "acquire"
    /\ trash > 0
    /\ trash' = trash - 1
    /\ current' = 0
    /\ mpc' = then
    /\ UNCHANGED <<output, blockVars, then, left, total, writerVars>>

\* Slip: the thread is joined without being told to stop.
PoisonForgotten ==
    /\ mpc = "poison"
    /\ mpc' = "join"
    /\ then' = "join"
    /\ UNCHANGED <<semVars, blockVars, left, current, total, writerVars>>

\* The destructor publishes an empty block ...
Poison ==
    /\ mpc = "poison"
    /\ size' = [size EXCEPT ![inBlock] = 0]
    /\ inBlock' = NextBlock(inBlock)
    /\ output' = output + 1
    /\ mpc' = "acquire"
    /\ then' = "join"
    /\ UNCHANGED <<trash, data, outBlock, left, current, total, writerVars>>

\* ... and waits for the thread.
Join ==
    /\ mpc = "join"
    /\ wpc = "exited"
    /\ mpc' = "destroyed"
    /\ UNCHANGED <<semVars, blockVars, then, left, current, total, writerVars>>

Owner ==
    \/ \E n \in 0..MaxWrite : Write(n)
    \/ FillBlock
    \/ CopyRest
    \/ \E n \in 1..BlockSize : Ensure(n)
    \/ \E n \in 1..BlockSize : AdvanceTo(n)
    \/ Close
    \/ Publish
    \/ Acquire
    \/ Poison
    \/ Join

-----------------------------------------------------------------------------
(* The thread *)

\* queue_.Out() and SuccessNext wait for a block of the owner.
WaitOutput ==
    /\ wpc = "waiting"
    /\ output > 0
    /\ output' = output - 1
    /\ wpc' = "testing"
    /\ UNCHANGED <<trash, blockVars, ownerVars, sink, flushed>>

\* A block with bytes is given to the Writer, which reads it meanwhile ...
BeginWrite ==
    /\ wpc = "testing"
    /\ size[outBlock] # 0
    /\ wpc' = "writing"
    /\ UNCHANGED <<semVars, blockVars, ownerVars, sink, flushed>>

\* ... and then goes back to the owner.
EndWrite ==
    /\ wpc = "writing"
    /\ sink' = sink \o SubSeq(data[outBlock], 1, size[outBlock])
    /\ outBlock' = NextBlock(outBlock)
    /\ trash' = trash + 1
    /\ wpc' = "waiting"
    /\ UNCHANGED <<output, data, size, inBlock, ownerVars, flushed>>

\* The Writer throws: the exception leaves the thread and ends the process.
WriterThrows ==
    /\ WriteMayFail
    /\ wpc = "writing"
    /\ wpc' = "terminated"
    /\ mpc' = "terminated"
    /\ UNCHANGED <<semVars, blockVars, then, left, current, total, sink, flushed>>

\* An empty block ends the loop: the lease is given back, the Writer flushed.
Exit ==
    /\ wpc = "testing"
    /\ size[outBlock] = 0
    /\ output' = output + 1
    /\ flushed' = TRUE
    /\ wpc' = "exited"
    /\ UNCHANGED <<trash, blockVars, ownerVars, sink>>

Writer ==
    \/ WaitOutput
    \/ BeginWrite
    \/ EndWrite
    \/ WriterThrows
    \/ Exit

Next == Owner \/ Writer

Spec == Init /\ [][Next]_vars

(* The thread runs, and the owner does not stop inside a call or in the      *)
(* destructor; the scope of the stream ends, so it is destroyed eventually.  *)
FairSpec ==
    /\ Spec
    /\ WF_vars(Writer)
    /\ WF_vars(Owner)
    /\ SF_vars(Close)

-----------------------------------------------------------------------------
(* Properties *)

\* Type invariant of the ring, the owner and the thread.
TypeOK ==
    /\ output \in Nat /\ trash \in Nat
    /\ data \in [Blocks -> Seq(1..MaxBytes)]
    /\ size \in [Blocks -> 0..BlockSize]
    /\ inBlock \in Blocks /\ outBlock \in Blocks
    /\ mpc \in {"open", "write", "inplace", "publish", "acquire", "poison", "join",
                "destroyed", "terminated"}
    /\ then \in {"open", "write", "inplace", "poison", "join"}
    /\ left \in 0..MaxBytes
    /\ current \in 0..BlockSize
    /\ total \in 0..MaxBytes
    /\ wpc \in {"waiting", "testing", "writing", "exited", "terminated"}
    /\ sink \in Seq(1..MaxBytes)
    /\ flushed \in BOOLEAN

\* The owner fills and the thread drains different blocks at all times.
NoBlockRace ==
    wpc \in {"testing", "writing"} /\ mpc \notin {"acquire", "terminated"} => inBlock # outBlock

\* Whatever the Writer was given so far is the beginning of what was written:
\* blocks are neither lost nor repeated nor reused before they were drained.
SinkIsPrefix == sink = [i \in 1..Len(sink) |-> i]

\* The thread stops for the destructor only, with everything written and
\* flushed: an empty block never reaches it earlier.
StopsComplete ==
    /\ wpc = "exited" => then = "join" /\ flushed
    /\ mpc = "destroyed" => Len(sink) = total

\* Neither side waits for a post that cannot come: when the owner waits for a
\* free block or for the end of the thread, there is one, or the thread is at
\* work, or the thread has a block to go on with.  This takes two blocks (the
\* code has three): with one the owner would wait for ever behind the empty block
\* it published.
NeverStuck ==
    LET ThreadGoesOn == wpc \in {"testing", "writing"} \/ (wpc = "waiting" /\ output > 0)
    IN  /\ mpc = "acquire" /\ KBlocks > 1 => trash > 0 \/ ThreadGoesOn
        /\ mpc = "join" => wpc = "exited" \/ ThreadGoesOn

\* The ring of blocks at every moment: types, no block is lost, repeated or
\* touched from both sides, the two sides never wait for each other, and the
\* thread ends only when all is written.
Safety == TypeOK /\ NoBlockRace /\ SinkIsPrefix /\ NeverStuck /\ StopsComplete

\* The destructor returns, unless an error of the Writer ended the process.
EventuallyDestroyed == <>(mpc \in {"destroyed", "terminated"})
=============================================================================
