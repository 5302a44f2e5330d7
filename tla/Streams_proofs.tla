---------------------------- MODULE Streams_proofs ----------------------------
(***************************************************************************)
(* Proofs about the two streams of the tools, which shard puts one on top  *)
(* of the other (ThreadedBufferedStream<WriteCompressed>): the output      *)
(* stream of util/threaded_buffered_stream.hh for every number and size of *)
(* blocks and every sequence of writes, and the compressed files of        *)
(* util/compress.cc for every file, every format, every size of the        *)
(* buffers and every sequence of calls.                                    *)
(***************************************************************************)
EXTENDS Compress, ThreadedBufferedStream, SequenceTheorems, FunctionTheorems,
        FiniteSetTheorems, WellFoundedInduction, TLAPS

-----------------------------------------------------------------------------
(* The output stream *)

\* Blocks that the owner published and the thread did not give back.
Published == output + (IF wpc \in {"testing", "writing"} THEN 1 ELSE 0)

\* Bytes in the owner's block that it did not publish.
Unspilled == IF mpc = "acquire" THEN 0 ELSE current

\* The j-th block of the ring from the block of the thread's lease.
Pos(j) == IF outBlock + j >= KBlocks THEN outBlock + j - KBlocks ELSE outBlock + j

\* Number of the bytes that come before the j-th pending block.
Before(j) ==
    IF j = Published THEN total - Unspilled
    ELSE IF size[Pos(j)] = 0 THEN total ELSE data[Pos(j)][1] - 1

\* An error of the Writer ends both sides at once.
EndTogether == wpc = "terminated" <=> mpc = "terminated"

\* Every block is free, published or the owner's, and the two leases are as
\* far apart as there are published blocks.
Accounting ==
    /\ trash + Published + (IF mpc = "acquire" THEN 0 ELSE 1) = KBlocks
    /\ inBlock = Pos(Published)

\* What the owner knows at each place of its calls.
OwnerAt ==
    /\ total + left <= MaxBytes
    /\ mpc = "publish" => current > 0
    /\ mpc \in {"poison", "join", "destroyed"} => current = 0
    /\ mpc = "inplace" => current + left <= BlockSize
    /\ then = "inplace" /\ mpc \in {"publish", "acquire"} => left <= BlockSize
    /\ then = "join" => mpc \in {"acquire", "join", "destroyed"}
    /\ mpc \in {"join", "destroyed"} => then = "join"

\* The owner's block holds the bytes accepted last.
OwnerBlock ==
    mpc # "acquire" /\ current > 0 =>
        /\ Len(data[inBlock]) = current
        /\ \A i \in 1..current : data[inBlock][i] = total - current + i

\* The published blocks hold the bytes between the sink and the owner's block,
\* in order; only the last one may be empty, and it is once the stream closes.
PendingBlocks ==
    /\ Before(0) = Len(sink)
    /\ then = "join" => Published > 0
    /\ \A j \in 0..(Published - 1) :
          /\ Before(j + 1) = Before(j) + size[Pos(j)]
          /\ Len(data[Pos(j)]) >= size[Pos(j)]
          /\ \A i \in 1..size[Pos(j)] : data[Pos(j)][i] = Before(j) + i
          /\ size[Pos(j)] = 0 <=> then = "join" /\ j = Published - 1

\* The thread writes no empty block, and leaves at the empty block only.
ThreadAt ==
    /\ wpc = "writing" => size[outBlock] # 0
    /\ wpc = "exited" => then = "join" /\ flushed /\ Len(sink) = total /\ Published = 1
    /\ mpc = "destroyed" => wpc = "exited"

Running == Accounting /\ OwnerAt /\ OwnerBlock /\ PendingBlocks /\ ThreadAt

StreamInv ==
    /\ TypeOK
    /\ EndTogether
    /\ SinkIsPrefix
    /\ mpc # "terminated" => Running

-----------------------------------------------------------------------------
(* The ring *)

\* Positions of the ring are blocks, and different ones are different blocks.
LEMMA PosRing ==
  ASSUME outBlock \in Blocks
  PROVE  /\ \A j \in 0..KBlocks : Pos(j) \in Blocks
         /\ Pos(0) = outBlock
         /\ \A j \in 0..(KBlocks - 1) : Pos(j + 1) = NextBlock(Pos(j))
         /\ \A j, k \in 0..(KBlocks - 1) : j # k => Pos(j) # Pos(k)
  BY KBlocksAssumption DEF Pos, Blocks, NextBlock

\* There are no more pending blocks than blocks, and the owner's is not pending.
LEMMA PendingRange ==
  ASSUME TypeOK, Accounting
  PROVE  /\ Published \in 0..KBlocks
         /\ mpc # "acquire" => Published < KBlocks
         /\ mpc # "acquire" => \A j \in 0..(Published - 1) : Pos(j) # inBlock
         /\ \A j \in 0..Published : Pos(j) \in Blocks
         /\ Published \in Int
         /\ wpc \in {"testing", "writing"} => Published > 0
  <1> USE KBlocksAssumption
  <1>1. /\ Published \in 0..KBlocks
        /\ mpc # "acquire" => Published < KBlocks
        /\ wpc \in {"testing", "writing"} => Published > 0
    BY DEF TypeOK, Accounting, Published
  <1>2. mpc # "acquire" => \A j \in 0..(Published - 1) : Pos(j) # inBlock
    BY <1>1, PosRing DEF TypeOK, Accounting
  <1>3. \A j \in 0..Published : Pos(j) \in Blocks
    BY <1>1, PosRing DEF TypeOK
  <1> QED BY <1>1, <1>2, <1>3

\* What comes before the pending blocks is a number of bytes.
LEMMA BeforeInt ==
  ASSUME TypeOK, Accounting, PendingBlocks
  PROVE  \A j \in 0..Published : Before(j) \in Int
  <1> SUFFICES ASSUME NEW j \in 0..Published PROVE Before(j) \in Int
    OBVIOUS
  <1>1. Pos(j) \in Blocks /\ Published \in Int
    BY PendingRange
  <1>2. CASE j = Published
    BY <1>2 DEF Before, Unspilled, TypeOK
  <1>3. CASE j # Published /\ size[Pos(j)] = 0
    BY <1>3 DEF Before, TypeOK
  <1>4. CASE j # Published /\ size[Pos(j)] # 0
    <2>1. j \in 0..(Published - 1)
      BY <1>1, <1>4
    <2>2. Len(data[Pos(j)]) >= size[Pos(j)] /\ size[Pos(j)] \in Nat /\ data[Pos(j)] \in Seq(1..MaxBytes)
      BY <1>1, <2>1 DEF PendingBlocks, TypeOK
    <2>3. 1 \in 1..Len(data[Pos(j)])
      BY <2>2, <1>4
    <2>4. data[Pos(j)][1] \in 1..MaxBytes
      <3> DEFINE s == data[Pos(j)]
      <3>1. s \in Seq(1..MaxBytes) /\ 1 \in 1..Len(s)
        BY <2>2, <2>3
      <3> HIDE DEF s
      <3>2. s[1] \in 1..MaxBytes
        BY <3>1, ElementOfSeq
      <3> QED BY <3>2 DEF s
    <2> QED BY <2>4, <1>4 DEF Before
  <1> QED BY <1>2, <1>3, <1>4

\* A step that leaves the pending blocks and what surrounds them alone.
LEMMA PendingKept ==
  ASSUME TypeOK, Accounting, PendingBlocks,
         outBlock' = outBlock, size' = size, sink' = sink, Published' = Published,
         total' - Unspilled' = total - Unspilled,
         then # "join" \/ total' = total,
         then = "join" <=> then' = "join",
         \A j \in 0..(Published - 1) : data'[Pos(j)] = data[Pos(j)]
  PROVE  PendingBlocks'
  <1>1. /\ Published \in 0..KBlocks /\ Published \in Int
        /\ \A j \in 0..Published : Pos(j) \in Blocks /\ Before(j) \in Int
    BY PendingRange, BeforeInt
  <1>2. \A j : Pos(j)' = Pos(j)
    BY DEF Pos
  <1>3. \A j \in 0..Published : Before(j)' = Before(j)
    <2> SUFFICES ASSUME NEW j \in 0..Published PROVE Before(j)' = Before(j)
      OBVIOUS
    <2>1. CASE j = Published
      BY <2>1 DEF Before
    <2>2. CASE j # Published
      <3>1. j \in 0..(Published - 1)
        BY <1>1, <2>2
      <3>2. size[Pos(j)] = 0 => total' = total
        BY <3>1 DEF PendingBlocks
      <3>3. Before(j)' = IF size[Pos(j)] = 0 THEN total' ELSE data'[Pos(j)][1] - 1
        BY <1>2, <2>2 DEF Before
      <3>4. Before(j) = IF size[Pos(j)] = 0 THEN total ELSE data[Pos(j)][1] - 1
        BY <2>2 DEF Before
      <3> QED BY <3>1, <3>2, <3>3, <3>4
    <2> QED BY <2>1, <2>2
  <1>4. Before(0)' = Len(sink') /\ (then' = "join" => Published' > 0)
    BY <1>1, <1>3 DEF PendingBlocks
  <1>5. ASSUME NEW j \in 0..(Published - 1)
        PROVE  /\ Before(j + 1)' = Before(j)' + size'[Pos(j)']
               /\ Len(data'[Pos(j)']) >= size'[Pos(j)']
               /\ \A i \in 1..size'[Pos(j)'] : data'[Pos(j)'][i] = Before(j)' + i
               /\ size'[Pos(j)'] = 0 <=> then' = "join" /\ j = Published' - 1
    <2>1. j \in 0..Published /\ j + 1 \in 0..Published
      BY <1>1
    <2>2. Before(j)' = Before(j) /\ Before(j + 1)' = Before(j + 1) /\ Pos(j)' = Pos(j)
      BY <2>1, <1>2, <1>3
    <2> QED BY <2>2 DEF PendingBlocks
  <1> QED BY <1>4, <1>5 DEF PendingBlocks

-----------------------------------------------------------------------------
(* The owner *)

\* The invariant holds initially.
LEMMA StreamInit == Init => StreamInv
  <1> SUFFICES ASSUME Init PROVE StreamInv
    OBVIOUS
  <1> USE KBlocksAssumption, BlockSizeAssumption, StreamBoundsAssumption DEF Init
  <1>1. TypeOK
    <2>1. <<>> \in Seq(1..MaxBytes) /\ 0 \in Blocks
      BY DEF Blocks
    <2>2. data \in [Blocks -> Seq(1..MaxBytes)] /\ size \in [Blocks -> 0..BlockSize]
      BY <2>1
    <2>3. /\ sink \in Seq(1..MaxBytes) /\ inBlock \in Blocks /\ outBlock \in Blocks
          /\ left \in 0..MaxBytes /\ total \in 0..MaxBytes /\ current \in 0..BlockSize
          /\ output \in Nat /\ trash \in Nat
      BY <2>1
    <2> QED BY <2>2, <2>3 DEF TypeOK
  <1>2. Published = 0 /\ Unspilled = 0 /\ Pos(0) = 0
    BY DEF Published, Unspilled, Pos
  <1>3. Accounting /\ OwnerAt /\ OwnerBlock /\ ThreadAt
    BY <1>2 DEF Accounting, OwnerAt, OwnerBlock, ThreadAt
  <1>4. PendingBlocks
    BY <1>2 DEF PendingBlocks, Before
  <1> QED BY <1>1, <1>3, <1>4 DEF StreamInv, Running, EndTogether, SinkIsPrefix

\* Copying n bytes that fit leaves the bytes accepted last in the block.
LEMMA CopyFills ==
  ASSUME TypeOK, OwnerBlock, mpc # "acquire", NEW n \in 0..(BlockSize - current),
         total + n <= MaxBytes, Copy(n)
  PROVE  /\ data' \in [Blocks -> Seq(1..MaxBytes)]
         /\ \A b \in Blocks : b # inBlock => data'[b] = data[b]
         /\ Len(data'[inBlock]) = current + n
         /\ \A i \in 1..(current + n) : data'[inBlock][i] = (total + n) - (current + n) + i
         /\ total' \in 0..MaxBytes
  <1> USE StreamBoundsAssumption, BlockSizeAssumption
  <1> DEFINE old == InContent
             new == Bytes(n)
  <1>1. /\ n \in Nat /\ current \in Nat /\ total \in Nat
        /\ inBlock \in Blocks /\ data[inBlock] \in Seq(1..MaxBytes)
    BY DEF TypeOK
  <1>2. /\ old \in Seq(1..MaxBytes) /\ Len(old) = current
        /\ \A i \in 1..current : old[i] = total - current + i
    <2>1. CASE current = 0
      BY <2>1 DEF InContent
    <2>2. CASE current # 0
      BY <1>1, <2>2 DEF InContent, OwnerBlock
    <2> QED BY <2>1, <2>2
  <1>3. /\ new \in Seq(1..MaxBytes) /\ Len(new) = n
        /\ \A i \in 1..n : new[i] = total + i
    <2>1. \A i \in 1..n : total + i \in 1..MaxBytes
      BY <1>1
    <2> QED BY <1>1, <2>1 DEF Bytes
  <1>4. data' = [data EXCEPT ![inBlock] = old \o new] /\ total' = total + n
    BY DEF Copy
  <1> HIDE DEF old, new
  <1>5. /\ old \o new \in Seq(1..MaxBytes) /\ Len(old \o new) = current + n
        /\ \A i \in 1..(current + n) :
              (old \o new)[i] = IF i <= current THEN old[i] ELSE new[i - current]
    BY <1>1, <1>2, <1>3, ConcatProperties
  <1>6. \A i \in 1..(current + n) : (old \o new)[i] = (total + n) - (current + n) + i
    <2> SUFFICES ASSUME NEW i \in 1..(current + n)
                 PROVE  (old \o new)[i] = (total + n) - (current + n) + i
      OBVIOUS
    <2>1. CASE i <= current
      <3>1. i \in 1..current
        BY <1>1, <2>1
      <3> QED BY <1>1, <1>2, <1>5, <2>1, <3>1
    <2>2. CASE ~(i <= current)
      <3>1. i - current \in 1..n /\ i \in Int
        BY <1>1, <2>2
      <3>2. (old \o new)[i] = total + (i - current)
        BY <1>3, <1>5, <2>2, <3>1
      <3> QED BY <1>1, <3>1, <3>2
    <2> QED BY <2>1, <2>2
  <1>7. data'[inBlock] = old \o new /\ \A b \in Blocks : b # inBlock => data'[b] = data[b]
    BY <1>1, <1>4 DEF TypeOK
  <1>8. data' \in [Blocks -> Seq(1..MaxBytes)]
    BY <1>4, <1>5 DEF TypeOK
  <1>9. total' \in 0..MaxBytes
    BY <1>1, <1>4
  <1> QED BY <1>5, <1>6, <1>7, <1>8, <1>9

\* What a step of the owner inside its block has to show.
LEMMA OwnerStep ==
  ASSUME StreamInv, mpc \notin {"terminated", "acquire"}, mpc' # "terminated",
         UNCHANGED <<semVars, size, inBlock, outBlock, writerVars>>,
         TypeOK', OwnerAt', OwnerBlock',
         mpc' # "acquire",
         then # "join" \/ total' = total,
         total' - current' = total - current,
         then = "join" <=> then' = "join",
         mpc' = "destroyed" => wpc = "exited",
         \A b \in Blocks : b # inBlock => data'[b] = data[b]
  PROVE  StreamInv'
  <1> USE DEF StreamInv, Running, semVars, writerVars
  <1>1. Published' = Published /\ \A j : Pos(j)' = Pos(j)
    BY DEF Published, Pos
  <1>2. Accounting' /\ EndTogether' /\ SinkIsPrefix'
    BY <1>1 DEF Accounting, EndTogether, SinkIsPrefix
  <1>3. \A j \in 0..(Published - 1) : data'[Pos(j)] = data[Pos(j)]
    BY PendingRange
  <1>4. PendingBlocks'
    BY <1>1, <1>3, PendingKept DEF Unspilled
  <1>5. ThreadAt'
    BY <1>1 DEF ThreadAt, OwnerAt
  <1> QED BY <1>2, <1>4, <1>5

\* write(), Ensure and the destructor begin.
LEMMA StepBegin ==
  ASSUME StreamInv,
         \/ \E n \in 0..MaxWrite : Write(n)
         \/ \E n \in 1..BlockSize : Ensure(n)
         \/ Close
         \/ Join
  PROVE  StreamInv'
  <1> USE KBlocksAssumption, BlockSizeAssumption, StreamBoundsAssumption
  <1>1. CASE \E n \in 0..MaxWrite : Write(n)
    <2>1. TypeOK' /\ OwnerAt' /\ OwnerBlock'
      BY <1>1 DEF StreamInv, Running, Write, TypeOK, OwnerAt, OwnerBlock, semVars, blockVars, writerVars
    <2> QED BY <1>1, <2>1, OwnerStep DEF Write, blockVars, StreamInv, TypeOK
  <1>2. CASE \E n \in 1..BlockSize : Ensure(n)
    <2>1. TypeOK' /\ OwnerAt' /\ OwnerBlock'
      BY <1>2 DEF StreamInv, Running, Ensure, Spill, TypeOK, OwnerAt, OwnerBlock, semVars, blockVars, writerVars
    <2>2. mpc = "open" /\ then # "join" /\ then' # "join"
      BY <1>2 DEF Ensure, Spill, StreamInv, Running, OwnerAt
    <2> QED BY <1>2, <2>1, <2>2, OwnerStep DEF Ensure, Spill, blockVars, StreamInv, TypeOK
  <1>3. CASE Close
    <2>1. TypeOK' /\ OwnerAt' /\ OwnerBlock'
      BY <1>3 DEF StreamInv, Running, Close, Spill, TypeOK, OwnerAt, OwnerBlock, semVars, blockVars, writerVars
    <2>2. mpc = "open" /\ then # "join" /\ then' # "join"
      BY <1>3 DEF Close, Spill, StreamInv, Running, OwnerAt
    <2> QED BY <1>3, <2>1, <2>2, OwnerStep DEF Close, Spill, blockVars, StreamInv, TypeOK
  <1>4. CASE Join
    <2>1. TypeOK' /\ OwnerAt' /\ OwnerBlock'
      BY <1>4 DEF StreamInv, Running, Join, TypeOK, OwnerAt, OwnerBlock, semVars, blockVars, writerVars
    <2> QED BY <1>4, <2>1, OwnerStep DEF Join, blockVars, StreamInv, TypeOK
  <1> QED BY <1>1, <1>2, <1>3, <1>4

\* Bytes are copied to the owner's block.
LEMMA StepCopy ==
  ASSUME StreamInv,
         \/ FillBlock
         \/ CopyRest
         \/ \E n \in 1..BlockSize : AdvanceTo(n)
  PROVE  StreamInv'
  <1> USE KBlocksAssumption, BlockSizeAssumption, StreamBoundsAssumption
  <1>1. CASE FillBlock
    <2> DEFINE n == BlockSize - current
    <2>1. n \in 0..(BlockSize - current) /\ total + n <= MaxBytes /\ mpc = "write" /\ then # "join"
      BY <1>1 DEF FillBlock, StreamInv, Running, TypeOK, OwnerAt
    <2>2. /\ data' \in [Blocks -> Seq(1..MaxBytes)]
          /\ \A b \in Blocks : b # inBlock => data'[b] = data[b]
          /\ Len(data'[inBlock]) = current + n
          /\ \A i \in 1..(current + n) : data'[inBlock][i] = (total + n) - (current + n) + i
          /\ total' \in 0..MaxBytes /\ total' = total + n
      BY <1>1, <2>1, CopyFills DEF FillBlock, Copy, StreamInv, Running
    <2>3. /\ current' = current + n /\ left' = left - n
          /\ mpc' = "publish" /\ then' = "write"
          /\ UNCHANGED <<semVars, size, inBlock, outBlock, writerVars>>
      BY <1>1, <2>1 DEF FillBlock, Spill, StreamInv, TypeOK
    <2>4. TypeOK'
      BY <1>1, <2>1, <2>2, <2>3 DEF StreamInv, TypeOK, FillBlock, semVars, writerVars
    <2>5. OwnerAt' /\ OwnerBlock'
      BY <1>1, <2>1, <2>2, <2>3 DEF StreamInv, Running, TypeOK, OwnerAt, OwnerBlock, FillBlock
    <2>6. total' - current' = total - current
      BY <2>1, <2>2, <2>3 DEF StreamInv, TypeOK
    <2> QED BY <2>1, <2>2, <2>3, <2>4, <2>5, <2>6, OwnerStep
  <1>2. ASSUME NEW n \in 0..BlockSize, n <= left, current + n <= BlockSize,
               mpc \in {"write", "inplace"}, Copy(n),
               current' = current + n, left' = 0, mpc' = "open",
               UNCHANGED <<semVars, size, inBlock, outBlock, then, writerVars>>
        PROVE  StreamInv'
    <2>1. n \in 0..(BlockSize - current) /\ total + n <= MaxBytes /\ then # "join"
      BY <1>2 DEF StreamInv, Running, TypeOK, OwnerAt
    <2>2. /\ data' \in [Blocks -> Seq(1..MaxBytes)]
          /\ \A b \in Blocks : b # inBlock => data'[b] = data[b]
          /\ Len(data'[inBlock]) = current + n
          /\ \A i \in 1..(current + n) : data'[inBlock][i] = (total + n) - (current + n) + i
          /\ total' \in 0..MaxBytes /\ total' = total + n
      BY <1>2, <2>1, CopyFills DEF Copy, StreamInv, Running
    <2>4. TypeOK'
      BY <1>2, <2>1, <2>2 DEF StreamInv, TypeOK, semVars, writerVars
    <2>5. OwnerAt' /\ OwnerBlock'
      BY <1>2, <2>1, <2>2 DEF StreamInv, Running, TypeOK, OwnerAt, OwnerBlock
    <2>6. total' - current' = total - current
      BY <1>2, <2>1, <2>2 DEF StreamInv, TypeOK
    <2> QED BY <1>2, <2>1, <2>2, <2>4, <2>5, <2>6, OwnerStep
  <1>3. CASE CopyRest
    BY <1>2, <1>3 DEF CopyRest, StreamInv, TypeOK
  <1>4. CASE \E n \in 1..BlockSize : AdvanceTo(n)
    <2>1. PICK n \in 1..BlockSize : AdvanceTo(n)
      BY <1>4
    <2>2. n \in 0..BlockSize /\ n <= left /\ current + n <= BlockSize
      BY <2>1 DEF AdvanceTo, StreamInv, Running, TypeOK, OwnerAt
    <2> QED BY <1>2, <2>1, <2>2 DEF AdvanceTo
  <1> QED BY <1>1, <1>3, <1>4

\* A block is published: it is the last pending one from then on.
LEMMA StepPublish ==
  ASSUME StreamInv, Publish \/ Poison
  PROVE  StreamInv'
  <1> USE KBlocksAssumption, BlockSizeAssumption, StreamBoundsAssumption
  <1>1. /\ TypeOK /\ Accounting /\ OwnerAt /\ OwnerBlock /\ PendingBlocks /\ ThreadAt
        /\ EndTogether /\ SinkIsPrefix
        /\ mpc \in {"publish", "poison"} /\ then # "join"
    BY DEF StreamInv, Running, OwnerAt, Publish, Poison
  <1>2. /\ size' = [size EXCEPT ![inBlock] = current]
        /\ inBlock' = NextBlock(inBlock) /\ output' = output + 1 /\ mpc' = "acquire"
        /\ UNCHANGED <<trash, data, outBlock, left, current, total, writerVars>>
        /\ then' = "join" <=> current = 0
        /\ then' \in {then, "join"}
    BY <1>1 DEF Publish, Poison, OwnerAt, TypeOK
  <1>3. /\ Published \in 0..(KBlocks - 1) /\ inBlock = Pos(Published)
        /\ \A j \in 0..(Published - 1) : Pos(j) # inBlock
        /\ \A j \in 0..Published : Pos(j) \in Blocks /\ Before(j) \in Int
    BY <1>1, PendingRange, BeforeInt DEF Accounting
  <1>4. Published' = Published + 1 /\ \A j : Pos(j)' = Pos(j)
    BY <1>1, <1>2 DEF Published, Pos, writerVars, TypeOK
  <1>0. PICK m \in 0..(KBlocks - 1) : m = Published
    BY <1>3
  <1>5. inBlock' = Pos(m + 1) /\ inBlock' \in Blocks
    BY <1>1, <1>2, <1>3, <1>0, PosRing DEF TypeOK
  <1>6. TypeOK'
    BY <1>1, <1>2, <1>5 DEF TypeOK, writerVars
  <1>7. Accounting'
    BY <1>0, <1>1, <1>2, <1>4, <1>5 DEF Accounting, TypeOK
  <1>8. OwnerAt' /\ OwnerBlock' /\ EndTogether' /\ SinkIsPrefix'
    BY <1>1, <1>2 DEF OwnerAt, OwnerBlock, EndTogether, SinkIsPrefix, writerVars, Publish, Poison
  <1>9. size'[inBlock] = current /\ \A j \in 0..(Published - 1) : size'[Pos(j)] = size[Pos(j)]
    BY <1>1, <1>2, <1>3 DEF TypeOK
  <1>10. Before(m)' = total - current /\ Before(m + 1)' = total
    <2>1. Before(m + 1)' = total
      BY <1>0, <1>1, <1>2, <1>4 DEF Before, Unspilled, TypeOK
    <2>2. Before(m)' = IF current = 0 THEN total ELSE data[inBlock][1] - 1
      <3>1. m # Published' /\ Pos(m)' = inBlock
        BY <1>0, <1>3, <1>4
      <3>2. size'[Pos(m)'] = current /\ data' = data /\ total' = total
        BY <1>2, <1>9, <3>1
      <3> QED BY <3>1, <3>2 DEF Before
    <2>3. CASE current = 0
      BY <1>1, <2>1, <2>2, <2>3 DEF TypeOK
    <2>4. CASE current # 0
      <3>1. 1 \in 1..current /\ current > 0 /\ total \in Int /\ current \in Int
        BY <1>1, <2>4 DEF TypeOK
      <3>2. data[inBlock][1] = total - current + 1
        BY <1>1, <3>1 DEF OwnerBlock
      <3> QED BY <2>1, <2>2, <2>4, <3>1, <3>2
    <2> QED BY <2>3, <2>4
  <1>11. \A j \in 0..Published : Before(j)' = Before(j)
    <2> SUFFICES ASSUME NEW j \in 0..Published PROVE Before(j)' = Before(j)
      OBVIOUS
    <2>1. CASE j = Published
      BY <1>0, <1>1, <1>10, <2>1 DEF Before, Unspilled
    <2>2. CASE j # Published
      <3>1. j \in 0..(Published - 1) /\ j # Published + 1
        BY <1>3, <2>2
      <3>2. size[Pos(j)] # 0
        BY <1>1, <3>1 DEF PendingBlocks
      <3> QED BY <1>2, <1>4, <1>9, <2>2, <3>1, <3>2 DEF Before
    <2> QED BY <2>1, <2>2
  <1>12. PendingBlocks'
    <2>1. Before(0)' = Len(sink') /\ (then' = "join" => Published' > 0)
      BY <1>1, <1>2, <1>3, <1>4, <1>11 DEF PendingBlocks, writerVars
    <2>2. ASSUME NEW j \in 0..(Published' - 1)
          PROVE  /\ Before(j + 1)' = Before(j)' + size'[Pos(j)']
                 /\ Len(data'[Pos(j)']) >= size'[Pos(j)']
                 /\ \A i \in 1..size'[Pos(j)'] : data'[Pos(j)'][i] = Before(j)' + i
                 /\ size'[Pos(j)'] = 0 <=> then' = "join" /\ j = Published' - 1
      <3>1. CASE j = Published
        <4>1. Pos(j)' = inBlock /\ Before(j)' = total - current /\ Before(j + 1)' = total
              /\ total \in Int /\ current \in Nat /\ j = Published' - 1
          BY <1>0, <1>1, <1>3, <1>4, <1>10, <3>1 DEF TypeOK
        <4>2. Len(data[inBlock]) >= current /\ \A i \in 1..current : data[inBlock][i] = total - current + i
          BY <1>1, <4>1 DEF OwnerBlock, TypeOK
        <4> QED BY <1>2, <1>9, <4>1, <4>2
      <3>2. CASE j # Published
        <4>1. j \in 0..(Published - 1) /\ j \in 0..Published /\ j + 1 \in 0..Published /\ j # Published' - 1
          BY <1>3, <1>4, <3>2
        <4>2. Pos(j)' = Pos(j) /\ Before(j)' = Before(j) /\ Before(j + 1)' = Before(j + 1)
          BY <1>4, <1>11, <4>1
        <4> QED BY <1>1, <1>2, <1>9, <4>1, <4>2 DEF PendingBlocks
      <3> QED BY <3>1, <3>2
    <2> QED BY <2>1, <2>2 DEF PendingBlocks
  <1>13. ThreadAt'
    <2>1. wpc = "writing" => size'[outBlock] = size[outBlock]
      <3>1. wpc = "writing" => 0 \in 0..(Published - 1) /\ Pos(0) = outBlock
        BY <1>1, PendingRange, PosRing DEF TypeOK
      <3> QED BY <1>9, <3>1
    <2> QED BY <1>1, <1>2, <2>1 DEF ThreadAt, writerVars
  <1> QED BY <1>2, <1>6, <1>7, <1>8, <1>12, <1>13 DEF StreamInv, Running

\* A free block becomes the owner's.
LEMMA StepAcquire ==
  ASSUME StreamInv, Acquire
  PROVE  StreamInv'
  <1> USE KBlocksAssumption, BlockSizeAssumption, StreamBoundsAssumption
  <1>1. /\ TypeOK /\ Accounting /\ OwnerAt /\ OwnerBlock /\ PendingBlocks /\ ThreadAt
        /\ EndTogether /\ SinkIsPrefix
    BY DEF StreamInv, Running, Acquire
  <1>2. Published' = Published /\ Unspilled = 0 /\ Unspilled' = 0 /\ \A j : Pos(j)' = Pos(j)
    BY DEF Acquire, Published, Unspilled, Pos, writerVars, blockVars
  <1>3. TypeOK'
    BY <1>1 DEF Acquire, TypeOK, writerVars, blockVars
  <1>4. Accounting'
    BY <1>1, <1>2, PendingRange DEF Accounting, Acquire, OwnerAt, TypeOK, blockVars
  <1>5. OwnerAt' /\ OwnerBlock'
    BY <1>1 DEF Acquire, OwnerAt, OwnerBlock, TypeOK
  <1>7. EndTogether' /\ SinkIsPrefix' /\ ThreadAt'
    BY <1>1, <1>2 DEF Acquire, EndTogether, SinkIsPrefix, ThreadAt, TypeOK, writerVars, blockVars
  <1>6. PendingBlocks'
    BY <1>1, <1>2, PendingKept DEF Acquire, writerVars, blockVars
  <1> QED BY <1>3, <1>4, <1>5, <1>6, <1>7 DEF StreamInv, Running

-----------------------------------------------------------------------------
(* The thread *)

\* The thread takes a block, or finds it empty and ends.
LEMMA StepThread ==
  ASSUME StreamInv, WaitOutput \/ BeginWrite \/ Exit
  PROVE  StreamInv'
  <1> USE KBlocksAssumption, BlockSizeAssumption, StreamBoundsAssumption
  <1>1. /\ TypeOK /\ Accounting /\ OwnerAt /\ OwnerBlock /\ PendingBlocks /\ ThreadAt
        /\ EndTogether /\ SinkIsPrefix
        /\ wpc \in {"waiting", "testing"} /\ wpc' \in {"testing", "writing", "exited"}
        /\ UNCHANGED <<trash, blockVars, ownerVars, sink>>
    BY DEF StreamInv, Running, EndTogether, WaitOutput, BeginWrite, Exit, semVars
  <1>2. Published' = Published /\ Unspilled' = Unspilled /\ \A j : Pos(j)' = Pos(j)
    BY <1>1 DEF WaitOutput, BeginWrite, Exit, Published, Unspilled, Pos, blockVars, ownerVars, semVars, TypeOK
  <1>3. TypeOK'
    <2>1. output' \in Nat
      BY <1>1 DEF WaitOutput, BeginWrite, Exit, TypeOK, semVars
    <2>2. flushed' \in BOOLEAN
      BY <1>1, Zenon DEF WaitOutput, BeginWrite, Exit, TypeOK
    <2> QED BY <1>1, <2>1, <2>2 DEF TypeOK, blockVars, ownerVars
  <1>4. Accounting'
    BY <1>1, <1>2 DEF Accounting, blockVars, ownerVars
  <1>5. OwnerAt' /\ OwnerBlock' /\ EndTogether' /\ SinkIsPrefix'
    BY <1>1 DEF OwnerAt, OwnerBlock, EndTogether, SinkIsPrefix, blockVars, ownerVars
  <1>6. PendingBlocks'
    BY <1>1, <1>2, PendingKept DEF blockVars, ownerVars
  <1>7. ThreadAt'
    <2>1. CASE WaitOutput \/ BeginWrite
      <3>1. /\ mpc # "destroyed" /\ mpc' = mpc /\ wpc' # "exited"
            /\ wpc' = "writing" => size'[outBlock'] # 0
        BY <1>1, <2>1 DEF WaitOutput, BeginWrite, ThreadAt, blockVars, ownerVars
      <3> QED BY <3>1 DEF ThreadAt
    <2>2. CASE Exit
      <3>1. /\ Published > 0 /\ Published \in Int /\ 0 \in 0..(Published - 1) /\ Pos(0) = outBlock
            /\ \A j \in 0..Published : Before(j) \in Int
        BY <1>1, <2>2, PendingRange, PosRing, BeforeInt DEF Exit, TypeOK
      <3>2. then = "join" /\ Published = 1 /\ Before(1) = Before(0) /\ Before(0) = Len(sink)
        BY <1>1, <2>2, <3>1 DEF Exit, PendingBlocks
      <3>3. Before(1) = total
        BY <1>1, <3>2 DEF Before, Unspilled, OwnerAt, TypeOK
      <3> QED BY <1>1, <1>2, <2>2, <3>2, <3>3 DEF ThreadAt, Exit, ownerVars
    <2> QED BY <2>1, <2>2
  <1> QED BY <1>3, <1>4, <1>5, <1>6, <1>7 DEF StreamInv, Running

\* The bytes of the first pending block are the ones the sink lacks.
LEMMA SinkGrows ==
  ASSUME TypeOK, Accounting, PendingBlocks, SinkIsPrefix, wpc = "writing",
         sink' = sink \o SubSeq(data[outBlock], 1, size[outBlock])
  PROVE  /\ sink' \in Seq(1..MaxBytes)
         /\ Len(sink') = Len(sink) + size[outBlock]
         /\ SinkIsPrefix'
  <1> USE StreamBoundsAssumption, BlockSizeAssumption
  <1> DEFINE d == data[outBlock]
             n == size[outBlock]
             s == SubSeq(d, 1, n)
  <1>1. Pos(0) = outBlock /\ 0 \in 0..(Published - 1)
    BY PosRing, PendingRange DEF TypeOK
  <1>2. /\ d \in Seq(1..MaxBytes) /\ n \in Nat /\ Len(d) >= n
        /\ \A i \in 1..n : d[i] = Len(sink) + i
        /\ sink \in Seq(1..MaxBytes)
    <2>1. Before(0) = Len(sink) /\ Len(data[Pos(0)]) >= size[Pos(0)]
          /\ \A i \in 1..size[Pos(0)] : data[Pos(0)][i] = Before(0) + i
      BY <1>1 DEF PendingBlocks
    <2>2. /\ Pos(0) = outBlock /\ outBlock \in Blocks
          /\ d \in Seq(1..MaxBytes) /\ n \in Nat /\ sink \in Seq(1..MaxBytes)
      BY <1>1 DEF TypeOK
    <2> QED BY <2>1, <2>2
  <1> HIDE DEF d, n
  <1>3. s \in Seq(1..MaxBytes) /\ Len(s) = n /\ \A i \in 1..n : s[i] = Len(sink) + i
    <2>1. ASSUME NEW i \in 1..n PROVE d[i] \in 1..MaxBytes
      <3>1. d \in Seq(1..MaxBytes) /\ i \in 1..Len(d)
        BY <1>2
      <3> QED BY ONLY <3>1, ElementOfSeq
    <2>2. s = [i \in 1..n |-> d[i]]
      BY <1>2
    <2> QED BY <1>2, <2>1, <2>2
  <1>4. sink' = sink \o s
    BY DEF d, n
  <1> HIDE DEF s
  <1>5. /\ sink' \in Seq(1..MaxBytes) /\ Len(sink') = Len(sink) + n
        /\ \A i \in 1..(Len(sink) + n) :
              sink'[i] = IF i <= Len(sink) THEN sink[i] ELSE s[i - Len(sink)]
    <2>1. /\ sink \o s \in Seq(1..MaxBytes) /\ Len(sink \o s) = Len(sink) + n
          /\ \A i \in 1..(Len(sink) + n) :
                (sink \o s)[i] = IF i <= Len(sink) THEN sink[i] ELSE s[i - Len(sink)]
      BY <1>2, <1>3, ConcatProperties
    <2> QED BY <1>4, <2>1
  <1>6. \A i \in 1..Len(sink') : sink'[i] = i
    <2> SUFFICES ASSUME NEW i \in 1..Len(sink') PROVE sink'[i] = i
      OBVIOUS
    <2>1. Len(sink) \in Nat /\ i \in Nat
      BY <1>2, <1>5
    <2>2. CASE i <= Len(sink)
      <3>1. i \in 1..Len(sink)
        BY <2>1, <2>2
      <3>2. sink[i] = i
        BY <3>1 DEF SinkIsPrefix
      <3>3. i \in 1..(Len(sink) + n)
        BY <1>5
      <3>4. sink'[i] = sink[i]
        BY <1>5, <2>2, <3>3
      <3> QED BY <3>2, <3>4
    <2>3. CASE ~(i <= Len(sink))
      <3>1. i - Len(sink) \in 1..n
        BY <1>2, <1>5, <2>1, <2>3
      <3>2. sink'[i] = Len(sink) + (i - Len(sink))
        BY <1>3, <1>5, <2>3, <3>1
      <3>3. Len(sink) + (i - Len(sink)) = i
        BY <2>1
      <3> QED BY <3>2, <3>3
    <2> QED BY <2>2, <2>3
  <1>7. SinkIsPrefix'
    <2>1. DOMAIN sink' = 1..Len(sink') /\ sink' = [i \in DOMAIN sink' |-> sink'[i]]
      BY <1>5
    <2> QED BY <1>6, <2>1 DEF SinkIsPrefix
  <1> QED BY <1>5, <1>7 DEF n

\* The block that was written goes back: the next one is the first.
LEMMA StepEndWrite ==
  ASSUME StreamInv, EndWrite
  PROVE  StreamInv'
  <1> USE KBlocksAssumption, BlockSizeAssumption, StreamBoundsAssumption
  <1>1. /\ TypeOK /\ Accounting /\ OwnerAt /\ OwnerBlock /\ PendingBlocks /\ ThreadAt
        /\ EndTogether /\ SinkIsPrefix
        /\ wpc = "writing"
    BY DEF StreamInv, Running, EndTogether, EndWrite
  <1>2. /\ sink' = sink \o SubSeq(data[outBlock], 1, size[outBlock])
        /\ outBlock' = NextBlock(outBlock) /\ trash' = trash + 1 /\ wpc' = "waiting"
        /\ UNCHANGED <<output, data, size, inBlock, mpc, then, left, current, total, flushed>>
    BY DEF EndWrite, ownerVars
  <1>3. /\ Published \in 1..KBlocks /\ 0 \in 0..(Published - 1) /\ Pos(0) = outBlock /\ Pos(1) = outBlock'
        /\ Pos(0) \in Blocks /\ Pos(1) \in Blocks
        /\ \A j \in 0..Published : Pos(j) \in Blocks /\ Before(j) \in Int
    <2>1. /\ Published \in 1..KBlocks /\ 0 \in 0..(Published - 1) /\ 0 \in 0..(KBlocks - 1)
          /\ \A j \in 0..Published : Pos(j) \in Blocks /\ Before(j) \in Int
      BY <1>1, PendingRange, BeforeInt
    <2>2. Pos(0) = outBlock /\ Pos(0 + 1) = NextBlock(Pos(0))
      BY <1>1, <2>1, PosRing DEF TypeOK
    <2> QED BY <1>2, <2>1, <2>2
  <1>4. /\ sink' \in Seq(1..MaxBytes) /\ SinkIsPrefix'
        /\ Len(sink') = Len(sink) + size[outBlock]
    BY <1>1, <1>2, SinkGrows
  <1>5. TypeOK'
    BY <1>1, <1>2, <1>3, <1>4 DEF TypeOK
  <1>6. Published' = Published - 1 /\ Unspilled' = Unspilled
    BY <1>1, <1>2 DEF Published, Unspilled, TypeOK
  <1>7. \A j \in 0..Published' : Pos(j)' = Pos(j + 1)
    BY <1>1, <1>2, <1>3, <1>6 DEF Pos, NextBlock, TypeOK, Blocks
  <1>8. Accounting'
    <2>1. PICK m \in 0..KBlocks : m = Published'
      BY <1>3, <1>6
    <2>2. Pos(m)' = Pos(Published)
      BY <1>3, <1>6, <1>7, <2>1
    <2> QED BY <1>1, <1>2, <1>3, <1>6, <2>1, <2>2 DEF Accounting, TypeOK
  <1>9. OwnerAt' /\ OwnerBlock' /\ EndTogether' /\ ThreadAt'
    BY <1>1, <1>2 DEF OwnerAt, OwnerBlock, EndTogether, ThreadAt
  <1>10. \A j \in 0..Published' : Before(j)' = Before(j + 1)
    <2> SUFFICES ASSUME NEW j \in 0..Published' PROVE Before(j)' = Before(j + 1)
      OBVIOUS
    <2>1. Pos(j)' = Pos(j + 1) /\ (j = Published' <=> j + 1 = Published)
      BY <1>3, <1>6, <1>7
    <2> QED BY <1>2, <1>6, <2>1 DEF Before
  <1>11. PendingBlocks'
    <2>1. Before(0)' = Len(sink')
      <3>1. 0 \in 0..Published' /\ Before(1) = Before(0) + size[Pos(0)] /\ Before(0) = Len(sink)
        BY <1>1, <1>3, <1>6 DEF PendingBlocks
      <3> QED BY <1>3, <1>4, <1>10, <3>1
    <2>2. then' = "join" => Published' > 0
      <3>1. size[Pos(0)] # 0
        BY <1>1, <1>3 DEF ThreadAt
      <3>2. ~(then = "join" /\ 0 = Published - 1)
        BY <1>1, <1>3, <3>1 DEF PendingBlocks
      <3> QED BY <1>2, <1>3, <1>6, <3>2
    <2>3. ASSUME NEW j \in 0..(Published' - 1)
          PROVE  /\ Before(j + 1)' = Before(j)' + size'[Pos(j)']
                 /\ Len(data'[Pos(j)']) >= size'[Pos(j)']
                 /\ \A i \in 1..size'[Pos(j)'] : data'[Pos(j)'][i] = Before(j)' + i
                 /\ size'[Pos(j)'] = 0 <=> then' = "join" /\ j = Published' - 1
      <3>1. /\ j + 1 \in 0..(Published - 1) /\ j \in 0..Published' /\ j + 1 \in 0..Published'
            /\ (j = Published' - 1 <=> j + 1 = Published - 1)
        BY <1>3, <1>6
      <3>2. Pos(j)' = Pos(j + 1) /\ Before(j)' = Before(j + 1) /\ Before(j + 1)' = Before(j + 1 + 1)
        BY <1>7, <1>10, <3>1
      <3> QED BY <1>1, <1>2, <3>1, <3>2 DEF PendingBlocks
    <2> QED BY <2>1, <2>2, <2>3 DEF PendingBlocks
  <1> QED BY <1>4, <1>5, <1>8, <1>9, <1>11 DEF StreamInv, Running

-----------------------------------------------------------------------------
(* The specification *)

\* Every step of the owner and of the thread preserves the invariant.
LEMMA StreamNext == StreamInv /\ [Next]_vars => StreamInv'
  <1> SUFFICES ASSUME StreamInv, [Next]_vars PROVE StreamInv'
    OBVIOUS
  <1>1. CASE Owner
    BY <1>1, StepBegin, StepCopy, StepPublish, StepAcquire DEF Owner
  <1>2. CASE WaitOutput \/ BeginWrite \/ Exit \/ EndWrite
    BY <1>2, StepThread, StepEndWrite
  <1>3. CASE WriterThrows
    BY <1>3 DEF WriterThrows, StreamInv, TypeOK, EndTogether, SinkIsPrefix, semVars, blockVars
  <1>4. CASE UNCHANGED vars
    <2> USE <1>4 DEF vars, semVars, blockVars, ownerVars, writerVars
    <2>1. TypeOK' = TypeOK /\ EndTogether' = EndTogether /\ SinkIsPrefix' = SinkIsPrefix
      BY DEF TypeOK, EndTogether, SinkIsPrefix
    <2>2. OwnerAt' = OwnerAt /\ OwnerBlock' = OwnerBlock /\ ThreadAt' = ThreadAt
      BY DEF OwnerAt, OwnerBlock, ThreadAt, Published
    <2>3. Accounting' = Accounting
      BY DEF Accounting, Published, Pos
    <2>4. Published' = Published /\ Unspilled' = Unspilled
      BY DEF Published, Unspilled
    <2>5. TypeOK /\ Accounting /\ PendingBlocks => PendingBlocks'
      BY <2>4, PendingKept
    <2> QED BY <2>1, <2>2, <2>3, <2>5 DEF StreamInv, Running
  <1> QED BY <1>1, <1>2, <1>3, <1>4 DEF Next, Writer

\* If both sides waited, Accounting would leave the two of them a single block.
LEMMA StreamGoesOn ==
  ASSUME StreamInv
  PROVE  NeverStuck
  <1>1. CASE mpc \in {"acquire", "join"}
    <2>1. TypeOK /\ Accounting /\ OwnerAt /\ PendingBlocks /\ ThreadAt /\ EndTogether
      BY <1>1 DEF StreamInv, Running
    <2>2. wpc \in {"waiting", "exited", "testing", "writing"}
      BY <1>1, <2>1 DEF EndTogether, TypeOK
    <2>3. CASE wpc = "waiting"
      <3>1. Published = output
        BY <2>1, <2>3 DEF Published, TypeOK
      <3>2. mpc = "acquire" /\ KBlocks > 1 => trash > 0 \/ output > 0
        BY <2>1, <3>1, KBlocksAssumption DEF Accounting, TypeOK
      <3>3. mpc = "join" => output > 0
        BY <2>1, <3>1 DEF OwnerAt, PendingBlocks
      <3> QED BY <2>3, <3>2, <3>3 DEF NeverStuck
    <2>4. CASE wpc = "exited"
      <3>1. mpc = "acquire" /\ KBlocks > 1 => trash > 0
        BY <2>1, <2>4, KBlocksAssumption DEF ThreadAt, Accounting, TypeOK
      <3> QED BY <2>4, <3>1 DEF NeverStuck
    <2> QED BY <2>2, <2>3, <2>4 DEF NeverStuck
  <1> QED BY <1>1 DEF NeverStuck

\* The invariant gives the properties the runs check.
LEMMA StreamSafe == StreamInv => Safety
  <1> SUFFICES ASSUME StreamInv PROVE Safety
    OBVIOUS
  <1>1. NoBlockRace
    <2> SUFFICES ASSUME wpc \in {"testing", "writing"}, mpc \notin {"acquire", "terminated"}
                 PROVE  inBlock # outBlock
      BY DEF NoBlockRace
    <2>1. TypeOK /\ Accounting
      BY DEF StreamInv, Running
    <2>2. Published > 0 /\ Published \in Int /\ \A j \in 0..(Published - 1) : Pos(j) # inBlock
      BY <2>1, PendingRange
    <2>3. Pos(0) = outBlock
      BY <2>1, PosRing DEF TypeOK
    <2> QED BY <2>2, <2>3
  <1>2. StopsComplete
    BY DEF StreamInv, EndTogether, Running, ThreadAt, StopsComplete
  <1>3. NeverStuck
    BY StreamGoesOn
  <1> QED BY <1>1, <1>2, <1>3 DEF Safety, StreamInv

\* At every moment of every run, whatever the number and the size of the
\* blocks: no block is filled and drained at once, the Writer was given a prefix
\* of the bytes written, owner and thread never wait for each other, and the
\* thread of ThreadedBufferedStream stops only for the destructor, with
\* everything written and flushed.
THEOREM StreamSafety == Spec => []Safety
  <1>1. Init => StreamInv
    BY StreamInit
  <1>2. StreamInv /\ [Next]_vars => StreamInv'
    BY StreamNext
  <1>3. StreamInv => Safety
    BY StreamSafe
  <1> QED BY <1>1, <1>2, <1>3, PTL DEF Spec

-----------------------------------------------------------------------------
(* Files that are compressed, or not *)

AnyFormat == Formats \cup CutFormats

\* The tokens of a file.
DataToken == [kind |-> "data", format |-> "none"]
FileToken == {DataToken, End} \cup {[kind |-> "magic", format |-> f] : f \in AnyFormat}

\* A member begins behind position i.
MagicAt(s, i) ==
    /\ i + MagicSize <= Len(s)
    /\ s[i + 1].kind = "magic"
    /\ \A j \in 1..MagicSize : s[i + j] = s[i + 1]

AllData(s) == \A i \in 1..Len(s) : s[i].kind = "data"

\* A compressed file: members begin at its beginning and behind every end of
\* another, if anything does.
Archive(s) ==
    /\ s # <<>>
    /\ \A i \in 0..(Len(s) - 1) : i = 0 \/ s[i].kind = "end" => MagicAt(s, i)

\* What is known of the file that is read: it is not compressed; or it begins with
\* a member, and it ends with the end of a member exactly if it is in order.
FileAt(s, isFine) ==
    /\ s \in Seq(FileToken)
    /\ \/ AllData(s) /\ isFine
       \/ s # <<>> /\ MagicAt(s, 0) /\ (s[Len(s)].kind = "end" <=> isFine)
    /\ isFine => AllData(s) \/ Archive(s)

-----------------------------------------------------------------------------
(* The reader *)

\* How much of the file was returned or thrown away.
Passed == fd - Len(input)

\* Bytes among the first k tokens.
DataTo(s, k) == Cardinality({i \in 1..k : s[i].kind = "data"})

\* t is what s has behind the first a tokens, n of them.
Behind(s, a, t, n) == \A i \in 1..n : t[i] = s[a + i]

\* The input is the part of the file that was read and has not passed, and
\* what has passed was returned or is inside the decoder.
InputAt ==
    /\ fd \in 0..Len(raw) /\ input \in Seq(FileToken) /\ Len(input) <= fd
    /\ Behind(raw, Passed, input, Len(input))
    /\ reader # "threw" => delivered + inside = DataTo(raw, Passed)

\* What it means that a reader is in place.
ReaderAt ==
    /\ reader = "none" => ReaderInit
    /\ reader # "ReadStream" => inside = 0
    /\ reader = "Complete" => input = <<>> /\ fd = Len(raw) /\ fine
    /\ reader = "Uncompressed" => input = <<>> /\ AllData(raw) /\ fine
    /\ reader = "UncompressedWithHeader" => input # <<>> /\ AllData(raw) /\ fine
    /\ reader = "ReadStream" =>
        /\ ~AllData(raw)
        /\ Passed < Len(raw) \/ raw[Passed].kind # "end"
    /\ want > 0 => result = Pending /\ reader # "threw"
    /\ result = 0 => reader \in {"Complete", "Uncompressed"} /\ fd = Len(raw)

ReaderInv ==
    /\ FileAt(raw, fine) /\ ReaderTypeOK /\ RawAmountExact /\ NoFalseAlarm
    /\ InputAt /\ ReaderAt

-----------------------------------------------------------------------------
(* The writer *)

\* How far the compressor is, which bytes are under way and what is clean.
WriterAt ==
    /\ emitted <= taken + 2 /\ (pc \notin {"finish", "finished"} => emitted <= taken + 1)
    /\ pc = "finished" => emitted = taken + 2
    /\ pc # "write" => avail = 0 /\ later = 0
    /\ ~dirty /\ pc # "write" => taken = 0 /\ emitted = 0 /\ buf = <<>> /\ out # <<>>
    /\ pc = "gone" => ~dirty
    /\ pc \in {"finish", "finished"} => dirty

\* The last token is the end of a member, or nothing was written, exactly
\* between two members.
TokensAt ==
    LET s == out \o buf
    IN  /\ emitted > 0 => s # <<>>
        /\ s # <<>> => (s[Len(s)] = "end" <=> emitted \in {0, taken + 2})

WriterInv == WriteStream!TypeOK /\ WriteStream!NothingLost /\ WriterAt /\ TokensAt

\* Reader and writer do not work at the same time, and what is read back is
\* what was written.
Apart ==
    /\ pc # "none" /\ raw = <<>> => fine = TRUE /\ ReaderInit
    /\ pc \notin {"none", "gone"} => raw = <<>>
    /\ pc = "gone" /\ raw # <<>> => DataOf(raw) = written

CompressInv == ReaderInv /\ (pc # "none" => WriterInv) /\ Apart

-----------------------------------------------------------------------------
(* Induction *)

\* A set of numbers that is not empty has a least member.
LEMMA LeastExists ==
  ASSUME NEW S \in SUBSET Nat, S # {}
  PROVE  \E x \in S : \A y \in S : x <= y
<1> DEFINE T == {0..x : x \in S}
<1>1. T \subseteq FiniteSubsetsOf(Nat) /\ T # {}
  <2>1. ASSUME NEW x \in S PROVE 0..x \in SUBSET Nat /\ IsFiniteSet(0..x)
    BY FS_Interval
  <2> QED BY <2>1 DEF FiniteSubsetsOf
<1>2. PICK t \in T : \A u \in T : ~(<<u, t>> \in StrictSubsetOrdering(Nat))
  BY <1>1, FS_StrictSubsetOrderingWellFounded, WFMin
<1>3. PICK x \in S : t = 0..x
  OBVIOUS
<1>4. ASSUME NEW y \in S PROVE x <= y
  <2>1. SUFFICES ASSUME y < x PROVE FALSE
    OBVIOUS
  <2>2. /\ 0..y \subseteq 0..x /\ x \in 0..x /\ x \notin 0..y
        /\ 0..x \in SUBSET Nat /\ 0..y \in SUBSET Nat
    BY <2>1
  <2>3. <<0..y, 0..x>> \in StrictSubsetOrdering(Nat)
    BY <2>2 DEF StrictSubsetOrdering
  <2> QED BY <1>2, <1>3, <2>3
<1> QED BY <1>4

\* Induction up to n, over a set.
LEMMA InductionTo ==
  ASSUME NEW n \in Nat, NEW S, 0 \in S, \A i \in 1..n : i - 1 \in S => i \in S
  PROVE  0..n \subseteq S
<1> SUFFICES ASSUME ~(0..n \subseteq S) PROVE FALSE
  OBVIOUS
<1> DEFINE M == {i \in 0..n : i \notin S}
<1>0. M \in SUBSET Nat /\ M # {}
  OBVIOUS
<1>1. PICK x \in M : \A y \in M : x <= y
  <2> HIDE DEF M
  <2> QED BY <1>0, LeastExists
<1>2. x \in 1..n
  OBVIOUS
<1>3. x - 1 \in 0..n /\ x - 1 \notin M
  BY <1>1, <1>2
<1> QED BY <1>2, <1>3

\* f is the course of a recursion of m steps that begins with a.
Course(m, T, a, step, f) ==
    f \in [0..m -> T] /\ f[0] = a /\ \A i \in 1..m : f[i] = step[<<f[i - 1], i>>]

\* The steps of a recursion can be taken one after the other.
LEMMA RecursionTo ==
  ASSUME NEW n \in Nat, NEW T, NEW a \in T, NEW step \in [T \X (1..n) -> T]
  PROVE  \E f : Course(n, T, a, step, f)
<1> DEFINE Done(m, f) == Course(m, T, a, step, f)
           S == {m \in 0..n : \E f : Done(m, f)}
<1>1. 0 \in S
  <2>1. Done(0, [i \in 0..0 |-> a])
    BY DEF Course
  <2> HIDE DEF Done
  <2>2. 0 \in 0..n
    OBVIOUS
  <2> QED BY <2>1, <2>2
<1>2. ASSUME NEW m \in 1..n, m - 1 \in S PROVE m \in S
  <2>1. PICK f : Done(m - 1, f)
    BY <1>2
  <2>0. f \in [0..(m - 1) -> T] /\ f[0] = a /\ \A i \in 1..(m - 1) : f[i] = step[<<f[i - 1], i>>]
    BY <2>1 DEF Course
  <2> DEFINE g == [i \in 0..m |-> IF i = m THEN step[<<f[m - 1], m>>] ELSE f[i]]
  <2>2. f[m - 1] \in T /\ step[<<f[m - 1], m>>] \in T
    BY <2>0
  <2>3. g \in [0..m -> T] /\ g[0] = a
    BY <2>0, <2>2
  <2>4. ASSUME NEW i \in 1..m PROVE g[i] = step[<<g[i - 1], i>>]
    <3>1. i - 1 \in 0..m /\ i - 1 # m /\ i \in 0..m
      OBVIOUS
    <3>2. g[i - 1] = f[i - 1]
      BY <3>1
    <3>3. CASE i = m
      BY <3>1, <3>2, <3>3
    <3>4. CASE i # m
      <4>1. i \in 1..(m - 1)
        BY <3>4
      <4>2. f[i] = step[<<f[i - 1], i>>]
        BY <2>0, <4>1
      <4> QED BY <3>1, <3>2, <3>4, <4>2
    <3> QED BY <3>3, <3>4
  <2>5. Done(m, g)
    BY <2>3, <2>4 DEF Course
  <2> HIDE DEF Done, g
  <2>6. m \in 0..n
    OBVIOUS
  <2> QED BY <2>5, <2>6
<1>3. n \in S
  <2> HIDE DEF S
  <2>1. 0..n \subseteq S
    BY <1>1, <1>2, InductionTo
  <2> QED BY <2>1
<1> QED BY <1>3

-----------------------------------------------------------------------------
(* Sequences and positions in them *)

LEMMA ConcatParts ==
  ASSUME NEW S, NEW s \in Seq(S), NEW t \in Seq(S)
  PROVE  /\ s \o t \in Seq(S)
         /\ Len(s) \in Nat /\ Len(t) \in Nat /\ Len(s \o t) = Len(s) + Len(t)
         /\ \A i \in 1..Len(s) : (s \o t)[i] = s[i]
         /\ \A i \in 1..Len(t) : (s \o t)[Len(s) + i] = t[i]
  <1>1. Len(s) \in Nat /\ Len(t) \in Nat
    OBVIOUS
  <1>2. /\ s \o t \in Seq(S) /\ Len(s \o t) = Len(s) + Len(t)
        /\ \A i \in 1..(Len(s) + Len(t)) : (s \o t)[i] = IF i <= Len(s) THEN s[i] ELSE t[i - Len(s)]
    BY ConcatProperties
  <1>3. \A i \in 1..Len(s) : (s \o t)[i] = s[i]
    BY <1>1, <1>2
  <1>4. \A i \in 1..Len(t) : (s \o t)[Len(s) + i] = t[i]
    <2> SUFFICES ASSUME NEW i \in 1..Len(t) PROVE (s \o t)[Len(s) + i] = t[i]
      OBVIOUS
    <2>1. Len(s) + i \in 1..(Len(s) + Len(t)) /\ ~(Len(s) + i <= Len(s)) /\ Len(s) + i - Len(s) = i
      BY <1>1
    <2> QED BY <1>2, <2>1
  <1> QED BY <1>1, <1>2, <1>3, <1>4

\* A part of a sequence.
LEMMA PartFacts ==
  ASSUME NEW S, NEW s \in Seq(S), NEW a \in Nat, NEW b \in Nat, a <= b, b <= Len(s)
  PROVE  /\ SubSeq(s, a + 1, b) \in Seq(S) /\ Len(SubSeq(s, a + 1, b)) = b - a
         /\ \A i \in 1..(b - a) : SubSeq(s, a + 1, b)[i] = s[a + i]
  <1>1. SubSeq(s, a + 1, b) = [i \in 1..(b - a) |-> s[a + i]]
    <2>1. SubSeq(s, a + 1, b) = [i \in 1..(1 + b - (a + 1)) |-> s[i + (a + 1) - 1]]
      OBVIOUS
    <2>2. 1 + b - (a + 1) = b - a /\ \A i \in 1..(b - a) : i + (a + 1) - 1 = a + i
      OBVIOUS
    <2> QED BY <2>1, <2>2
  <1>2. \A i \in 1..(b - a) : s[a + i] \in S
    <2> SUFFICES ASSUME NEW i \in 1..(b - a) PROVE s[a + i] \in S
      OBVIOUS
    <2>1. a + i \in 1..Len(s)
      OBVIOUS
    <2> QED BY <2>1, ElementOfSeq
  <1>3. b - a \in Nat
    OBVIOUS
  <1> QED BY <1>1, <1>2, <1>3

\* Positions moved on are as many.
MovedOn(S, k) == {k + i : i \in S}

LEMMA MovedOnAsLarge ==
  ASSUME NEW S \in SUBSET Int, IsFiniteSet(S), NEW k \in Nat
  PROVE  IsFiniteSet(MovedOn(S, k)) /\ Cardinality(MovedOn(S, k)) = Cardinality(S)
  <1> DEFINE T == {k + i : i \in S}
             f == [i \in S |-> k + i]
  <1>1. f \in [S -> T]
    OBVIOUS
  <1>2. \A a, b \in S : f[a] = f[b] => a = b
    OBVIOUS
  <1>3. \A t \in T : \E i \in S : f[i] = t
    OBVIOUS
  <1> HIDE DEF f, T
  <1>4. f \in Bijection(S, T)
    BY <1>1, <1>2, <1>3 DEF Bijection, Injection, Surjection, IsInjective
  <1>5. ExistsBijection(S, T)
    BY <1>4 DEF ExistsBijection
  <1>6. IsFiniteSet(T) /\ Cardinality(T) = Cardinality(S)
    BY <1>5, FS_Bijection
  <1> QED BY <1>6 DEF T, MovedOn

\* Positions up to a and the n behind them are counted one after the other.
LEMMA PositionsSplit ==
  ASSUME NEW a \in Nat, NEW n \in Nat,
         NEW A \in SUBSET (1..(a + n)), NEW B \in SUBSET (1..n), NEW C \in SUBSET (1..a),
         \A i \in 1..a : i \in A <=> i \in C,
         \A i \in 1..n : a + i \in A <=> i \in B
  PROVE  /\ Cardinality(A) = Cardinality(C) + Cardinality(B)
         /\ Cardinality(A) \in Nat /\ Cardinality(C) \in Nat /\ Cardinality(B) \in 0..n
  <1>1. IsFiniteSet(1..n) /\ Cardinality(1..n) = n /\ IsFiniteSet(1..a)
    BY FS_Interval
  <1>2. IsFiniteSet(B) /\ Cardinality(B) <= Cardinality(1..n)
    BY <1>1, FS_Subset
  <1>3. IsFiniteSet(C)
    BY <1>1, FS_Subset
  <1>4. Cardinality(B) \in Nat /\ Cardinality(C) \in Nat
    BY <1>2, <1>3, FS_CardinalityType
  <1>5. PICK D : D = MovedOn(B, a)
    OBVIOUS
  <1>6. IsFiniteSet(D) /\ Cardinality(D) = Cardinality(B)
    <2>1. B \in SUBSET Int
      OBVIOUS
    <2> QED BY <1>2, <1>5, <2>1, MovedOnAsLarge
  <1>7. \A j : j \in D <=> \E i \in B : j = a + i
    BY <1>5 DEF MovedOn
  <1>8. A = C \cup D
    <2>1. ASSUME NEW j \in A PROVE j \in C \/ j \in D
      <3>1. CASE j <= a
        BY <2>1, <3>1
      <3>2. CASE ~(j <= a)
        <4>1. j - a \in 1..n /\ j = a + (j - a)
          BY <3>2
        <4> QED BY <1>7, <4>1
      <3> QED BY <3>1, <3>2
    <2>2. ASSUME NEW j \in C PROVE j \in A
      OBVIOUS
    <2>3. ASSUME NEW j \in D PROVE j \in A
      BY <1>7
    <2> QED BY <2>1, <2>2, <2>3
  <1>9. C \cap D = {}
    BY <1>7
  <1>10. Cardinality(C \cup D) = Cardinality(C) + Cardinality(D) - Cardinality(C \cap D)
    BY ONLY <1>3, <1>6, FS_Union
  <1>11. Cardinality({}) = 0
    BY FS_EmptySet
  <1>12. Cardinality(C \cup D) = Cardinality(C) + Cardinality(B) - 0
    BY ONLY <1>6, <1>9, <1>10, <1>11
  <1>13. Cardinality(A) = Cardinality(C) + Cardinality(B)
    BY ONLY <1>4, <1>8, <1>12
  <1>14. Cardinality(A) \in Nat
    BY ONLY <1>4, <1>13
  <1>15. Cardinality(B) \in 0..n
    BY ONLY <1>1, <1>2, <1>4, n \in Nat
  <1> QED BY ONLY <1>4, <1>13, <1>14, <1>15

-----------------------------------------------------------------------------
(* What a concatenation of pieces has *)

\* g gives the concatenations of the first pieces.
Concatenates(T, n, p, g) ==
    /\ g \in [1..n -> Seq(T)] /\ FlattenSeq(p) = g[n]
    /\ g[1] = p[1] /\ \A i \in 2..n : g[i] = g[i - 1] \o p[i]

LEMMA FlattenIs ==
  ASSUME NEW T, NEW n \in Nat \ {0}, NEW p \in [1..n -> Seq(T)]
  PROVE  \E g : Concatenates(T, n, p, g)
  <1> DEFINE F(g) == [i \in 1..Len(p) |-> IF i = 1 THEN p[i] ELSE g[i - 1] \o p[i]]
  <1>0. Len(p) = n
    OBVIOUS
  <1>1. \E g : g \in [1..n -> Seq(T)] /\ g = F(g)
    <2> DEFINE step == [x \in Seq(T) \X (1..(n - 1)) |-> x[1] \o p[x[2] + 1]]
    <2>1. ASSUME NEW x \in Seq(T) \X (1..(n - 1)) PROVE x[1] \o p[x[2] + 1] \in Seq(T)
      <3>1. x[1] \in Seq(T) /\ p[x[2] + 1] \in Seq(T)
        OBVIOUS
      <3> QED BY <3>1, ConcatProperties
    <2>2. step \in [Seq(T) \X (1..(n - 1)) -> Seq(T)]
      BY <2>1
    <2>3. p[1] \in Seq(T) /\ n - 1 \in Nat
      OBVIOUS
    <2>4. PICK f : Course(n - 1, Seq(T), p[1], step, f)
      <3> HIDE DEF step
      <3> QED BY <2>2, <2>3, RecursionTo
    <2>5. /\ f \in [0..(n - 1) -> Seq(T)] /\ f[0] = p[1]
          /\ \A i \in 1..(n - 1) : f[i] = step[<<f[i - 1], i>>]
      <3> HIDE DEF step
      <3> QED BY <2>4 DEF Course
    <2>6. ASSUME NEW i \in 1..(n - 1) PROVE f[i] = f[i - 1] \o p[i + 1]
      <3>1. <<f[i - 1], i>> \in Seq(T) \X (1..(n - 1))
        BY <2>5
      <3>2. step[<<f[i - 1], i>>] = f[i - 1] \o p[i + 1]
        BY <3>1
      <3> HIDE DEF step
      <3> QED BY <2>5, <3>2
    <2> DEFINE g == [i \in 1..n |-> f[i - 1]]
    <2>7. g \in [1..n -> Seq(T)]
      BY <2>5
    <2>8. ASSUME NEW i \in 1..n PROVE g[i] = IF i = 1 THEN p[i] ELSE g[i - 1] \o p[i]
      <3>1. CASE i = 1
        BY <2>5, <3>1
      <3>2. CASE i # 1
        <4>1. i - 1 \in 1..(n - 1) /\ i - 1 \in 1..n /\ (i - 1) + 1 = i
          BY <3>2
        <4>2. f[i - 1] = f[(i - 1) - 1] \o p[i]
          BY <2>6, <4>1
        <4> QED BY <3>2, <4>1, <4>2
      <3> QED BY <3>1, <3>2
    <2>9. g = F(g)
      BY <1>0, <2>8
    <2> HIDE DEF g, F
    <2> QED BY <2>7, <2>9
  <1>2. PICK g : g = CHOOSE h : h = F(h)
    OBVIOUS
  <1>3. g = F(g)
    <2> HIDE DEF F
    <2> QED BY <1>1, <1>2
  <1>4. FlattenSeq(p) = g[n]
    <2>1. Len(p) # 0
      BY <1>0
    <2>2. FlattenSeq(p) = (CHOOSE h : h = F(h))[Len(p)]
      BY <2>1 DEF FlattenSeq
    <2> HIDE DEF F
    <2> QED BY <1>0, <1>2, <2>2
  <1>5. g[1] = p[1] /\ \A i \in 2..n : g[i] = g[i - 1] \o p[i]
    <2>1. ASSUME NEW i \in 1..n PROVE g[i] = IF i = 1 THEN p[i] ELSE g[i - 1] \o p[i]
      <3>1. g[i] = F(g)[i]
        <4> HIDE DEF F
        <4> QED BY <1>3
      <3>2. F(g)[i] = IF i = 1 THEN p[i] ELSE g[i - 1] \o p[i]
        BY <1>0
      <3> HIDE DEF F
      <3> QED BY <3>1, <3>2
    <2>2. 1 \in 1..n /\ \A i \in 2..n : i \in 1..n /\ i # 1
      OBVIOUS
    <2> QED BY ONLY <2>1, <2>2
  <1>6. g \in [1..n -> Seq(T)]
    <2> DEFINE S == {j \in 0..n : j = 0 \/ g[j] \in Seq(T)}
    <2>1. 0 \in S
      OBVIOUS
    <2>2. ASSUME NEW i \in 1..n, i - 1 \in S PROVE i \in S
      <3>1. CASE i = 1
        BY <1>5, <3>1
      <3>2. CASE i # 1
        <4>0. i \in 2..n /\ i \in 1..n /\ i \in 0..n /\ i - 1 # 0
          BY ONLY <3>2, i \in 1..n, n \in Nat
        <4>1. g[i - 1] \in Seq(T) /\ p[i] \in Seq(T)
          BY <2>2, <4>0
        <4>2. g[i - 1] \o p[i] \in Seq(T)
          BY ONLY <4>1, ConcatProperties
        <4>3. g[i] = g[i - 1] \o p[i]
          BY ONLY <1>5, <4>0
        <4> QED BY <4>0, <4>2, <4>3
      <3> QED BY <3>1, <3>2
    <2>3. 0..n \subseteq S
      <3> HIDE DEF S
      <3> QED BY <2>1, <2>2, InductionTo
    <2>4. \A i \in 1..n : g[i] \in Seq(T)
      BY <2>3
    <2>5. DOMAIN F(g) = 1..n /\ F(g) = [i \in 1..n |-> F(g)[i]]
      BY <1>0
    <2>6. DOMAIN g = 1..n /\ g = [i \in 1..n |-> g[i]]
      <3> HIDE DEF F
      <3> QED BY <1>3, <2>5
    <2> QED BY ONLY <2>4, <2>6
  <1>7. Concatenates(T, n, p, g)
    BY ONLY <1>4, <1>5, <1>6 DEF Concatenates
  <1> QED BY ONLY <1>7

\* What is true of the first piece, and stays true when the next is added, is
\* true of all of them together.
LEMMA FlattenInduction ==
  ASSUME NEW T, NEW n \in Nat \ {0}, NEW p \in [1..n -> Seq(T)], NEW Good \in [1..n -> SUBSET Seq(T)],
         p[1] \in Good[1], \A i \in 2..n : \A s \in Good[i - 1] : s \o p[i] \in Good[i]
  PROVE  FlattenSeq(p) \in Good[n]
  <1>0. PICK g : Concatenates(T, n, p, g)
    BY FlattenIs
  <1>1. /\ g \in [1..n -> Seq(T)] /\ FlattenSeq(p) = g[n]
        /\ g[1] = p[1] /\ \A i \in 2..n : g[i] = g[i - 1] \o p[i]
    BY ONLY <1>0 DEF Concatenates
  <1> DEFINE S == {j \in 0..n : j = 0 \/ g[j] \in Good[j]}
  <1>2. 0 \in S
    OBVIOUS
  <1>3. ASSUME NEW i \in 1..n, i - 1 \in S PROVE i \in S
    <2>0. i \in 0..n
      OBVIOUS
    <2>1. CASE i = 1
      BY <1>1, <2>0, <2>1
    <2>2. CASE i # 1
      <3>0. i \in 2..n /\ i - 1 # 0
        BY ONLY <2>2, i \in 1..n, n \in Nat
      <3>1. g[i - 1] \in Good[i - 1]
        BY <1>3, <3>0
      <3>2. g[i - 1] \o p[i] \in Good[i]
        BY <3>0, <3>1
      <3>3. g[i] \in Good[i]
        BY ONLY <1>1, <3>0, <3>2
      <3> QED BY <2>0, <3>3
    <2> QED BY <2>1, <2>2
  <1>4. n \in S
    <2> HIDE DEF S
    <2>1. 0..n \subseteq S
      BY <1>2, <1>3, InductionTo
    <2> QED BY <2>1
  <1> QED BY <1>1, <1>4

-----------------------------------------------------------------------------
(* Bytes among tokens *)

\* Where the bytes among the first k tokens are.
DataPlaces(s, k) == {i \in 1..k : s[i].kind = "data"}

LEMMA DataSplit ==
  ASSUME NEW s, NEW t, NEW a \in Nat, NEW n \in Nat, Behind(s, a, t, n)
  PROVE  /\ DataTo(s, a + n) = DataTo(s, a) + DataTo(t, n)
         /\ DataTo(s, a) \in Nat /\ DataTo(t, n) \in 0..n
  <1>1. PICK A : A = DataPlaces(s, a + n)
    OBVIOUS
  <1>2. PICK B : B = DataPlaces(t, n)
    OBVIOUS
  <1>3. PICK C : C = DataPlaces(s, a)
    OBVIOUS
  <1>4. A \in SUBSET (1..(a + n)) /\ B \in SUBSET (1..n) /\ C \in SUBSET (1..a)
    BY <1>1, <1>2, <1>3 DEF DataPlaces
  <1>5. ASSUME NEW i \in 1..a PROVE i \in A <=> i \in C
    <2>1. i \in 1..(a + n)
      OBVIOUS
    <2> QED BY ONLY <1>1, <1>3, <2>1, i \in 1..a DEF DataPlaces
  <1>6. ASSUME NEW i \in 1..n PROVE a + i \in A <=> i \in B
    <2>1. a + i \in 1..(a + n) /\ t[i] = s[a + i]
      BY DEF Behind
    <2> QED BY ONLY <1>1, <1>2, <2>1, i \in 1..n DEF DataPlaces
  <1>7. /\ Cardinality(A) = Cardinality(C) + Cardinality(B)
        /\ Cardinality(A) \in Nat /\ Cardinality(C) \in Nat /\ Cardinality(B) \in 0..n
    BY <1>4, <1>5, <1>6, PositionsSplit
  <1>8. /\ DataTo(s, a + n) = Cardinality(A) /\ DataTo(s, a) = Cardinality(C)
        /\ DataTo(t, n) = Cardinality(B)
    BY ONLY <1>1, <1>2, <1>3 DEF DataTo, DataPlaces
  <1> QED BY ONLY <1>7, <1>8

LEMMA DataToType ==
  ASSUME NEW s, NEW k \in Nat
  PROVE  DataTo(s, k) \in 0..k /\ DataTo(s, 0) = 0
  <1>1. Behind(s, 0, s, k)
    BY DEF Behind
  <1>2. DataTo(s, k) \in 0..k
    BY ONLY <1>1, 0 \in Nat, k \in Nat, DataSplit
  <1>3. Behind(s, 0, s, 0)
    BY DEF Behind
  <1>4. DataTo(s, 0) \in 0..0
    BY ONLY <1>3, 0 \in Nat, DataSplit
  <1> QED BY ONLY <1>2, <1>4

\* The tokens of a file are tokens up to some place and those behind it.
LEMMA DataUpTo ==
  ASSUME NEW S, NEW s \in Seq(S), NEW k \in 0..Len(s)
  PROVE  /\ DataTo(s, k) = DataOf(SubSeq(s, 1, k))
         /\ DataOf(s) = DataTo(s, k) + DataOf(SubSeq(s, k + 1, Len(s)))
         /\ DataOf(s) \in Nat /\ DataTo(s, k) \in Nat /\ DataTo(s, k) <= DataOf(s)
  <1>0. Len(s) \in Nat /\ k \in Nat /\ k <= Len(s) /\ 0 \in Nat /\ 0 <= k
    OBVIOUS
  <1>1. PICK t : t = SubSeq(s, 1, k)
    OBVIOUS
  <1>2. PICK u : u = SubSeq(s, k + 1, Len(s))
    OBVIOUS
  <1>3. Len(t) = k /\ \A i \in 1..k : t[i] = s[i]
    <2>1. SubSeq(s, 0 + 1, k) \in Seq(S) /\ Len(SubSeq(s, 0 + 1, k)) = k - 0
      BY ONLY <1>0, s \in Seq(S), PartFacts
    <2>2. \A i \in 1..(k - 0) : SubSeq(s, 0 + 1, k)[i] = s[0 + i]
      BY ONLY <1>0, s \in Seq(S), PartFacts
    <2>3. 0 + 1 = 1 /\ k - 0 = k /\ \A i \in 1..k : 0 + i = i
      BY ONLY <1>0
    <2> QED BY ONLY <1>1, <2>1, <2>2, <2>3
  <1>4. Len(u) = Len(s) - k /\ \A i \in 1..(Len(s) - k) : u[i] = s[k + i]
    BY ONLY <1>0, <1>2, s \in Seq(S), PartFacts
  <1>5. DataTo(s, k) = DataOf(t)
    <2>1. {i \in 1..k : t[i].kind = "data"} = {i \in 1..k : s[i].kind = "data"}
      BY <1>3
    <2> QED BY ONLY <1>3, <2>1 DEF DataTo, DataOf
  <1>6. PICK n \in Nat : n = Len(s) - k
    BY ONLY <1>0
  <1>7. /\ DataTo(s, k + n) = DataTo(s, k) + DataTo(u, n)
        /\ DataTo(s, k) \in Nat /\ DataTo(u, n) \in 0..n
    <2>1. Behind(s, k, u, n)
      BY ONLY <1>4, <1>6 DEF Behind
    <2>2. k \in Nat /\ n \in Nat
      BY ONLY <1>0, <1>6
    <2> QED BY ONLY <2>1, <2>2, DataSplit
  <1>8. k + n = Len(s)
    BY ONLY <1>0, <1>6
  <1>9. DataTo(s, Len(s)) = DataOf(s) /\ DataTo(u, n) = DataOf(u)
    BY ONLY <1>4, <1>6 DEF DataTo, DataOf
  <1>10. DataOf(s) = DataTo(s, k) + DataOf(u) /\ DataTo(s, k) \in Nat /\ DataOf(u) \in 0..n
    BY ONLY <1>7, <1>8, <1>9
  <1>11. DataOf(s) \in Nat /\ DataTo(s, k) <= DataOf(s)
    BY ONLY <1>10, <1>6
  <1> QED BY ONLY <1>1, <1>2, <1>5, <1>10, <1>11

LEMMA AllDataCount ==
  ASSUME NEW S, NEW s \in Seq(S), AllData(s), NEW a \in 0..Len(s), NEW n \in Nat, a + n <= Len(s)
  PROVE  DataTo(s, a + n) = DataTo(s, a) + n
  <1>1. ASSUME NEW k \in 0..Len(s) PROVE DataTo(s, k) = k
    <2>1. \A i \in 1..k : s[i].kind = "data"
      <3>1. \A i \in 1..k : i \in 1..Len(s)
        OBVIOUS
      <3> QED BY <3>1 DEF AllData
    <2>2. {i \in 1..k : s[i].kind = "data"} = 1..k
      BY <2>1
    <2>3. k \in Nat /\ 1 \in Int /\ k \in Int
      OBVIOUS
    <2>4. Cardinality(1..k) = k
      <3>1. Cardinality(1..k) = IF 1 > k THEN 0 ELSE k - 1 + 1
        BY ONLY <2>3, FS_Interval
      <3> QED BY ONLY <2>3, <3>1
    <2> QED BY ONLY <2>2, <2>4 DEF DataTo
  <1>2. a + n \in 0..Len(s)
    OBVIOUS
  <1> QED BY ONLY <1>1, <1>2, a \in 0..Len(s)

-----------------------------------------------------------------------------
(* What a reader finds *)

LEMMA TokenFacts ==
  /\ "unknown" \notin AnyFormat
  /\ \A t \in FileToken : t.kind \in {"magic", "data", "end"} /\ (t.kind = "magic" => t.format \in AnyFormat)
  <1>1. "unknown" \notin AnyFormat
    BY FormatsAssumption DEF AnyFormat
  <1>2. ASSUME NEW t \in FileToken
        PROVE  t.kind \in {"magic", "data", "end"} /\ (t.kind = "magic" => t.format \in AnyFormat)
    <2>1. CASE t = DataToken
      BY <2>1 DEF DataToken
    <2>2. CASE t = End
      BY <2>2 DEF End
    <2>3. CASE \E f \in AnyFormat : t = [kind |-> "magic", format |-> f]
      BY <2>3
    <2> QED BY <2>1, <2>2, <2>3 DEF FileToken
  <1> QED BY <1>1, <1>2

\* What is behind the first n of what is behind a.
LEMMA BehindPart ==
  ASSUME NEW T, NEW s, NEW a \in Nat, NEW t \in Seq(T), Behind(s, a, t, Len(t)), NEW n \in 0..Len(t)
  PROVE  /\ SubSeq(t, n + 1, Len(t)) \in Seq(T)
         /\ Len(SubSeq(t, n + 1, Len(t))) = Len(t) - n
         /\ Behind(s, a + n, SubSeq(t, n + 1, Len(t)), Len(t) - n)
  <1>0. Len(t) \in Nat /\ n \in Nat /\ n <= Len(t)
    OBVIOUS
  <1>1. PICK u : u = SubSeq(t, n + 1, Len(t))
    OBVIOUS
  <1>2. u \in Seq(T) /\ Len(u) = Len(t) - n /\ \A i \in 1..(Len(t) - n) : u[i] = t[n + i]
    <2>1. Len(t) <= Len(t)
      BY ONLY <1>0
    <2> QED BY ONLY <1>0, <1>1, <2>1, t \in Seq(T), PartFacts
  <1>3. ASSUME NEW i \in 1..(Len(t) - n) PROVE u[i] = s[a + n + i]
    <2>1. n + i \in 1..Len(t) /\ a + (n + i) = a + n + i
      BY ONLY <1>0, a \in Nat, i \in 1..(Len(t) - n)
    <2>2. t[n + i] = s[a + (n + i)]
      BY <2>1 DEF Behind
    <2> QED BY <1>2, <2>1, <2>2
  <1> QED BY ONLY <1>1, <1>2, <1>3 DEF Behind

LEMMA NextFacts ==
  ASSUME raw \in Seq(FileToken), fd \in 0..Len(raw), NEW k \in Nat
  PROVE  /\ NextTokens(k) \in Seq(FileToken) /\ Len(NextTokens(k)) \in 0..k
         /\ fd + Len(NextTokens(k)) <= Len(raw)
         /\ Behind(raw, fd, NextTokens(k), Len(NextTokens(k)))
         /\ Len(NextTokens(k)) < k => fd + Len(NextTokens(k)) = Len(raw)
  <1>1. PICK m : m = IF fd + k <= Len(raw) THEN fd + k ELSE Len(raw)
    OBVIOUS
  <1>2. NextTokens(k) = SubSeq(raw, fd + 1, m)
    BY ONLY <1>1 DEF NextTokens
  <1>3. Len(raw) \in Nat /\ fd \in Nat /\ fd <= Len(raw)
    OBVIOUS
  <1>4. m \in Nat /\ fd <= m /\ m <= Len(raw) /\ m - fd \in 0..k /\ (m - fd < k => m = Len(raw))
    BY ONLY <1>1, <1>3, k \in Nat
  <1>5. PICK t : t = NextTokens(k)
    OBVIOUS
  <1>6. t \in Seq(FileToken) /\ Len(t) = m - fd /\ \A i \in 1..(m - fd) : t[i] = raw[fd + i]
    BY ONLY <1>2, <1>3, <1>4, <1>5, raw \in Seq(FileToken), PartFacts
  <1>7. Behind(raw, fd, t, Len(t))
    BY ONLY <1>6 DEF Behind
  <1>8. Len(t) \in 0..k /\ fd + Len(t) <= Len(raw) /\ (Len(t) < k => fd + Len(t) = Len(raw))
    BY ONLY <1>3, <1>4, <1>6
  <1> QED BY ONLY <1>5, <1>6, <1>7, <1>8

\* The header h that is found at position b of a file s, of which rest was there.
HeaderAt(s, b, rest, h) ==
    /\ h \in Seq(FileToken) /\ Len(h) \in Nat
    /\ b + Len(h) <= Len(s) /\ Behind(s, b, h, Len(h))
    /\ Len(h) < MagicSize => b + Len(h) = Len(s)
    /\ Len(h) <= MagicSize \/ Len(h) = Len(rest)

LEMMA HeaderIs ==
  ASSUME raw \in Seq(FileToken), fd \in 0..Len(raw),
         NEW rest \in Seq(FileToken), NEW b \in Nat, b + Len(rest) = fd, Behind(raw, b, rest, Len(rest))
  PROVE  HeaderAt(raw, b, rest, Header(rest))
  <1>0. /\ MagicSize \in Nat \ {0} /\ Len(rest) \in Nat /\ Len(raw) \in Nat
        /\ fd \in Nat /\ fd <= Len(raw)
    BY BufferAssumption
  <1>1. CASE Len(rest) >= MagicSize
    <2>1. Header(rest) = rest
      BY <1>1 DEF Header
    <2>2. b + Len(rest) <= Len(raw) /\ ~(Len(rest) < MagicSize)
      BY ONLY <1>0, <1>1, b + Len(rest) = fd
    <2> QED BY <1>0, <2>1, <2>2 DEF HeaderAt
  <1>2. CASE ~(Len(rest) >= MagicSize)
    <2>1. PICK k \in Nat : k = MagicSize - Len(rest)
      BY ONLY <1>0, <1>2
    <2>2. PICK t : t = NextTokens(k)
      OBVIOUS
    <2>3. /\ t \in Seq(FileToken) /\ Len(t) \in 0..k /\ fd + Len(t) <= Len(raw)
          /\ Behind(raw, fd, t, Len(t)) /\ (Len(t) < k => fd + Len(t) = Len(raw))
      BY ONLY <2>2, raw \in Seq(FileToken), fd \in 0..Len(raw), k \in Nat, NextFacts
    <2>4. PICK h : h = rest \o t
      OBVIOUS
    <2>5. Header(rest) = h
      BY <1>2, <2>1, <2>2, <2>4 DEF Header
    <2>6. /\ h \in Seq(FileToken) /\ Len(h) = Len(rest) + Len(t)
          /\ \A i \in 1..Len(rest) : h[i] = rest[i]
          /\ \A i \in 1..Len(t) : h[Len(rest) + i] = t[i]
      BY ONLY <2>3, <2>4, rest \in Seq(FileToken), ConcatParts
    <2>7. ASSUME NEW i \in 1..Len(h) PROVE h[i] = raw[b + i]
      <3>0. Len(t) \in Nat
        BY ONLY <2>3, k \in Nat
      <3>1. CASE i <= Len(rest)
        <4>1. i \in 1..Len(rest)
          BY ONLY <1>0, <2>6, <3>0, <3>1, i \in 1..Len(h)
        <4> QED BY <2>6, <4>1 DEF Behind
      <3>2. CASE ~(i <= Len(rest))
        <4>1. PICK j \in 1..Len(t) : i = Len(rest) + j
          <5>1. i - Len(rest) \in 1..Len(t) /\ i = Len(rest) + (i - Len(rest))
            BY ONLY <1>0, <2>6, <3>0, <3>2, i \in 1..Len(h)
          <5> QED BY ONLY <5>1
        <4>2. h[i] = t[j] /\ t[j] = raw[fd + j]
          BY ONLY <2>3, <2>6, <4>1 DEF Behind
        <4>3. fd + j = b + i
          BY ONLY <1>0, <4>1, <3>0, b \in Nat, b + Len(rest) = fd
        <4> QED BY ONLY <4>2, <4>3
      <3> QED BY <3>1, <3>2
    <2>8. Behind(raw, b, h, Len(h))
      BY ONLY <2>7 DEF Behind
    <2>9. /\ Len(h) \in Nat /\ b + Len(h) <= Len(raw) /\ Len(h) <= MagicSize
          /\ Len(h) < MagicSize => b + Len(h) = Len(raw)
      BY ONLY <1>0, <2>1, <2>3, <2>6, k \in Nat, b \in Nat, b + Len(rest) = fd
    <2> QED BY ONLY <2>5, <2>6, <2>8, <2>9 DEF HeaderAt
  <1> QED BY <1>1, <1>2

\* The format is found out exactly where a member begins.
LEMMA DetectIs ==
  ASSUME NEW s, NEW b \in Nat, NEW rest, NEW h, HeaderAt(s, b, rest, h), Len(s) \in Nat
  PROVE  /\ DetectMagic(h) \in AnyFormat \cup {"unknown"}
         /\ DetectMagic(h) # "unknown" <=> MagicAt(s, b)
  <1>0. /\ h \in Seq(FileToken) /\ Len(h) \in Nat
        /\ b + Len(h) <= Len(s) /\ \A i \in 1..Len(h) : h[i] = s[b + i]
        /\ Len(h) < MagicSize => b + Len(h) = Len(s)
        /\ MagicSize \in Nat \ {0}
    BY BufferAssumption DEF HeaderAt, Behind
  <1>1. ASSUME DetectMagic(h) # "unknown" PROVE MagicAt(s, b) /\ DetectMagic(h) \in AnyFormat
    <2>1. /\ Len(h) >= MagicSize /\ h[1].kind = "magic" /\ DetectMagic(h) = h[1].format
          /\ \A i \in 1..MagicSize : h[i] = h[1]
      BY <1>1 DEF DetectMagic
    <2>2. \A i \in 1..MagicSize : i \in 1..Len(h)
      BY ONLY <1>0, <2>1
    <2>3. 1 \in 1..MagicSize
      BY ONLY <1>0
    <2>4. h[1] \in FileToken
      BY ONLY <1>0, <2>2, <2>3, ElementOfSeq
    <2>5. DetectMagic(h) \in AnyFormat
      BY ONLY <2>1, <2>4, TokenFacts
    <2>6. b + MagicSize <= Len(s)
      BY ONLY <1>0, <2>1, b \in Nat, Len(s) \in Nat
    <2>7. s[b + 1] = h[1] /\ \A i \in 1..MagicSize : s[b + i] = h[1]
      BY ONLY <1>0, <2>1, <2>2, <2>3
    <2> QED BY ONLY <2>1, <2>5, <2>6, <2>7 DEF MagicAt
  <1>2. ASSUME MagicAt(s, b) PROVE DetectMagic(h) # "unknown"
    <2>1. /\ b + MagicSize <= Len(s) /\ s[b + 1].kind = "magic"
          /\ \A i \in 1..MagicSize : s[b + i] = s[b + 1]
      BY ONLY <1>2 DEF MagicAt
    <2>2. Len(h) >= MagicSize
      BY ONLY <1>0, <2>1, b \in Nat, Len(s) \in Nat
    <2>3. \A i \in 1..MagicSize : i \in 1..Len(h)
      BY ONLY <1>0, <2>2
    <2>4. 1 \in 1..MagicSize
      BY ONLY <1>0
    <2>5. h[1] = s[b + 1] /\ \A i \in 1..MagicSize : h[i] = s[b + i]
      BY ONLY <1>0, <2>3, <2>4
    <2>6. h[1].kind = "magic" /\ \A i \in 1..MagicSize : h[i] = h[1]
      BY ONLY <2>1, <2>5
    <2>7. DetectMagic(h) = h[1].format
      BY ONLY <2>2, <2>6 DEF DetectMagic
    <2>8. h[1] \in FileToken
      BY ONLY <1>0, <2>3, <2>4, ElementOfSeq
    <2> QED BY ONLY <2>6, <2>7, <2>8, TokenFacts
  <1>3. DetectMagic(h) \in AnyFormat \cup {"unknown"}
    BY ONLY <1>1
  <1> QED BY ONLY <1>1, <1>2, <1>3

\* The four outcomes of ReadFactory at position b of the file.
Outcome(b, h, required) ==
    /\ fd' = b + Len(h) /\ rawAmount' = rawAmount + (fd' - fd)
    /\ format' \in AnyFormat \cup {"unknown"}
    /\ \/ reader' = "Complete" /\ input' = <<>> /\ h = <<>>
       \/ reader' = "ReadStream" /\ input' = h /\ MagicAt(raw, b)
       \/ reader' = "UncompressedWithHeader" /\ input' = h /\ h # <<>> /\ ~MagicAt(raw, b) /\ ~required
       \/ reader' = "threw" /\ input' = <<>> /\ h # <<>> /\ ~MagicAt(raw, b) /\ required

LEMMA FactoryOutcome ==
  ASSUME raw \in Seq(FileToken), fd \in 0..Len(raw),
         NEW rest \in Seq(FileToken), NEW b \in Nat, b + Len(rest) = fd, Behind(raw, b, rest, Len(rest)),
         NEW required \in BOOLEAN, ReadFactory(rest, required)
  PROVE  \E h : HeaderAt(raw, b, rest, h) /\ Outcome(b, h, required)
  <1>1. PICK h : h = Header(rest)
    OBVIOUS
  <1>2. HeaderAt(raw, b, rest, h)
    BY ONLY <1>1, raw \in Seq(FileToken), fd \in 0..Len(raw), rest \in Seq(FileToken), b \in Nat,
            b + Len(rest) = fd, Behind(raw, b, rest, Len(rest)), HeaderIs
  <1>3. Len(raw) \in Nat /\ Len(rest) \in Nat
    OBVIOUS
  <1>4. /\ DetectMagic(h) \in AnyFormat \cup {"unknown"}
        /\ DetectMagic(h) # "unknown" <=> MagicAt(raw, b)
    BY ONLY <1>2, <1>3, b \in Nat, DetectIs
  <1>5. /\ fd' = fd + (Len(h) - Len(rest)) /\ rawAmount' = rawAmount + (Len(h) - Len(rest))
        /\ format' = DetectMagic(h)
        /\ \/ h = <<>> /\ reader' = "Complete" /\ input' = <<>>
           \/ DetectMagic(h) # "unknown" /\ reader' = "ReadStream" /\ input' = h
           \/ h # <<>> /\ DetectMagic(h) = "unknown" /\ ~required
              /\ reader' = "UncompressedWithHeader" /\ input' = h
           \/ h # <<>> /\ DetectMagic(h) = "unknown" /\ required /\ reader' = "threw" /\ input' = <<>>
    BY ONLY <1>1, ReadFactory(rest, required) DEF ReadFactory
  <1>6. Len(h) \in Nat
    BY <1>2 DEF HeaderAt
  <1>7. fd' = b + Len(h) /\ fd' - fd = Len(h) - Len(rest)
    <2>1. PICK x \in Nat : x = Len(h)
      BY ONLY <1>6
    <2>2. PICK y \in Nat : y = Len(rest)
      BY ONLY <1>3
    <2>3. fd = b + y /\ fd' = fd + (x - y)
      BY ONLY <1>5, <2>1, <2>2, b + Len(rest) = fd
    <2>4. fd' = b + x /\ fd' - fd = x - y
      BY ONLY <2>3, b \in Nat, x \in Nat, y \in Nat
    <2> QED BY ONLY <2>1, <2>2, <2>4
  <1>8. rawAmount' = rawAmount + (fd' - fd)
    BY ONLY <1>5, <1>7
  <1>9. format' \in AnyFormat \cup {"unknown"}
    BY ONLY <1>4, <1>5
  <1>10. Outcome(b, h, required)
    BY ONLY <1>4, <1>5, <1>7, <1>8, <1>9 DEF Outcome
  <1> QED BY ONLY <1>2, <1>10

-----------------------------------------------------------------------------
(* The reader's steps *)

\* What the invariant says of the numbers, for the arithmetic.
LEMMA ReaderFacts ==
  ASSUME ReaderInv
  PROVE  /\ raw \in Seq(FileToken) /\ Len(raw) \in Nat
         /\ fd \in Nat /\ fd <= Len(raw) /\ fd \in 0..Len(raw)
         /\ input \in Seq(FileToken) /\ Len(input) \in Nat /\ Len(input) <= fd
         /\ Len(input) <= InputBuffer
         /\ Passed \in Nat /\ Passed + Len(input) = fd /\ Passed <= Len(raw)
         /\ Behind(raw, Passed, input, Len(input))
         /\ want \in 0..MaxAmount /\ rawAmount = fd /\ inside \in Nat
         /\ MagicSize \in Nat \ {0} /\ InputBuffer \in Nat \ {0} /\ MaxAmount \in Nat \ {0}
         /\ MagicSize <= InputBuffer
  <1>1. /\ raw \in Seq(FileToken) /\ fd \in 0..Len(raw) /\ input \in Seq(FileToken)
        /\ Len(input) <= fd /\ Len(input) <= InputBuffer
        /\ Behind(raw, Passed, input, Len(input)) /\ want \in 0..MaxAmount /\ rawAmount = fd
        /\ inside \in Nat
    BY DEF ReaderInv, FileAt, InputAt, ReaderTypeOK, RawAmountExact
  <1>2. Len(raw) \in Nat /\ Len(input) \in Nat
    BY <1>1
  <1>3. fd \in Nat /\ fd <= Len(raw)
    BY ONLY <1>1, <1>2
  <1>4. Passed \in Nat /\ Passed + Len(input) = fd /\ Passed <= Len(raw)
    BY ONLY <1>1, <1>2, <1>3 DEF Passed
  <1>5. /\ MagicSize \in Nat \ {0} /\ InputBuffer \in Nat \ {0} /\ MaxAmount \in Nat \ {0}
        /\ MagicSize <= InputBuffer
    BY BufferAssumption
  <1> QED BY ONLY <1>1, <1>2, <1>3, <1>4, <1>5

\* The parts of the invariant that are to be shown of the state after a step
\* that leaves the file alone.
LEMMA ReaderPrimed ==
  ASSUME ReaderInv, UNCHANGED <<raw, fine>>,
         fd' \in 0..Len(raw), input' \in Seq(FileToken), Len(input') <= fd', Len(input') <= InputBuffer,
         Behind(raw, fd' - Len(input'), input', Len(input')),
         reader' # "threw" => delivered' + inside' = DataTo(raw, fd' - Len(input')), inside' \in Nat,
         rawAmount' = fd',
         reader' \in {"none", "threw", "Complete", "Uncompressed", "UncompressedWithHeader", "ReadStream"},
         format' \in AnyFormat \cup {"unknown"},
         want' \in 0..MaxAmount, delivered' \in Nat, result' \in -1..MaxAmount,
         fine => reader' # "threw", ReaderAt'
  PROVE  ReaderInv'
  <1>1. FileAt(raw, fine)'
    BY DEF ReaderInv
  <1>2. ReaderTypeOK'
    BY DEF ReaderTypeOK, AnyFormat
  <1>3. InputAt'
    BY DEF InputAt, Passed
  <1>4. RawAmountExact' /\ NoFalseAlarm'
    BY DEF RawAmountExact, NoFalseAlarm
  <1> QED BY ONLY <1>1, <1>2, <1>3, <1>4, ReaderAt' DEF ReaderInv

LEMMA BeginStep ==
  ASSUME ReaderInv, NEW amount \in 1..MaxAmount, Begin(amount)
  PROVE  ReaderInv'
  <1>0. /\ want = 0 /\ reader \notin {"none", "threw"} /\ want' = amount /\ result' = Pending
        /\ UNCHANGED <<raw, fine, fd, reader, format, input, inside, rawAmount, delivered>>
    BY DEF Begin
  <1>1. want' \in 0..MaxAmount /\ result' \in -1..MaxAmount /\ want' > 0 /\ result' = -1
    <2>1. MaxAmount \in Nat
      BY BufferAssumption
    <2> QED BY ONLY <1>0, <2>1, amount \in 1..MaxAmount DEF Pending
  <1>2. ReaderTypeOK'
    BY ONLY <1>0, <1>1, ReaderInv DEF ReaderInv, ReaderTypeOK
  <1>3. FileAt(raw, fine)' /\ InputAt' /\ RawAmountExact' /\ NoFalseAlarm'
    BY ONLY <1>0, ReaderInv DEF ReaderInv, InputAt, Passed, RawAmountExact, NoFalseAlarm
  <1>4. ReaderAt'
    <2>1. result' = Pending /\ result' # 0 /\ reader' # "threw" /\ reader' # "none"
      BY ONLY <1>0, <1>1
    <2> QED BY ONLY <1>0, <2>1, ReaderInv DEF ReaderInv, ReaderAt, Passed
  <1> QED BY ONLY <1>2, <1>3, <1>4 DEF ReaderInv

LEMMA CompleteStep ==
  ASSUME ReaderInv, ReadComplete
  PROVE  ReaderInv'
  <1>0. /\ want > 0 /\ reader = "Complete" /\ want' = 0 /\ delivered' = delivered + 0 /\ result' = 0
        /\ UNCHANGED <<raw, fine, fd, reader, format, input, inside, rawAmount>>
    BY DEF ReadComplete, Return
  <1>1. delivered \in Nat /\ MaxAmount \in Nat
    BY BufferAssumption DEF ReaderInv, ReaderTypeOK
  <1>2. delivered' = delivered /\ 0 \in 0..MaxAmount /\ 0 \in -1..MaxAmount /\ ~(want' > 0)
    BY ONLY <1>0, <1>1
  <1>3. ReaderTypeOK'
    BY ONLY <1>0, <1>2, ReaderInv DEF ReaderInv, ReaderTypeOK
  <1>4. FileAt(raw, fine)' /\ InputAt' /\ RawAmountExact' /\ NoFalseAlarm'
    BY ONLY <1>0, <1>2, ReaderInv DEF ReaderInv, InputAt, Passed, RawAmountExact, NoFalseAlarm
  <1>5. ReaderAt'
    BY ONLY <1>0, <1>2, ReaderInv DEF ReaderInv, ReaderAt, Passed
  <1> QED BY ONLY <1>3, <1>4, <1>5 DEF ReaderInv

LEMMA UncompressedStep ==
  ASSUME ReaderInv, ReadUncompressed
  PROVE  ReaderInv'
  <1>0. /\ want > 0 /\ reader = "Uncompressed"
        /\ UNCHANGED <<raw, fine, reader, format, input, inside>>
    BY DEF ReadUncompressed
  <1>1. PICK n \in 0..Len(NextTokens(want)) :
          /\ n = 0 => fd = Len(raw)
          /\ want' = 0 /\ delivered' = delivered + n /\ result' = n
          /\ fd' = fd + n /\ rawAmount' = rawAmount + n
    BY DEF ReadUncompressed, Return
  <1>2. input = <<>> /\ AllData(raw) /\ fine /\ inside = 0 /\ inside' = 0
    BY <1>0 DEF ReaderInv, ReaderAt
  <1>3. /\ raw \in Seq(FileToken) /\ Len(raw) \in Nat
        /\ fd \in Nat /\ fd <= Len(raw) /\ fd \in 0..Len(raw)
        /\ want \in 0..MaxAmount /\ rawAmount = fd /\ MaxAmount \in Nat
    BY ReaderFacts
  <1>4. Len(NextTokens(want)) \in 0..want /\ fd + Len(NextTokens(want)) <= Len(raw)
    <2>1. want \in Nat
      BY ONLY <1>3
    <2> QED BY ONLY <1>3, <2>1, NextFacts
  <1>5. n \in Nat /\ n <= want /\ fd + n <= Len(raw)
    BY ONLY <1>3, <1>4, n \in 0..Len(NextTokens(want))
  <1>6. delivered = DataTo(raw, fd) /\ delivered \in Nat
    <2>1. Passed = fd
      BY <1>2, <1>3 DEF Passed
    <2>2. delivered + inside = DataTo(raw, fd) /\ delivered \in Nat
      BY <1>0, <2>1 DEF ReaderInv, InputAt, ReaderTypeOK
    <2> QED BY ONLY <1>2, <2>2
  <1>7. DataTo(raw, fd + n) = DataTo(raw, fd) + n
    BY ONLY <1>2, <1>3, <1>5, AllDataCount
  <1>8. input' = <<>> /\ Len(input') = 0 /\ input' \in Seq(FileToken)
    BY <1>0, <1>2
  <1>9. /\ fd' \in 0..Len(raw) /\ rawAmount' = fd' /\ fd' - Len(input') = fd + n /\ Len(input') <= fd'
        /\ Len(input') <= InputBuffer /\ want' \in 0..MaxAmount /\ delivered' \in Nat
        /\ result' \in -1..MaxAmount
    <2>1. InputBuffer \in Nat
      BY BufferAssumption
    <2> QED BY ONLY <1>1, <1>3, <1>5, <1>6, <1>8, <2>1
  <1>10. delivered' + inside' = DataTo(raw, fd' - Len(input')) /\ inside' \in Nat
    BY ONLY <1>1, <1>2, <1>6, <1>7, <1>9
  <1>11. Behind(raw, fd' - Len(input'), input', Len(input'))
    BY ONLY <1>8 DEF Behind
  <1>12. reader' = "Uncompressed" /\ format' \in AnyFormat \cup {"unknown"}
    BY <1>0 DEF ReaderInv, ReaderTypeOK, AnyFormat
  <1>13. ReaderAt'
    <2>1. result' = 0 => fd' = Len(raw)
      BY ONLY <1>1, <1>3
    <2>2. ~(want' > 0)
      BY ONLY <1>1
    <2> QED BY ONLY <1>0, <1>2, <1>8, <1>12, <2>1, <2>2 DEF ReaderAt
  <1>14. UNCHANGED <<raw, fine>>
    BY ONLY <1>0
  <1> QED BY ONLY <1>8, <1>9, <1>10, <1>11, <1>12, <1>13, <1>14, ReaderInv, ReaderPrimed

LEMMA WithHeaderStep ==
  ASSUME ReaderInv, ReadWithHeader
  PROVE  ReaderInv'
  <1>1. PICK n : n = IF want < Len(input) THEN want ELSE Len(input)
    OBVIOUS
  <1>0. /\ want > 0 /\ reader = "UncompressedWithHeader"
        /\ want' = 0 /\ delivered' = delivered + n /\ result' = n
        /\ input' = SubSeq(input, n + 1, Len(input))
        /\ reader' = IF input' = <<>> THEN "Uncompressed" ELSE reader
        /\ UNCHANGED <<raw, fine, fd, format, inside, rawAmount>>
    BY <1>1 DEF ReadWithHeader, Return
  <1>2. input # <<>> /\ AllData(raw) /\ fine /\ inside = 0 /\ inside' = 0
    BY <1>0 DEF ReaderInv, ReaderAt
  <1>3. /\ raw \in Seq(FileToken) /\ Len(raw) \in Nat
        /\ fd \in Nat /\ fd <= Len(raw) /\ fd \in 0..Len(raw)
        /\ input \in Seq(FileToken) /\ Len(input) \in Nat /\ Len(input) <= fd /\ Len(input) <= InputBuffer
        /\ Passed \in Nat /\ Passed + Len(input) = fd /\ Passed <= Len(raw)
        /\ Behind(raw, Passed, input, Len(input))
        /\ want \in 0..MaxAmount /\ rawAmount = fd /\ MaxAmount \in Nat /\ InputBuffer \in Nat
    BY ReaderFacts
  <1>4. Len(input) # 0
    BY ONLY <1>2, <1>3, EmptySeq
  <1>5. n \in 1..Len(input) /\ n <= want /\ n \in 0..Len(input) /\ n \in Nat
    BY ONLY <1>0, <1>1, <1>3, <1>4
  <1>6. PICK p \in Nat : p = Passed
    BY ONLY <1>3
  <1>7. /\ input' \in Seq(FileToken) /\ Len(input') = Len(input) - n
        /\ Behind(raw, p + n, input', Len(input) - n)
    BY ONLY <1>0, <1>3, <1>5, <1>6, BehindPart
  <1>8. delivered = DataTo(raw, p) /\ delivered \in Nat
    <2>1. delivered + inside = DataTo(raw, p) /\ delivered \in Nat
      BY <1>0, <1>6 DEF ReaderInv, InputAt, ReaderTypeOK
    <2> QED BY ONLY <1>2, <2>1
  <1>9. /\ fd' = fd /\ fd' \in 0..Len(raw) /\ Len(input') <= fd' /\ Len(input') <= InputBuffer
        /\ fd' - Len(input') = p + n /\ p \in 0..Len(raw) /\ p + n <= Len(raw)
        /\ rawAmount' = fd' /\ want' \in 0..MaxAmount /\ delivered' \in Nat /\ result' \in -1..MaxAmount
        /\ result' # 0 /\ ~(want' > 0)
    <2>1. PICK l \in Nat : l = Len(input)
      BY ONLY <1>3
    <2>2. PICK m \in Nat : m = Len(raw)
      BY ONLY <1>3
    <2>3. fd' = fd /\ fd \in Nat /\ fd <= m /\ l <= fd /\ l <= InputBuffer /\ p + l = fd
      BY ONLY <1>0, <1>3, <1>6, <2>1, <2>2
    <2>4. Len(input') = l - n /\ n \in 1..l
      BY ONLY <1>5, <1>7, <2>1
    <2>5. /\ fd' \in 0..m /\ l - n <= fd' /\ l - n <= InputBuffer
          /\ fd' - (l - n) = p + n /\ p \in 0..m /\ p + n <= m
      BY ONLY <1>3, <2>3, <2>4, p \in Nat, l \in Nat, m \in Nat
    <2>6. want' \in 0..MaxAmount /\ delivered' \in Nat /\ result' \in -1..MaxAmount
          /\ result' # 0 /\ ~(want' > 0)
      BY ONLY <1>0, <1>3, <1>5, <1>8
    <2> QED BY ONLY <1>0, <1>3, <2>1, <2>2, <2>3, <2>4, <2>5, <2>6
  <1>10. DataTo(raw, p + n) = DataTo(raw, p) + n
    BY ONLY <1>2, <1>3, <1>5, <1>9, AllDataCount
  <1>11. delivered' + inside' = DataTo(raw, fd' - Len(input')) /\ inside' \in Nat
    BY ONLY <1>0, <1>2, <1>8, <1>9, <1>10
  <1>12. Behind(raw, fd' - Len(input'), input', Len(input'))
    BY ONLY <1>7, <1>9
  <1>13. reader' = (IF input' = <<>> THEN "Uncompressed" ELSE "UncompressedWithHeader")
    BY ONLY <1>0
  <1>14. format' \in AnyFormat \cup {"unknown"} /\ UNCHANGED <<raw, fine>>
    BY <1>0 DEF ReaderInv, ReaderTypeOK, AnyFormat
  <1>15. ReaderAt'
    BY ONLY <1>2, <1>9, <1>13, <1>14 DEF ReaderAt
  <1>16. reader' \in {"Uncompressed", "UncompressedWithHeader"}
    BY ONLY <1>13
  <1> QED BY ONLY <1>7, <1>9, <1>11, <1>12, <1>14, <1>15, <1>16, ReaderInv, ReaderPrimed

LEMMA InputStep ==
  ASSUME ReaderInv, ReadInput
  PROVE  ReaderInv'
  <1>0. /\ want > 0 /\ reader = "ReadStream" /\ input = <<>> /\ fd < Len(raw)
        /\ input' = NextTokens(InputBuffer) /\ fd' = fd + Len(input')
        /\ rawAmount' = rawAmount + Len(input')
        /\ UNCHANGED <<raw, fine, reader, format, inside, want, delivered, result>>
    BY DEF ReadInput
  <1>1. /\ raw \in Seq(FileToken) /\ Len(raw) \in Nat
        /\ fd \in Nat /\ fd <= Len(raw) /\ fd \in 0..Len(raw) /\ rawAmount = fd /\ InputBuffer \in Nat
    BY ReaderFacts
  <1>2. /\ input' \in Seq(FileToken) /\ Len(input') \in 0..InputBuffer
        /\ fd + Len(input') <= Len(raw) /\ Behind(raw, fd, input', Len(input'))
    BY ONLY <1>0, <1>1, NextFacts
  <1>3. delivered + inside = DataTo(raw, fd) /\ delivered \in Nat /\ inside \in Nat
    <2>1. Passed = fd
      BY <1>0, <1>1 DEF Passed
    <2> QED BY <1>0, <2>1 DEF ReaderInv, InputAt, ReaderTypeOK
  <1>4. /\ fd' \in 0..Len(raw) /\ Len(input') <= fd' /\ Len(input') <= InputBuffer
        /\ fd' - Len(input') = fd /\ rawAmount' = fd'
    BY ONLY <1>0, <1>1, <1>2
  <1>5. /\ Behind(raw, fd' - Len(input'), input', Len(input'))
        /\ delivered' + inside' = DataTo(raw, fd' - Len(input')) /\ delivered' \in Nat /\ inside' \in Nat
    BY ONLY <1>0, <1>2, <1>3, <1>4
  <1>6. /\ reader' = "ReadStream" /\ format' \in AnyFormat \cup {"unknown"} /\ UNCHANGED <<raw, fine>>
        /\ want' \in 0..MaxAmount /\ result' \in -1..MaxAmount
    BY <1>0 DEF ReaderInv, ReaderTypeOK, AnyFormat
  <1>7. ReaderAt'
    <2>1. ~AllData(raw) /\ result' = Pending /\ result' # 0
      BY <1>0 DEF ReaderInv, ReaderAt, Pending
    <2>2. Passed' < Len(raw)
      BY ONLY <1>0, <1>4 DEF Passed
    <2> QED BY ONLY <1>6, <2>1, <2>2 DEF ReaderAt
  <1> QED BY ONLY <1>2, <1>4, <1>5, <1>6, <1>7, ReaderInv, ReaderPrimed

LEMMA CutOffStep ==
  ASSUME ReaderInv, ReadCutOff
  PROVE  ReaderInv'
  <1>0. /\ want > 0 /\ reader = "ReadStream" /\ input = <<>> /\ fd = Len(raw) /\ inside = 0
        /\ reader' = "threw" /\ want' = 0
        /\ UNCHANGED <<raw, fine, fd, format, input, inside, rawAmount, delivered, result>>
    BY DEF ReadCutOff
  <1>1. /\ raw \in Seq(FileToken) /\ Len(raw) \in Nat
        /\ fd \in Nat /\ rawAmount = fd /\ InputBuffer \in Nat /\ MaxAmount \in Nat
        /\ Behind(raw, Passed, input, Len(input))
    BY ReaderFacts
  <1>2. Passed = Len(raw) /\ Passed = fd - Len(input)
    BY <1>0, <1>1 DEF Passed
  <1>3. ~fine
    <2>1. ~AllData(raw) /\ (Passed < Len(raw) \/ raw[Passed].kind # "end")
      BY <1>0 DEF ReaderInv, ReaderAt
    <2>2. raw[Len(raw)].kind # "end"
      BY ONLY <1>1, <1>2, <2>1
    <2>3. FileAt(raw, fine)
      BY DEF ReaderInv
    <2> QED BY ONLY <2>1, <2>2, <2>3 DEF FileAt
  <1>4. ReaderTypeOK'
    <2>1. 0 \in 0..MaxAmount
      BY ONLY <1>1
    <2> QED BY ONLY <1>0, <2>1, ReaderInv DEF ReaderInv, ReaderTypeOK
  <1>5. FileAt(raw, fine)' /\ InputAt' /\ RawAmountExact' /\ NoFalseAlarm'
    BY ONLY <1>0, <1>3, ReaderInv DEF ReaderInv, InputAt, Passed, RawAmountExact, NoFalseAlarm
  <1>6. ReaderAt'
    <2>1. result' = Pending /\ result' # 0
      BY <1>0 DEF ReaderInv, ReaderAt, Pending
    <2>2. ~(want' > 0)
      BY ONLY <1>0
    <2> QED BY ONLY <1>0, <2>1, <2>2 DEF ReaderAt
  <1> QED BY ONLY <1>4, <1>5, <1>6 DEF ReaderInv


\* What a decoder takes is the next part of the file.
LEMMA TakenFacts ==
  ASSUME ReaderInv, NEW t \in 0..Len(input)
  PROVE  /\ TakenIn(t) \in Nat
         /\ DataTo(raw, Passed + t) = DataTo(raw, Passed) + TakenIn(t)
         /\ t > 0 => input[t] = raw[Passed + t]
         /\ Rest(t) \in Seq(FileToken) /\ Len(Rest(t)) = Len(input) - t
         /\ Behind(raw, Passed + t, Rest(t), Len(input) - t)
  <1>0. /\ input \in Seq(FileToken) /\ Len(input) \in Nat /\ Passed \in Nat
        /\ Behind(raw, Passed, input, Len(input))
    BY ReaderFacts
  <1>1. t \in Nat
    BY ONLY <1>0, t \in 0..Len(input)
  <1>2. DataOf(SubSeq(input, 1, t)) = DataTo(input, t) /\ DataTo(input, t) \in 0..t
    BY ONLY <1>0, <1>1, t \in 0..Len(input), DataUpTo, DataToType
  <1>3. Behind(raw, Passed, input, t)
    <2>1. \A i \in 1..t : i \in 1..Len(input)
      BY ONLY <1>0, <1>1, t \in 0..Len(input)
    <2> QED BY ONLY <1>0, <2>1 DEF Behind
  <1>4. DataTo(raw, Passed + t) = DataTo(raw, Passed) + DataTo(input, t)
    BY ONLY <1>0, <1>1, <1>3, DataSplit
  <1>5. t > 0 => input[t] = raw[Passed + t]
    <2>1. t > 0 => t \in 1..t
      BY ONLY <1>1
    <2> QED BY ONLY <1>3, <2>1 DEF Behind
  <1>6. PICK p \in Nat : p = Passed
    BY ONLY <1>0
  <1>7. PICK s : s = Rest(t)
    OBVIOUS
  <1>8. s = SubSeq(input, t + 1, Len(input)) /\ TakenIn(t) = DataTo(input, t)
    BY ONLY <1>2, <1>7 DEF Rest, TakenIn
  <1>9. /\ s \in Seq(FileToken) /\ Len(s) = Len(input) - t
        /\ Behind(raw, p + t, s, Len(input) - t)
    BY ONLY <1>0, <1>1, <1>6, <1>8, t \in 0..Len(input), BehindPart
  <1>10. TakenIn(t) \in Nat
    BY ONLY <1>1, <1>2, <1>8
  <1> QED BY ONLY <1>4, <1>5, <1>6, <1>7, <1>8, <1>9, <1>10

LEMMA DecodesStep ==
  ASSUME ReaderInv, ReadDecodes
  PROVE  ReaderInv'
  <1>0. want > 0 /\ reader = "ReadStream" /\ UNCHANGED <<raw, fine, fd, reader, format, rawAmount>>
    BY DEF ReadDecodes
  <1>1. PICK t \in 0..Len(input), n \in 0..want :
          /\ Process(t, n) /\ ~EndTaken(t) /\ input' = Rest(t)
          /\ IF n > 0 THEN Return(n) ELSE UNCHANGED <<want, delivered, result>>
    BY DEF ReadDecodes
  <1>2. PICK p, d : p = Passed /\ d = TakenIn(t)
    OBVIOUS
  <1>3. /\ d \in Nat
        /\ DataTo(raw, p + t) = DataTo(raw, p) + d /\ (t > 0 => input[t] = raw[p + t])
        /\ input' \in Seq(FileToken) /\ Len(input') = Len(input) - t
        /\ Behind(raw, p + t, input', Len(input) - t)
    BY ONLY <1>1, <1>2, ReaderInv, TakenFacts
  <1>4. /\ raw \in Seq(FileToken) /\ Len(raw) \in Nat
        /\ fd \in Nat /\ fd <= Len(raw) /\ fd \in 0..Len(raw)
        /\ Len(input) \in Nat /\ Len(input) <= InputBuffer /\ inside \in Nat
        /\ p \in Nat /\ p + Len(input) = fd
        /\ want \in 0..MaxAmount /\ rawAmount = fd /\ MaxAmount \in Nat /\ InputBuffer \in Nat
    BY ONLY <1>2, ReaderInv, ReaderFacts
  <1>5. PICK l \in Nat : l = Len(input)
    BY ONLY <1>4
  <1>6. /\ t \in 0..l /\ Len(input') = l - t /\ p + l = fd /\ l <= InputBuffer
        /\ Behind(raw, p + t, input', l - t)
    BY ONLY <1>1, <1>3, <1>4, <1>5, t \in 0..Len(input)
  <1>7. l - t <= fd /\ l - t <= InputBuffer /\ fd - (l - t) = p + t
    BY ONLY <1>4, <1>6, l \in Nat
  <1>8. /\ fd' = fd /\ Len(input') <= fd' /\ Len(input') <= InputBuffer /\ fd' - Len(input') = p + t
        /\ fd' \in 0..Len(raw) /\ rawAmount' = fd'
    BY ONLY <1>0, <1>4, <1>6, <1>7
  <1>9. Behind(raw, fd' - Len(input'), input', Len(input'))
    BY ONLY <1>6, <1>8
  <1>10. delivered + inside = DataTo(raw, p) /\ delivered \in Nat /\ result = Pending
    BY <1>0, <1>2 DEF ReaderInv, InputAt, ReaderTypeOK, ReaderAt
  <1>11. n <= inside + d /\ inside' = inside + d - n
    BY ONLY <1>1, <1>2 DEF Process
  <1>12. n \in Nat /\ n <= want /\ n <= MaxAmount
    BY ONLY <1>4, n \in 0..want
  <1>13. /\ delivered' = delivered + n /\ delivered' \in Nat
         /\ want' \in 0..MaxAmount /\ result' \in -1..MaxAmount /\ result' # 0
         /\ want' > 0 => result' = Pending
    <2>1. CASE n > 0
      <3>1. want' = 0 /\ delivered' = delivered + n /\ result' = n
        BY ONLY <1>1, <2>1 DEF Return
      <3> QED BY ONLY <1>4, <1>10, <1>12, <2>1, <3>1
    <2>2. CASE ~(n > 0)
      <3>1. want' = want /\ delivered' = delivered /\ result' = result
        BY ONLY <1>1, <2>2
      <3>2. n = 0
        BY ONLY <1>12, <2>2
      <3> QED BY ONLY <1>4, <1>10, <3>1, <3>2 DEF Pending
    <2> QED BY <2>1, <2>2
  <1>14. delivered' + inside' = DataTo(raw, fd' - Len(input')) /\ inside' \in Nat
    <2>1. delivered' + inside' = (delivered + inside) + d /\ inside' \in Nat
      BY ONLY <1>3, <1>4, <1>10, <1>11, <1>12, <1>13
    <2> QED BY ONLY <1>3, <1>8, <1>10, <2>1
  <1>15. reader' = "ReadStream" /\ format' \in AnyFormat \cup {"unknown"} /\ UNCHANGED <<raw, fine>>
    BY <1>0 DEF ReaderInv, ReaderTypeOK, AnyFormat
  <1>16. ReaderAt'
    <2>1. ~AllData(raw) /\ (p < Len(raw) \/ raw[p].kind # "end")
      BY <1>0, <1>2 DEF ReaderInv, ReaderAt
    <2>2. Passed' = p + t
      BY ONLY <1>8 DEF Passed
    <2>3. p + t < Len(raw) \/ raw[p + t].kind # "end"
      <3>1. CASE t = 0
        <4>1. p + t = p
          BY ONLY <1>4, <3>1
        <4> QED BY ONLY <2>1, <4>1
      <3>2. CASE t # 0
        <4>1. t > 0
          BY ONLY <1>4, <3>2, t \in 0..Len(input)
        <4> QED BY ONLY <1>1, <1>3, <4>1 DEF EndTaken
      <3> QED BY ONLY <3>1, <3>2
    <2> QED BY ONLY <1>13, <1>15, <2>1, <2>2, <2>3 DEF ReaderAt
  <1> QED BY ONLY <1>3, <1>8, <1>9, <1>13, <1>14, <1>15, <1>16, ReaderInv, ReaderPrimed

\* Where the next reader begins: position b, with what the header has.
LEMMA AfterFactory ==
  ASSUME ReaderInv, UNCHANGED <<raw, fine>>, NEW b \in Nat, NEW rest, NEW h, NEW required \in BOOLEAN,
         HeaderAt(raw, b, rest, h), Outcome(b, h, required), Len(rest) <= InputBuffer, Len(rest) \in Nat,
         b + Len(rest) = fd,
         reader' # "threw" => delivered' = DataTo(raw, b), inside' = 0,
         want' \in 0..MaxAmount, delivered' \in Nat, result' \in -1..MaxAmount,
         fine => reader' # "threw", ReaderAt'
  PROVE  ReaderInv'
  <1>0. /\ raw \in Seq(FileToken) /\ Len(raw) \in Nat /\ fd \in Nat /\ rawAmount = fd
        /\ MagicSize \in Nat \ {0} /\ InputBuffer \in Nat \ {0} /\ MagicSize <= InputBuffer
    BY ReaderFacts
  <1>1. /\ h \in Seq(FileToken) /\ Len(h) \in Nat
        /\ b + Len(h) <= Len(raw) /\ Behind(raw, b, h, Len(h))
        /\ Len(h) <= MagicSize \/ Len(h) = Len(rest)
    BY DEF HeaderAt
  <1>2. PICK l \in Nat : l = Len(h)
    BY ONLY <1>1
  <1>3. PICK m \in Nat : m = Len(rest)
    BY ONLY Len(rest) \in Nat
  <1>4. b + l <= Len(raw) /\ (l <= MagicSize \/ l = m) /\ m <= InputBuffer
    BY ONLY <1>1, <1>2, <1>3, Len(rest) <= InputBuffer
  <1>5. fd' = b + l /\ rawAmount' = rawAmount + (fd' - fd) /\ format' \in AnyFormat \cup {"unknown"}
    BY ONLY <1>2, Outcome(b, h, required) DEF Outcome
  <1>6. l <= InputBuffer /\ fd' \in 0..Len(raw) /\ rawAmount' = fd'
    BY ONLY <1>0, <1>4, <1>5, l \in Nat, m \in Nat, b \in Nat
  <1>7. \/ reader' = "threw" /\ input' = <<>>
        \/ reader' \in {"Complete", "ReadStream", "UncompressedWithHeader"} /\ input' = h
    BY ONLY Outcome(b, h, required) DEF Outcome
  <1>8. CASE reader' = "threw" /\ input' = <<>>
    <2>1. input' \in Seq(FileToken) /\ Len(input') = 0
      BY ONLY <1>8
    <2>2. Len(input') <= fd' /\ Len(input') <= InputBuffer
      BY ONLY <1>0, <1>6, <2>1
    <2>3. Behind(raw, fd' - Len(input'), input', Len(input'))
      BY ONLY <2>1 DEF Behind
    <2>4. inside' \in Nat
      OBVIOUS
    <2> QED BY <1>5, <1>6, <1>8, <2>1, <2>2, <2>3, <2>4, ReaderPrimed
  <1>9. CASE reader' \in {"Complete", "ReadStream", "UncompressedWithHeader"} /\ input' = h
    <2>1. input' \in Seq(FileToken) /\ Len(input') = l
      BY ONLY <1>1, <1>2, <1>9
    <2>2. Len(input') <= fd' /\ Len(input') <= InputBuffer /\ fd' - Len(input') = b
      BY ONLY <1>5, <1>6, <2>1, l \in Nat, b \in Nat
    <2>3. Behind(raw, fd' - Len(input'), input', Len(input'))
      BY ONLY <1>1, <1>9, <2>2
    <2>4. delivered' + inside' = DataTo(raw, fd' - Len(input')) /\ inside' \in Nat
      BY ONLY <1>9, <2>2, reader' # "threw" => delivered' = DataTo(raw, b), inside' = 0, delivered' \in Nat
    <2> QED BY <1>5, <1>6, <1>9, <2>1, <2>2, <2>3, <2>4, ReaderPrimed
  <1> QED BY ONLY <1>7, <1>8, <1>9

LEMMA OpenStep ==
  ASSUME ReaderInv, Open
  PROVE  ReaderInv'
  <1>0. reader = "none" /\ ReadFactory(<<>>, FALSE) /\ UNCHANGED <<raw, fine, inside, want, delivered, result>>
    BY DEF Open
  <1>1. fd = 0 /\ want = 0 /\ delivered = 0 /\ result = Pending /\ inside' = 0
    BY <1>0 DEF ReaderInv, ReaderAt, ReaderInit
  <1>2. /\ raw \in Seq(FileToken) /\ Len(raw) \in Nat /\ fd \in 0..Len(raw)
        /\ MagicSize \in Nat \ {0} /\ InputBuffer \in Nat \ {0} /\ MaxAmount \in Nat
    BY ReaderFacts
  <1>3. PICK rest : rest = <<>>
    OBVIOUS
  <1>4. rest \in Seq(FileToken) /\ Len(rest) = 0
    BY ONLY <1>3
  <1>5. 0 + Len(rest) = fd /\ Behind(raw, 0, rest, Len(rest)) /\ Len(rest) <= InputBuffer /\ Len(rest) \in Nat
    BY ONLY <1>1, <1>2, <1>4 DEF Behind
  <1>6. ReadFactory(rest, FALSE)
    BY ONLY <1>0, <1>3
  <1>7. PICK h : HeaderAt(raw, 0, rest, h) /\ Outcome(0, h, FALSE)
    BY ONLY <1>2, <1>4, <1>5, <1>6, 0 \in Nat, FALSE \in BOOLEAN, FactoryOutcome
  <1>8. DataTo(raw, 0) = 0 /\ delivered' = 0
    BY ONLY <1>0, <1>1, <1>2, DataToType
  <1>9. result' = Pending /\ result' # 0 /\ ~(want' > 0) /\ want' = 0
    BY ONLY <1>0, <1>1 DEF Pending
  <1>10. want' \in 0..MaxAmount /\ delivered' \in Nat /\ result' \in -1..MaxAmount
    BY ONLY <1>2, <1>8, <1>9 DEF Pending
  <1>11. FileAt(raw, fine)
    BY DEF ReaderInv
  <1>12. reader' # "threw" /\ ReaderAt'
    <2>1. CASE reader' = "Complete" /\ input' = <<>> /\ h = <<>>
      <3>1. Len(h) = 0 /\ fd' = 0 + Len(h) /\ (Len(h) < MagicSize => 0 + Len(h) = Len(raw))
        BY ONLY <1>7, <2>1 DEF HeaderAt, Outcome
      <3>2. fd' = Len(raw) /\ Len(raw) = 0
        BY ONLY <1>2, <3>1
      <3>3. raw = <<>>
        BY ONLY <1>2, <3>2, EmptySeq
      <3>4. fine
        BY ONLY <1>11, <3>3 DEF FileAt
      <3> QED BY ONLY <1>0, <1>1, <1>9, <2>1, <3>2, <3>4 DEF ReaderAt
    <2>2. CASE reader' = "ReadStream" /\ input' = h /\ MagicAt(raw, 0)
      <3>1. 0 + MagicSize <= Len(raw) /\ raw[0 + 1].kind = "magic"
        BY ONLY <2>2 DEF MagicAt
      <3>2. 0 < Len(raw) /\ 1 \in 1..Len(raw) /\ 0 + 1 = 1
        BY ONLY <1>2, <3>1
      <3>3. ~AllData(raw)
        BY ONLY <3>1, <3>2 DEF AllData
      <3>4. fd' = 0 + Len(h) /\ Len(h) \in Nat
        BY ONLY <1>7 DEF HeaderAt, Outcome
      <3>5. Passed' = 0
        BY ONLY <2>2, <3>4 DEF Passed
      <3> QED BY ONLY <1>0, <1>1, <1>9, <2>2, <3>2, <3>3, <3>5 DEF ReaderAt
    <2>3. CASE reader' = "UncompressedWithHeader" /\ input' = h /\ h # <<>> /\ ~MagicAt(raw, 0)
      <3>1. AllData(raw) /\ fine
        BY ONLY <1>11, <2>3 DEF FileAt
      <3> QED BY ONLY <1>0, <1>1, <1>9, <2>3, <3>1 DEF ReaderAt
    <2> QED BY ONLY <1>7, <2>1, <2>2, <2>3 DEF Outcome
  <1> QED BY ONLY <1>0, <1>1, <1>2, <1>5, <1>7, <1>8, <1>10, <1>12, ReaderInv, 0 \in Nat, FALSE \in BOOLEAN, AfterFactory

LEMMA EndsMemberStep ==
  ASSUME ReaderInv, ReadEndsMember
  PROVE  ReaderInv'
  <1>0. want > 0 /\ reader = "ReadStream" /\ UNCHANGED <<raw, fine>>
    BY DEF ReadEndsMember
  <1>1. PICK u \in 0..Len(input), n \in 0..want :
          /\ Process(u, n) /\ EndTaken(u) /\ inside' = 0 /\ ReadFactory(Rest(u), TRUE)
          /\ \/ reader' = "threw" /\ want' = 0 /\ UNCHANGED <<delivered, result>>
             \/ /\ reader' # "threw"
                /\ IF n > 0 THEN Return(n) ELSE UNCHANGED <<want, delivered, result>>
    BY DEF ReadEndsMember
  <1>20. PICK p, d, rest : p = Passed /\ d = TakenIn(u) /\ rest = Rest(u)
    OBVIOUS
  <1>2. u > 0 /\ input[u].kind = "end"
    BY ONLY <1>1 DEF EndTaken
  <1>3. /\ u \in 1..Len(input) /\ d \in Nat
        /\ DataTo(raw, p + u) = DataTo(raw, p) + d /\ input[u] = raw[p + u]
        /\ rest \in Seq(FileToken) /\ Len(rest) = Len(input) - u
        /\ Behind(raw, p + u, rest, Len(input) - u)
    <2>1. u \in 1..Len(input)
      BY ONLY <1>2, u \in 0..Len(input), ReaderInv, ReaderFacts
    <2> QED BY ONLY <1>20, <1>2, <2>1, u \in 0..Len(input), ReaderInv, TakenFacts
  <1>4. /\ raw \in Seq(FileToken) /\ Len(raw) \in Nat
        /\ fd \in Nat /\ fd <= Len(raw) /\ fd \in 0..Len(raw)
        /\ Len(input) \in Nat /\ Len(input) <= InputBuffer
        /\ p \in Nat /\ p + Len(input) = fd
        /\ want \in 0..MaxAmount /\ rawAmount = fd /\ MaxAmount \in Nat /\ InputBuffer \in Nat
        /\ MagicSize \in Nat \ {0} /\ inside \in Nat
    BY ONLY <1>20, ReaderInv, ReaderFacts
  <1>5. PICK l \in Nat : l = Len(input)
    BY ONLY <1>4
  <1>6. PICK b \in Nat : b = p + u
    BY ONLY <1>3, <1>4
  <1>7. /\ Len(rest) \in Nat /\ b + Len(rest) = fd /\ Behind(raw, b, rest, Len(rest))
        /\ Len(rest) <= InputBuffer /\ b \in 1..Len(raw)
    <2>1. Len(rest) = l - u /\ u \in 1..l /\ p + l = fd /\ l <= InputBuffer
      BY ONLY <1>3, <1>4, <1>5
    <2>2. /\ l - u \in Nat /\ b + (l - u) = fd /\ l - u <= InputBuffer /\ b \in 1..Len(raw)
      BY ONLY <1>4, <1>6, <2>1, l \in Nat
    <2> QED BY ONLY <1>3, <1>6, <2>1, <2>2
  <1>8. ReadFactory(rest, TRUE)
    BY ONLY <1>1, <1>20
  <1>9. PICK h : HeaderAt(raw, b, rest, h) /\ Outcome(b, h, TRUE)
    BY ONLY <1>3, <1>4, <1>7, <1>8, b \in Nat, TRUE \in BOOLEAN, FactoryOutcome
  <1>10. delivered + inside = DataTo(raw, p) /\ delivered \in Nat /\ result = Pending /\ ~AllData(raw)
    BY <1>0, <1>20 DEF ReaderInv, InputAt, ReaderTypeOK, ReaderAt
  <1>21. n = inside + d /\ n \in Nat /\ n <= want /\ n <= MaxAmount
    <2>1. n <= inside + d /\ 0 = inside + d - n
      BY ONLY <1>1, <1>20 DEF Process
    <2> QED BY ONLY <1>3, <1>4, <2>1, n \in 0..want
  <1>11. /\ reader' # "threw" => delivered' = delivered + n
         /\ delivered' \in Nat /\ want' \in 0..MaxAmount /\ result' \in -1..MaxAmount /\ result' # 0
         /\ want' > 0 => result' = Pending /\ reader' # "threw"
    <2>1. CASE reader' = "threw"
      <3>1. want' = 0 /\ delivered' = delivered /\ result' = result
        BY ONLY <1>1, <2>1
      <3> QED BY ONLY <1>4, <1>10, <2>1, <3>1 DEF Pending
    <2>2. CASE reader' # "threw" /\ ~(n > 0)
      <3>1. want' = want /\ delivered' = delivered /\ result' = result
        BY ONLY <1>1, <2>2
      <3>2. n = 0
        BY ONLY <1>21, <2>2
      <3> QED BY ONLY <1>4, <1>10, <2>2, <3>1, <3>2 DEF Pending
    <2>3. CASE reader' # "threw" /\ n > 0
      <3>1. want' = 0 /\ delivered' = delivered + n /\ result' = n
        BY ONLY <1>1, <2>3 DEF Return
      <3>2. PICK e : e = delivered
        OBVIOUS
      <3>3. e \in Nat /\ n \in Nat /\ MaxAmount \in Nat /\ n <= MaxAmount
        BY ONLY <1>4, <1>10, <1>21, <3>2
      <3>4. e + n \in Nat /\ n \in -1..MaxAmount /\ n # 0 /\ 0 \in 0..MaxAmount /\ ~(0 > 0)
        BY ONLY <2>3, <3>3
      <3> QED BY ONLY <3>1, <3>2, <3>4
    <2> QED BY ONLY <2>1, <2>2, <2>3
  <1>12. reader' # "threw" => delivered' = DataTo(raw, b)
    <2>1. delivered + n = (delivered + inside) + d
      BY ONLY <1>3, <1>4, <1>10, <1>21
    <2> QED BY ONLY <1>3, <1>6, <1>10, <1>11, <2>1
  <1>13. FileAt(raw, fine)
    BY DEF ReaderInv
  <1>14. raw[b].kind = "end"
    BY ONLY <1>2, <1>3, <1>6
  <1>15. h = <<>> => b = Len(raw) /\ fd' = b
    <2>1. SUFFICES ASSUME h = <<>> PROVE b = Len(raw) /\ fd' = b
      OBVIOUS
    <2>2. Len(h) = 0 /\ fd' = b + Len(h) /\ (Len(h) < MagicSize => b + Len(h) = Len(raw))
      BY ONLY <1>9, <2>1 DEF HeaderAt, Outcome
    <2> QED BY ONLY <1>4, <2>2, b \in Nat
  <1>16. h # <<>> => b < Len(raw)
    <2>1. SUFFICES ASSUME h # <<>> PROVE b < Len(raw)
      OBVIOUS
    <2>2. h \in Seq(FileToken) /\ Len(h) \in Nat /\ b + Len(h) <= Len(raw)
      BY ONLY <1>9 DEF HeaderAt
    <2>3. Len(h) # 0
      BY ONLY <2>1, <2>2, EmptySeq
    <2> QED BY ONLY <1>4, <2>2, <2>3, b \in Nat
  <1>17. fine => reader' # "threw"
    <2>1. SUFFICES ASSUME fine, reader' = "threw" PROVE FALSE
      OBVIOUS
    <2>2. h # <<>> /\ ~MagicAt(raw, b)
      BY ONLY <1>9, <2>1 DEF Outcome
    <2>3. Archive(raw)
      BY ONLY <1>10, <1>13, <2>1 DEF FileAt
    <2>4. b \in 0..(Len(raw) - 1)
      BY ONLY <1>4, <1>16, <2>2, b \in Nat
    <2> QED BY ONLY <1>14, <2>2, <2>3, <2>4 DEF Archive
  <1>18. ReaderAt'
    <2>0. raw' = raw /\ fine' = fine /\ inside' = 0 /\ ~AllData(raw) /\ result' # 0 /\ (want' > 0 => result' = Pending /\ reader' # "threw")
      BY ONLY <1>0, <1>1, <1>10, <1>11
    <2>1. CASE reader' = "Complete" /\ input' = <<>> /\ h = <<>>
      <3>1. fd' = Len(raw) /\ raw[Len(raw)].kind = "end"
        BY ONLY <1>14, <1>15, <2>1
      <3>2. fine
        BY ONLY <1>10, <1>13, <3>1 DEF FileAt
      <3> QED BY ONLY <2>0, <2>1, <3>1, <3>2 DEF ReaderAt
    <2>2. CASE reader' = "ReadStream" /\ input' = h /\ MagicAt(raw, b)
      <3>1. b + MagicSize <= Len(raw)
        BY ONLY <2>2 DEF MagicAt
      <3>2. fd' = b + Len(h) /\ Len(h) \in Nat
        BY ONLY <1>9 DEF HeaderAt, Outcome
      <3>3. Passed' = b
        BY ONLY <2>2, <3>2, b \in Nat DEF Passed
      <3>4. b < Len(raw)
        BY ONLY <1>4, <3>1, b \in Nat
      <3> QED BY ONLY <2>0, <2>2, <3>3, <3>4 DEF ReaderAt
    <2>3. CASE reader' = "threw"
      BY ONLY <2>0, <2>3 DEF ReaderAt
    <2> QED BY ONLY <1>9, <2>1, <2>2, <2>3 DEF Outcome
  <1> QED BY ONLY <1>0, <1>1, <1>7, <1>9, <1>11, <1>12, <1>17, <1>18, ReaderInv, b \in Nat, TRUE \in BOOLEAN, AfterFactory

LEMMA ReaderStep ==
  ASSUME ReaderInv, ReaderNext
  PROVE  ReaderInv'
  BY BeginStep, CompleteStep, UncompressedStep, WithHeaderStep, InputStep, CutOffStep, DecodesStep,
     OpenStep, EndsMemberStep
  DEF ReaderNext

-----------------------------------------------------------------------------
(* Files that are there, and files that were written *)

\* What pieces of a file are made of.
LEMMA MagicFacts ==
  ASSUME NEW f \in AnyFormat
  PROVE  /\ Magic(f) \in Seq(FileToken) /\ Len(Magic(f)) = MagicSize
         /\ \A i \in 1..MagicSize : Magic(f)[i] = [kind |-> "magic", format |-> f]
         /\ MagicAt(Magic(f), 0)
  <1>0. MagicSize \in Nat \ {0}
    BY BufferAssumption
  <1>1. [kind |-> "magic", format |-> f] \in FileToken
    BY DEF FileToken
  <1>2. /\ Magic(f) \in Seq(FileToken) /\ Len(Magic(f)) = MagicSize
        /\ \A i \in 1..MagicSize : Magic(f)[i] = [kind |-> "magic", format |-> f]
    BY <1>0, <1>1 DEF Magic
  <1>3. 0 + MagicSize <= Len(Magic(f)) /\ 0 + 1 \in 1..MagicSize /\ \A j \in 1..MagicSize : 0 + j \in 1..MagicSize
    BY ONLY <1>0, <1>2
  <1>4. Magic(f)[0 + 1].kind = "magic" /\ \A j \in 1..MagicSize : Magic(f)[0 + j] = Magic(f)[0 + 1]
    BY <1>2, <1>3
  <1> QED BY ONLY <1>2, <1>3, <1>4 DEF MagicAt

LEMMA DataFacts ==
  ASSUME NEW n \in Nat
  PROVE  Data(n) \in Seq(FileToken) /\ Len(Data(n)) = n /\ \A i \in 1..n : Data(n)[i] = DataToken
  <1>1. DataToken \in FileToken
    BY DEF FileToken
  <1> QED BY <1>1 DEF Data, DataToken

LEMMA EndFacts == <<End>> \in Seq(FileToken) /\ Len(<<End>>) = 1 /\ <<End>>[1] = End /\ End.kind = "end"
  <1>1. End \in FileToken
    BY DEF FileToken
  <1>2. End.kind = "end"
    BY DEF End
  <1> QED BY <1>1, <1>2

\* A piece of a file has no end of a member but at its own end.
EndsOnlyLast(t) == \A i \in 1..(Len(t) - 1) : t[i].kind # "end"

\* A whole member.
WholeMember(t) ==
    /\ t \in Seq(FileToken) /\ t # <<>> /\ MagicAt(t, 0)
    /\ EndsOnlyLast(t) /\ t[Len(t)].kind = "end"

LEMMA MagicAtConcat ==
  ASSUME NEW s \in Seq(FileToken), NEW t \in Seq(FileToken)
  PROVE  /\ \A i \in Nat : MagicAt(s, i) => MagicAt(s \o t, i)
         /\ MagicAt(t, 0) => MagicAt(s \o t, Len(s))
  <1>0. MagicSize \in Nat \ {0}
    BY BufferAssumption
  <1>1. PICK w : w = s \o t
    OBVIOUS
  <1>2. /\ Len(s) \in Nat /\ Len(t) \in Nat /\ Len(w) = Len(s) + Len(t)
        /\ \A i \in 1..Len(s) : w[i] = s[i]
        /\ \A i \in 1..Len(t) : w[Len(s) + i] = t[i]
    BY ONLY <1>1, s \in Seq(FileToken), t \in Seq(FileToken), ConcatParts
  <1>3. ASSUME NEW i \in Nat, MagicAt(s, i) PROVE MagicAt(w, i)
    <2>1. i + MagicSize <= Len(s) /\ s[i + 1].kind = "magic" /\ \A j \in 1..MagicSize : s[i + j] = s[i + 1]
      BY ONLY <1>3 DEF MagicAt
    <2>2. \A j \in 1..MagicSize : i + j \in 1..Len(s)
      BY ONLY <1>0, <1>2, <2>1, i \in Nat
    <2>3. 1 \in 1..MagicSize /\ i + MagicSize <= Len(w)
      BY ONLY <1>0, <1>2, <2>1, i \in Nat
    <2>4. w[i + 1] = s[i + 1] /\ \A j \in 1..MagicSize : w[i + j] = s[i + j]
      BY ONLY <1>2, <2>2, <2>3
    <2>5. w[i + 1].kind = "magic" /\ \A j \in 1..MagicSize : w[i + j] = w[i + 1]
      BY ONLY <2>1, <2>4
    <2> QED BY ONLY <2>3, <2>5 DEF MagicAt
  <1>4. ASSUME MagicAt(t, 0) PROVE MagicAt(w, Len(s))
    <2>1. 0 + MagicSize <= Len(t) /\ t[0 + 1].kind = "magic" /\ \A j \in 1..MagicSize : t[0 + j] = t[0 + 1]
      BY ONLY <1>4 DEF MagicAt
    <2>2. \A j \in 1..MagicSize : 0 + j = j /\ j \in 1..Len(t)
      BY ONLY <1>0, <1>2, <2>1
    <2>3. 1 \in 1..MagicSize /\ 0 + 1 = 1 /\ Len(s) + MagicSize <= Len(w)
      BY ONLY <1>0, <1>2, <2>1
    <2>4. w[Len(s) + 1] = t[1] /\ \A j \in 1..MagicSize : w[Len(s) + j] = t[j]
      BY ONLY <1>2, <2>2, <2>3
    <2>5. w[Len(s) + 1].kind = "magic" /\ \A j \in 1..MagicSize : w[Len(s) + j] = w[Len(s) + 1]
      BY ONLY <2>1, <2>2, <2>3, <2>4
    <2> QED BY ONLY <2>3, <2>5 DEF MagicAt
  <1> QED BY ONLY <1>1, <1>3, <1>4

\* One piece that begins with a magic number is a compressed file.
LEMMA ArchiveBegins ==
  ASSUME NEW t \in Seq(FileToken), t # <<>>, MagicAt(t, 0), EndsOnlyLast(t)
  PROVE  Archive(t)
  <1>1. ASSUME NEW i \in 0..(Len(t) - 1), i = 0 \/ t[i].kind = "end" PROVE MagicAt(t, i)
    <2>1. CASE i = 0
      BY <2>1
    <2>2. CASE i # 0
      <3>1. i \in 1..(Len(t) - 1)
        BY <2>2
      <3> QED BY <1>1, <2>2, <3>1 DEF EndsOnlyLast
    <2> QED BY <2>1, <2>2
  <1> QED BY <1>1 DEF Archive

\* A piece more: it begins with a magic number if a member has ended before it.
LEMMA ArchiveGrows ==
  ASSUME NEW s \in Seq(FileToken), NEW t \in Seq(FileToken), Archive(s), t # <<>>, EndsOnlyLast(t),
         s[Len(s)].kind = "end" => MagicAt(t, 0)
  PROVE  /\ s \o t \in Seq(FileToken) /\ Archive(s \o t)
         /\ (s \o t)[Len(s \o t)] = t[Len(t)]
  <1>1. PICK w : w = s \o t
    OBVIOUS
  <1>2. /\ w \in Seq(FileToken) /\ Len(s) \in Nat /\ Len(t) \in Nat /\ Len(w) = Len(s) + Len(t)
        /\ \A i \in 1..Len(s) : w[i] = s[i]
        /\ \A i \in 1..Len(t) : w[Len(s) + i] = t[i]
    BY ONLY <1>1, s \in Seq(FileToken), t \in Seq(FileToken), ConcatParts
  <1>3. Len(s) # 0 /\ Len(t) # 0
    <2>1. s # <<>>
      BY DEF Archive
    <2> QED BY ONLY <2>1, t # <<>>, s \in Seq(FileToken), t \in Seq(FileToken), EmptySeq
  <1>4. /\ \A i \in Nat : MagicAt(s, i) => MagicAt(w, i)
        /\ MagicAt(t, 0) => MagicAt(w, Len(s))
    BY ONLY <1>1, s \in Seq(FileToken), t \in Seq(FileToken), MagicAtConcat
  <1>5. ASSUME NEW i \in 0..(Len(w) - 1), i = 0 \/ w[i].kind = "end" PROVE MagicAt(w, i)
    <2>0. i \in Nat
      BY ONLY <1>2, i \in 0..(Len(w) - 1)
    <2>1. CASE i < Len(s)
      <3>1. i \in 0..(Len(s) - 1) /\ (i # 0 => i \in 1..Len(s))
        BY ONLY <1>2, <2>0, <2>1
      <3>2. i = 0 \/ s[i].kind = "end"
        BY ONLY <1>2, <1>5, <3>1
      <3>3. MagicAt(s, i)
        BY ONLY <3>1, <3>2, Archive(s) DEF Archive
      <3> QED BY ONLY <1>4, <2>0, <3>3
    <2>2. CASE i = Len(s)
      <3>1. i # 0 /\ Len(s) \in 1..Len(s)
        BY ONLY <1>2, <1>3, <2>2
      <3>2. s[Len(s)].kind = "end"
        BY ONLY <1>2, <1>5, <2>2, <3>1
      <3> QED BY ONLY <1>4, <2>2, <3>2, s[Len(s)].kind = "end" => MagicAt(t, 0)
    <2>3. CASE i > Len(s)
      <3>1. PICK j \in 1..(Len(t) - 1) : i = Len(s) + j
        <4>1. i - Len(s) \in 1..(Len(t) - 1) /\ i = Len(s) + (i - Len(s))
          BY ONLY <1>2, <2>3, i \in 0..(Len(w) - 1)
        <4> QED BY ONLY <4>1
      <3>2. j \in 1..Len(t) /\ i # 0
        BY ONLY <1>2, <2>3, j \in 1..(Len(t) - 1)
      <3>3. w[i] = t[j] /\ t[j].kind # "end"
        BY ONLY <1>2, <3>1, <3>2, EndsOnlyLast(t) DEF EndsOnlyLast
      <3> QED BY ONLY <1>5, <3>2, <3>3
    <2> QED BY ONLY <1>2, <2>0, <2>1, <2>2, <2>3
  <1>6. w[Len(w)] = t[Len(t)]
    <2>1. Len(t) \in 1..Len(t)
      BY ONLY <1>2, <1>3
    <2> QED BY ONLY <1>2, <2>1
  <1>7. w # <<>>
    <2>1. Len(w) # 0
      BY ONLY <1>2, <1>3
    <2> QED BY ONLY <2>1
  <1>8. Archive(w)
    BY ONLY <1>5, <1>7 DEF Archive
  <1> QED BY ONLY <1>1, <1>2, <1>6, <1>8

LEMMA MemberFacts ==
  ASSUME NEW f \in AnyFormat, NEW n \in Nat
  PROVE  WholeMember(Member(f, n))
  <1>0. MagicSize \in Nat \ {0}
    BY BufferAssumption
  <1>1. PICK m, d, e : m = Magic(f) /\ d = Data(n) /\ e = <<End>>
    OBVIOUS
  <1>2. /\ m \in Seq(FileToken) /\ Len(m) = MagicSize /\ MagicAt(m, 0)
        /\ \A i \in 1..MagicSize : m[i].kind = "magic"
    <2>1. /\ m \in Seq(FileToken) /\ Len(m) = MagicSize /\ MagicAt(m, 0)
          /\ \A i \in 1..MagicSize : m[i] = [kind |-> "magic", format |-> f]
      BY ONLY <1>1, f \in AnyFormat, MagicFacts
    <2> QED BY ONLY <2>1
  <1>3. d \in Seq(FileToken) /\ Len(d) = n /\ \A i \in 1..n : d[i].kind = "data"
    <2>1. d \in Seq(FileToken) /\ Len(d) = n /\ \A i \in 1..n : d[i] = DataToken
      BY ONLY <1>1, n \in Nat, DataFacts
    <2> QED BY ONLY <2>1 DEF DataToken
  <1>4. e \in Seq(FileToken) /\ Len(e) = 1 /\ e[1].kind = "end"
    BY <1>1, EndFacts
  <1>5. PICK x : x = m \o d
    OBVIOUS
  <1>6. /\ x \in Seq(FileToken) /\ Len(x) = MagicSize + n
        /\ \A i \in 1..MagicSize : x[i] = m[i]
        /\ \A i \in 1..n : x[MagicSize + i] = d[i]
    <2>1. /\ x \in Seq(FileToken) /\ Len(x) = Len(m) + Len(d)
          /\ \A i \in 1..Len(m) : x[i] = m[i]
          /\ \A i \in 1..Len(d) : x[Len(m) + i] = d[i]
      <3>1. m \in Seq(FileToken) /\ d \in Seq(FileToken)
        BY ONLY <1>2, <1>3
      <3> QED BY ONLY <1>5, <3>1, ConcatParts
    <2>2. Len(m) = MagicSize /\ Len(d) = n
      BY ONLY <1>2, <1>3
    <2> QED BY ONLY <2>1, <2>2
  <1>7. PICK t : t = x \o e
    OBVIOUS
  <1>8. /\ t \in Seq(FileToken) /\ Len(t) = MagicSize + n + 1
        /\ \A i \in 1..(MagicSize + n) : t[i] = x[i]
        /\ \A i \in 1..1 : t[MagicSize + n + i] = e[i]
    <2>1. /\ t \in Seq(FileToken) /\ Len(t) = Len(x) + Len(e)
          /\ \A i \in 1..Len(x) : t[i] = x[i]
          /\ \A i \in 1..Len(e) : t[Len(x) + i] = e[i]
      <3>1. x \in Seq(FileToken) /\ e \in Seq(FileToken)
        BY ONLY <1>4, <1>6
      <3> QED BY ONLY <1>7, <3>1, ConcatParts
    <2>2. Len(x) = MagicSize + n /\ Len(e) = 1
      BY ONLY <1>4, <1>6
    <2> QED BY ONLY <2>1, <2>2
  <1>9. ASSUME NEW i \in 1..(MagicSize + n) PROVE x[i].kind # "end"
    <2>1. CASE i <= MagicSize
      <3>1. i \in 1..MagicSize
        BY ONLY <1>0, <2>1, i \in 1..(MagicSize + n), n \in Nat
      <3> QED BY ONLY <1>2, <1>6, <3>1
    <2>2. CASE ~(i <= MagicSize)
      <3>1. PICK j \in 1..n : i = MagicSize + j
        <4>1. i - MagicSize \in 1..n /\ i = MagicSize + (i - MagicSize)
          BY ONLY <1>0, <2>2, i \in 1..(MagicSize + n), n \in Nat
        <4> QED BY ONLY <4>1
      <3> QED BY ONLY <1>3, <1>6, <3>1
    <2> QED BY ONLY <2>1, <2>2
  <1>10. Len(t) - 1 = MagicSize + n /\ Len(t) = MagicSize + n + 1 /\ 1 \in 1..1 /\ Len(t) # 0
    BY ONLY <1>0, <1>8, n \in Nat
  <1>11. EndsOnlyLast(t)
    BY ONLY <1>8, <1>9, <1>10 DEF EndsOnlyLast
  <1>12. t[Len(t)].kind = "end" /\ t # <<>>
    BY <1>4, <1>8, <1>10
  <1>13. MagicAt(t, 0)
    <2>1. MagicAt(x, 0)
      BY ONLY <1>2, <1>3, <1>5, 0 \in Nat, MagicAtConcat
    <2> QED BY ONLY <1>4, <1>6, <1>7, <2>1, 0 \in Nat, MagicAtConcat
  <1>14. t = Member(f, n)
    BY ONLY <1>1, <1>5, <1>7 DEF Member
  <1> QED BY ONLY <1>8, <1>11, <1>12, <1>13, <1>14 DEF WholeMember

MembersOf(formats) == {Member(f, n) : f \in formats, n \in 0..MaxData}

LEMMA ArchivesFacts ==
  ASSUME NEW formats \in SUBSET AnyFormat, NEW r \in Archives(formats)
  PROVE  r \in Seq(FileToken) /\ Archive(r) /\ r[Len(r)].kind = "end"
  <1>0. MaxMembers \in Nat /\ MaxData \in Nat
    BY BufferAssumption
  <1>1. PICK M : M = MembersOf(formats)
    OBVIOUS
  <1>15. PICK k \in 1..MaxMembers : \E p \in [1..k -> M] : r = FlattenSeq(p)
    BY <1>1 DEF Archives, MembersOf
  <1>2. PICK p \in [1..k -> M] : r = FlattenSeq(p)
    BY <1>15
  <1>3. k \in Nat \ {0}
    BY ONLY <1>0, k \in 1..MaxMembers
  <1>4. ASSUME NEW i \in 1..k PROVE WholeMember(p[i])
    <2>1. p[i] \in M
      OBVIOUS
    <2>2. PICK f \in formats, n \in 0..MaxData : p[i] = Member(f, n)
      BY <1>1, <2>1 DEF MembersOf
    <2>3. f \in AnyFormat /\ n \in Nat
      BY <1>0
    <2> QED BY ONLY <2>2, <2>3, MemberFacts
  <1>5. p \in [1..k -> Seq(FileToken)]
    BY <1>4 DEF WholeMember
  <1>6. PICK G : G = {s \in Seq(FileToken) : Archive(s) /\ s[Len(s)].kind = "end"}
    OBVIOUS
  <1>7. PICK Good : Good = [i \in 1..k |-> G]
    OBVIOUS
  <1>8. Good \in [1..k -> SUBSET Seq(FileToken)]
    BY ONLY <1>6, <1>7
  <1>9. p[1] \in Good[1]
    <2>1. 1 \in 1..k
      BY ONLY <1>3
    <2>2. WholeMember(p[1])
      BY ONLY <1>4, <2>1
    <2>3. /\ p[1] \in Seq(FileToken) /\ p[1] # <<>> /\ MagicAt(p[1], 0)
          /\ EndsOnlyLast(p[1]) /\ p[1][Len(p[1])].kind = "end"
      BY ONLY <2>2 DEF WholeMember
    <2>4. Archive(p[1])
      BY ONLY <2>3, ArchiveBegins
    <2> QED BY ONLY <1>6, <1>7, <2>1, <2>3, <2>4
  <1>10. ASSUME NEW i \in 2..k, NEW s \in Good[i - 1] PROVE s \o p[i] \in Good[i]
    <2>1. i \in 1..k /\ i - 1 \in 1..k
      BY ONLY <1>3, i \in 2..k
    <2>2. PICK t : t = p[i]
      OBVIOUS
    <2>3. /\ t \in Seq(FileToken) /\ t # <<>> /\ MagicAt(t, 0)
          /\ EndsOnlyLast(t) /\ t[Len(t)].kind = "end"
      BY ONLY <1>4, <2>1, <2>2 DEF WholeMember
    <2>4. s \in Seq(FileToken) /\ Archive(s)
      BY ONLY <1>6, <1>7, <2>1, s \in Good[i - 1]
    <2>5. /\ s \o t \in Seq(FileToken) /\ Archive(s \o t)
          /\ (s \o t)[Len(s \o t)] = t[Len(t)]
      BY ONLY <2>3, <2>4, ArchiveGrows
    <2> QED BY ONLY <1>6, <1>7, <2>1, <2>2, <2>3, <2>5
  <1>11. FlattenSeq(p) \in Good[k]
    BY ONLY <1>3, <1>5, <1>8, <1>9, <1>10, FlattenInduction
  <1>12. k \in 1..k
    BY ONLY <1>3
  <1> QED BY ONLY <1>2, <1>6, <1>7, <1>11, <1>12

\* Every file of Files is one the invariant knows.
LEMMA FilesFacts ==
  ASSUME NEW x \in Files
  PROVE  FileAt(x.raw, x.fine)
  <1>0. MagicSize \in Nat \ {0} /\ MaxData \in Nat
    BY BufferAssumption
  <1>1. CASE \E r \in Archives(Formats) : x = [raw |-> r, fine |-> TRUE]
    <2>1. PICK r \in Archives(Formats) : x = [raw |-> r, fine |-> TRUE]
      BY <1>1
    <2>2. Formats \in SUBSET AnyFormat
      BY DEF AnyFormat
    <2>3. r \in Seq(FileToken) /\ Archive(r) /\ r[Len(r)].kind = "end"
      BY ONLY <2>2, r \in Archives(Formats), ArchivesFacts
    <2>4. r # <<>> /\ MagicAt(r, 0)
      <3>1. r # <<>>
        BY ONLY <2>3 DEF Archive
      <3>2. Len(r) \in Nat /\ Len(r) # 0
        BY ONLY <2>3, <3>1, EmptySeq, LenProperties
      <3>3. 0 \in 0..(Len(r) - 1)
        BY ONLY <3>2
      <3> QED BY ONLY <2>3, <3>1, <3>3 DEF Archive
    <2>5. FileAt(r, TRUE)
      BY ONLY <2>3, <2>4 DEF FileAt
    <2> QED BY ONLY <2>1, <2>5
  <1>2. CASE \E r \in Plain : x = [raw |-> r, fine |-> TRUE]
    <2>1. PICK n \in 0..(MaxData + MagicSize) : x = [raw |-> Data(n), fine |-> TRUE]
      BY <1>2 DEF Plain
    <2>2. n \in Nat
      BY ONLY <1>0, n \in 0..(MaxData + MagicSize)
    <2>3. Data(n) \in Seq(FileToken) /\ Len(Data(n)) = n /\ \A i \in 1..n : Data(n)[i] = DataToken
      BY ONLY <2>2, DataFacts
    <2>4. AllData(Data(n))
      BY ONLY <2>3 DEF AllData, DataToken
    <2>5. FileAt(Data(n), TRUE)
      BY ONLY <2>3, <2>4 DEF FileAt
    <2> QED BY ONLY <2>1, <2>5
  <1>3. CASE \E r \in Archives(CutFormats) : x = [raw |-> Front(r), fine |-> FALSE]
    <2>1. PICK r \in Archives(CutFormats) : x = [raw |-> Front(r), fine |-> FALSE]
      BY <1>3
    <2>2. CutFormats \in SUBSET AnyFormat
      BY DEF AnyFormat
    <2>3. r \in Seq(FileToken) /\ Archive(r) /\ r[Len(r)].kind = "end"
      BY ONLY <2>2, r \in Archives(CutFormats), ArchivesFacts
    <2>4. PICK l \in Nat : l = Len(r)
      BY ONLY <2>3, LenProperties
    <2>5. r # <<>> /\ \A i \in 0..(l - 1) : i = 0 \/ r[i].kind = "end" => MagicAt(r, i)
      BY ONLY <2>3, <2>4 DEF Archive
    <2>6. l # 0
      BY ONLY <2>3, <2>4, <2>5, EmptySeq
    <2>7. 0 \in 0..(l - 1)
      BY ONLY <2>6, l \in Nat
    <2>8. MagicAt(r, 0)
      BY ONLY <2>5, <2>7
    <2>9. /\ 0 + MagicSize <= l /\ r[0 + 1].kind = "magic"
          /\ \A j \in 1..MagicSize : r[0 + j] = r[0 + 1]
      BY ONLY <2>4, <2>8 DEF MagicAt
    <2>10. 0 + MagicSize # l
      <3>1. SUFFICES ASSUME 0 + MagicSize = l PROVE FALSE
        OBVIOUS
      <3>2. MagicSize \in 1..MagicSize
        BY ONLY <1>0
      <3>3. r[l] = r[0 + 1]
        BY ONLY <2>9, <3>1, <3>2
      <3> QED BY ONLY <2>3, <2>4, <2>9, <3>3
    <2>11. PICK k \in Nat : k = l - 1
      BY ONLY <2>6, l \in Nat
    <2>12. 0 + MagicSize <= k /\ k # 0 /\ k \in 0..(l - 1) /\ 0 <= k /\ k <= l /\ k + 1 = l
      BY ONLY <1>0, <2>6, <2>9, <2>10, <2>11, l \in Nat
    <2>13. PICK s : s = Front(r)
      OBVIOUS
    <2>14. s \in Seq(FileToken) /\ Len(s) = k /\ \A i \in 1..k : s[i] = r[i]
      <3>1. s = SubSeq(r, 0 + 1, k)
        BY ONLY <2>4, <2>11, <2>13 DEF Front
      <3>2. /\ SubSeq(r, 0 + 1, k) \in Seq(FileToken) /\ Len(SubSeq(r, 0 + 1, k)) = k - 0
            /\ \A i \in 1..(k - 0) : SubSeq(r, 0 + 1, k)[i] = r[0 + i]
        BY ONLY <2>3, <2>4, <2>12, 0 \in Nat, k \in Nat, PartFacts
      <3>3. k - 0 = k /\ \A i \in 1..k : 0 + i = i
        BY ONLY k \in Nat
      <3> QED BY ONLY <3>1, <3>2, <3>3
    <2>15. MagicAt(s, 0)
      <3>1. \A j \in 1..MagicSize : 0 + j \in 1..k
        BY ONLY <1>0, <2>12, k \in Nat
      <3>2. 1 \in 1..MagicSize
        BY ONLY <1>0
      <3>3. s[0 + 1] = r[0 + 1] /\ \A j \in 1..MagicSize : s[0 + j] = r[0 + j]
        BY ONLY <2>14, <3>1, <3>2
      <3> QED BY ONLY <2>9, <2>12, <2>14, <3>3 DEF MagicAt
    <2>16. s[Len(s)].kind # "end"
      <3>1. k \in 1..k
        BY ONLY <2>12, k \in Nat
      <3>2. s[Len(s)] = r[k]
        BY ONLY <2>14, <3>1
      <3>3. MagicAt(r, k) => r[k + 1].kind = "magic"
        BY ONLY DEF MagicAt
      <3>4. ~MagicAt(r, k)
        BY ONLY <2>3, <2>4, <2>12, <3>3
      <3>5. r[k].kind # "end"
        BY ONLY <2>5, <2>12, <3>4
      <3> QED BY ONLY <3>2, <3>5
    <2>17. s # <<>>
      BY <2>12, <2>14
    <2>18. FileAt(s, FALSE)
      BY ONLY <2>14, <2>15, <2>16, <2>17 DEF FileAt
    <2> QED BY ONLY <2>1, <2>13, <2>18
  <1>4. CASE \E r \in Archives(Formats) : x = [raw |-> r \o Data(1), fine |-> FALSE]
    <2>1. PICK r \in Archives(Formats) : x = [raw |-> r \o Data(1), fine |-> FALSE]
      BY <1>4
    <2>2. Formats \in SUBSET AnyFormat
      BY DEF AnyFormat
    <2>3. r \in Seq(FileToken) /\ Archive(r) /\ r[Len(r)].kind = "end"
      BY ONLY <2>2, r \in Archives(Formats), ArchivesFacts
    <2>4. Len(r) \in Nat /\ Len(r) # 0
      <3>1. r # <<>>
        BY ONLY <2>3 DEF Archive
      <3> QED BY ONLY <2>3, <3>1, EmptySeq, LenProperties
    <2>5. MagicAt(r, 0)
      <3>1. 0 \in 0..(Len(r) - 1)
        BY ONLY <2>4
      <3> QED BY ONLY <2>3, <3>1 DEF Archive
    <2>6. PICK d : d = Data(1)
      OBVIOUS
    <2>7. d \in Seq(FileToken) /\ Len(d) = 1 /\ \A i \in 1..1 : d[i] = DataToken
      BY ONLY <2>6, 1 \in Nat, DataFacts
    <2>8. PICK s : s = r \o d
      OBVIOUS
    <2>9. /\ s \in Seq(FileToken) /\ Len(s) = Len(r) + 1 /\ \A i \in 1..1 : s[Len(r) + i] = d[i]
      <3>1. r \in Seq(FileToken) /\ d \in Seq(FileToken)
        BY ONLY <2>3, <2>7
      <3>2. /\ s \in Seq(FileToken) /\ Len(s) = Len(r) + Len(d)
            /\ \A i \in 1..Len(d) : s[Len(r) + i] = d[i]
        BY ONLY <2>8, <3>1, ConcatParts
      <3>3. Len(d) = 1
        BY ONLY <2>7
      <3> QED BY ONLY <3>2, <3>3
    <2>10. MagicAt(s, 0)
      BY ONLY <2>3, <2>5, <2>7, <2>8, 0 \in Nat, MagicAtConcat
    <2>11. s[Len(s)] = DataToken
      BY ONLY <2>7, <2>9, 1 \in 1..1
    <2>12. s # <<>>
      <3>1. Len(s) # 0
        BY ONLY <2>4, <2>9
      <3> QED BY ONLY <3>1
    <2>13. FileAt(s, FALSE)
      BY ONLY <2>9, <2>10, <2>11, <2>12 DEF FileAt, DataToken
    <2> QED BY ONLY <2>1, <2>6, <2>8, <2>13
  <1> QED BY <1>1, <1>2, <1>3, <1>4 DEF Files

-----------------------------------------------------------------------------
(* Bytes among the writer's tokens *)

\* Bytes among the first k tokens that were written.
TokenTo(s, k) == Cardinality({i \in 1..k : s[i] = "data"})
TokenPlaces(s, k) == {i \in 1..k : s[i] = "data"}

LEMMA TokenSplit ==
  ASSUME NEW s, NEW t, NEW a \in Nat, NEW n \in Nat, Behind(s, a, t, n)
  PROVE  /\ TokenTo(s, a + n) = TokenTo(s, a) + TokenTo(t, n)
         /\ TokenTo(s, a) \in Nat /\ TokenTo(t, n) \in 0..n
  <1>1. PICK A : A = TokenPlaces(s, a + n)
    OBVIOUS
  <1>2. PICK B : B = TokenPlaces(t, n)
    OBVIOUS
  <1>3. PICK C : C = TokenPlaces(s, a)
    OBVIOUS
  <1>4. A \in SUBSET (1..(a + n)) /\ B \in SUBSET (1..n) /\ C \in SUBSET (1..a)
    BY <1>1, <1>2, <1>3 DEF TokenPlaces
  <1>5. ASSUME NEW i \in 1..a PROVE i \in A <=> i \in C
    <2>1. i \in 1..(a + n)
      OBVIOUS
    <2> QED BY ONLY <1>1, <1>3, <2>1, i \in 1..a DEF TokenPlaces
  <1>6. ASSUME NEW i \in 1..n PROVE a + i \in A <=> i \in B
    <2>1. a + i \in 1..(a + n) /\ t[i] = s[a + i]
      BY DEF Behind
    <2> QED BY ONLY <1>1, <1>2, <2>1, i \in 1..n DEF TokenPlaces
  <1>7. /\ Cardinality(A) = Cardinality(C) + Cardinality(B)
        /\ Cardinality(A) \in Nat /\ Cardinality(C) \in Nat /\ Cardinality(B) \in 0..n
    BY <1>4, <1>5, <1>6, PositionsSplit
  <1>8. /\ TokenTo(s, a + n) = Cardinality(A) /\ TokenTo(s, a) = Cardinality(C)
        /\ TokenTo(t, n) = Cardinality(B)
    BY ONLY <1>1, <1>2, <1>3 DEF TokenTo, TokenPlaces
  <1> QED BY ONLY <1>7, <1>8

\* One token more.
LEMMA TokenOneMore ==
  ASSUME NEW s, NEW i \in Nat \ {0}
  PROVE  TokenTo(s, i) = TokenTo(s, i - 1) + (IF s[i] = "data" THEN 1 ELSE 0) /\ TokenTo(s, 0) = 0
  <1>1. PICK t : t = <<s[i]>>
    OBVIOUS
  <1>2. PICK a \in Nat : a = i - 1
    OBVIOUS
  <1>3. Behind(s, a, t, 1)
    <2>1. a + 1 = i
      BY ONLY <1>2, i \in Nat \ {0}
    <2>2. t[1] = s[a + 1]
      BY <1>1, <2>1
    <2> QED BY <2>2 DEF Behind
  <1>4. TokenTo(s, a + 1) = TokenTo(s, a) + TokenTo(t, 1)
    BY ONLY <1>3, a \in Nat, 1 \in Nat, TokenSplit
  <1>5. TokenTo(t, 1) = IF s[i] = "data" THEN 1 ELSE 0
    <2>0. t[1] = s[i]
      BY <1>1
    <2>1. CASE s[i] = "data"
      <3>1. {j \in 1..1 : t[j] = "data"} = {1}
        BY <2>0, <2>1
      <3>2. Cardinality({1}) = 1
        BY FS_Singleton
      <3> QED BY ONLY <2>1, <3>1, <3>2 DEF TokenTo
    <2>2. CASE s[i] # "data"
      <3>1. {j \in 1..1 : t[j] = "data"} = {}
        BY <2>0, <2>2
      <3>2. Cardinality({}) = 0
        BY FS_EmptySet
      <3> QED BY ONLY <2>2, <3>1, <3>2 DEF TokenTo
    <2> QED BY ONLY <2>1, <2>2
  <1>6. TokenTo(s, 0) = 0
    <2>1. {j \in 1..0 : s[j] = "data"} = {}
      OBVIOUS
    <2>2. Cardinality({}) = 0
      BY FS_EmptySet
    <2> QED BY ONLY <2>1, <2>2 DEF TokenTo
  <1>7. a + 1 = i /\ a = i - 1
    BY ONLY <1>2, i \in Nat \ {0}
  <1> QED BY ONLY <1>4, <1>5, <1>6, <1>7

LEMMA WriterDataOf ==
  ASSUME NEW tokens
  PROVE  WriteStream!DataOf(tokens) = TokenTo(tokens, Len(tokens))
  <1>1. WriteStream!DataOf(tokens) = Cardinality({i \in 1..Len(tokens) : tokens[i] = "data"})
    BY ONLY DEF WriteStream!DataOf, WriteStream!Cardinality, Cardinality
  <1> QED BY ONLY <1>1 DEF TokenTo

WriterToken == {"magic", "data", "end"}

\* What the pieces are in which a written file is read.
LEMMA RawTokenFacts ==
  ASSUME NEW f \in AnyFormat, NEW x \in WriterToken
  PROVE  /\ RawToken(x, f) \in Seq(FileToken) /\ RawToken(x, f) # <<>> /\ EndsOnlyLast(RawToken(x, f))
         /\ RawToken(x, f)[Len(RawToken(x, f))].kind = "end" <=> x = "end"
         /\ x = "magic" => MagicAt(RawToken(x, f), 0)
         /\ DataOf(RawToken(x, f)) = IF x = "data" THEN 1 ELSE 0
  <1>0. MagicSize \in Nat \ {0}
    BY BufferAssumption
  <1>1. PICK t : t = RawToken(x, f)
    OBVIOUS
  <1>2. CASE x = "magic"
    <2>1. t = Magic(f)
      BY ONLY <1>1, <1>2 DEF RawToken
    <2>2. /\ t \in Seq(FileToken) /\ Len(t) = MagicSize /\ MagicAt(t, 0)
          /\ \A i \in 1..MagicSize : t[i] = [kind |-> "magic", format |-> f]
      BY ONLY <2>1, f \in AnyFormat, MagicFacts
    <2>3. \A i \in 1..MagicSize : t[i].kind = "magic"
      BY ONLY <2>2
    <2>4. \A i \in 1..(MagicSize - 1) : i \in 1..MagicSize
      BY ONLY <1>0
    <2>5. EndsOnlyLast(t)
      BY ONLY <2>2, <2>3, <2>4 DEF EndsOnlyLast
    <2>6. MagicSize \in 1..MagicSize /\ MagicSize # 0
      BY ONLY <1>0
    <2>7. t[Len(t)].kind = "magic" /\ t # <<>>
      BY <2>2, <2>3, <2>6
    <2>8. DataOf(t) = 0
      <3>1. {i \in 1..Len(t) : t[i].kind = "data"} = {}
        BY ONLY <2>2, <2>3
      <3>2. Cardinality({}) = 0
        BY FS_EmptySet
      <3> QED BY ONLY <3>1, <3>2 DEF DataOf
    <2> QED BY ONLY <1>1, <1>2, <2>2, <2>5, <2>7, <2>8
  <1>3. CASE x = "data"
    <2>1. t = Data(1)
      BY ONLY <1>1, <1>3 DEF RawToken
    <2>2. t \in Seq(FileToken) /\ Len(t) = 1 /\ \A i \in 1..1 : t[i] = DataToken
      BY ONLY <2>1, 1 \in Nat, DataFacts
    <2>3. t[1].kind = "data"
      BY ONLY <2>2, 1 \in 1..1 DEF DataToken
    <2>4. EndsOnlyLast(t)
      BY ONLY <2>2 DEF EndsOnlyLast
    <2>5. t # <<>>
      <3>1. Len(t) # 0
        BY ONLY <2>2
      <3> QED BY ONLY <3>1
    <2>6. DataOf(t) = 1
      <3>1. {i \in 1..Len(t) : t[i].kind = "data"} = {1}
        BY ONLY <2>2, <2>3
      <3>2. Cardinality({1}) = 1
        BY FS_Singleton
      <3> QED BY ONLY <3>1, <3>2 DEF DataOf
    <2> QED BY ONLY <1>1, <1>3, <2>2, <2>3, <2>4, <2>5, <2>6
  <1>4. CASE x = "end"
    <2>1. t = <<End>>
      BY ONLY <1>1, <1>4 DEF RawToken
    <2>2. t \in Seq(FileToken) /\ Len(t) = 1 /\ t[1].kind = "end"
      BY ONLY <2>1, EndFacts
    <2>4. EndsOnlyLast(t)
      BY ONLY <2>2 DEF EndsOnlyLast
    <2>5. t # <<>>
      <3>1. Len(t) # 0
        BY ONLY <2>2
      <3> QED BY ONLY <3>1
    <2>6. DataOf(t) = 0
      <3>1. {i \in 1..Len(t) : t[i].kind = "data"} = {}
        BY ONLY <2>2
      <3>2. Cardinality({}) = 0
        BY FS_EmptySet
      <3> QED BY ONLY <3>1, <3>2 DEF DataOf
    <2> QED BY ONLY <1>1, <1>4, <2>2, <2>4, <2>5, <2>6
  <1> QED BY <1>2, <1>3, <1>4 DEF WriterToken

LEMMA DataOfConcat ==
  ASSUME NEW s \in Seq(FileToken), NEW t \in Seq(FileToken)
  PROVE  DataOf(s \o t) = DataOf(s) + DataOf(t)
  <1>1. PICK w : w = s \o t
    OBVIOUS
  <1>2. /\ Len(s) \in Nat /\ Len(t) \in Nat /\ Len(w) = Len(s) + Len(t)
        /\ \A i \in 1..Len(s) : w[i] = s[i]
        /\ \A i \in 1..Len(t) : w[Len(s) + i] = t[i]
    BY ONLY <1>1, s \in Seq(FileToken), t \in Seq(FileToken), ConcatParts
  <1>3. PICK a \in Nat, n \in Nat : a = Len(s) /\ n = Len(t)
    BY ONLY <1>2
  <1>4. Behind(w, a, t, n) /\ Behind(w, 0, s, a)
    BY ONLY <1>2, <1>3 DEF Behind
  <1>5. DataTo(w, a + n) = DataTo(w, a) + DataTo(t, n)
    BY ONLY <1>4, a \in Nat, n \in Nat, DataSplit
  <1>6. DataTo(w, a) = DataTo(s, a)
    <2>1. {i \in 1..a : w[i].kind = "data"} = {i \in 1..a : s[i].kind = "data"}
      BY ONLY <1>2, <1>3
    <2> QED BY ONLY <2>1 DEF DataTo
  <1>7. DataOf(w) = DataTo(w, a + n) /\ DataOf(s) = DataTo(s, a) /\ DataOf(t) = DataTo(t, n)
    BY ONLY <1>2, <1>3 DEF DataOf, DataTo
  <1> QED BY ONLY <1>1, <1>5, <1>6, <1>7

\* What a file that was written is to the reader, up to the writer's token i.
WrittenTo(tokens, i) ==
    {s \in Seq(FileToken) : /\ Archive(s)
                            /\ s[Len(s)].kind = "end" <=> tokens[i] = "end"
                            /\ DataOf(s) = TokenTo(tokens, i)}

\* A file of complete members that was written is in order for the reader, and
\* has the same bytes.
LEMMA RawFileFacts ==
  ASSUME NEW f \in AnyFormat, NEW tokens \in Seq(WriterToken), tokens # <<>>,
         WriteStream!WellFormed(tokens), tokens[Len(tokens)] = "end"
  PROVE  /\ FileAt(RawFile(tokens, f), TRUE) /\ RawFile(tokens, f) # <<>>
         /\ DataOf(RawFile(tokens, f)) = WriteStream!DataOf(tokens)
  <1>1. PICK n : n = Len(tokens)
    OBVIOUS
  <1>2. n \in Nat \ {0}
    BY ONLY <1>1, tokens \in Seq(WriterToken), tokens # <<>>, EmptySeq, LenProperties
  <1>3. \A i \in 1..n : tokens[i] \in WriterToken
    BY ONLY <1>1, tokens \in Seq(WriterToken), ElementOfSeq
  <1>4. \A i \in 1..n : tokens[i] = "magic" <=> i = 1 \/ tokens[i - 1] = "end"
    BY ONLY <1>1, WriteStream!WellFormed(tokens) DEF WriteStream!WellFormed
  <1>5. PICK p : p = [i \in 1..n |-> RawToken(tokens[i], f)]
    OBVIOUS
  <1>6. ASSUME NEW i \in 1..n
        PROVE  /\ p[i] = RawToken(tokens[i], f)
               /\ p[i] \in Seq(FileToken) /\ p[i] # <<>> /\ EndsOnlyLast(p[i])
               /\ p[i][Len(p[i])].kind = "end" <=> tokens[i] = "end"
               /\ tokens[i] = "magic" => MagicAt(p[i], 0)
               /\ DataOf(p[i]) = IF tokens[i] = "data" THEN 1 ELSE 0
    <2>1. PICK x \in WriterToken : x = tokens[i]
      BY ONLY <1>3, i \in 1..n
    <2>2. p[i] = RawToken(x, f)
      BY ONLY <1>5, <2>1, i \in 1..n
    <2> QED BY ONLY <2>1, <2>2, f \in AnyFormat, RawTokenFacts
  <1>7. p \in [1..n -> Seq(FileToken)]
    <2>1. \A i \in 1..n : RawToken(tokens[i], f) \in Seq(FileToken)
      BY ONLY <1>6
    <2> QED BY ONLY <1>5, <2>1
  <1>8. PICK Good : Good = [i \in 1..n |-> WrittenTo(tokens, i)]
    OBVIOUS
  <1>9. Good \in [1..n -> SUBSET Seq(FileToken)]
    BY ONLY <1>8 DEF WrittenTo
  <1>10. p[1] \in Good[1]
    <2>1. 1 \in 1..n
      BY ONLY <1>2
    <2>2. tokens[1] = "magic"
      BY ONLY <1>4, <2>1
    <2>3. PICK t : t = p[1]
      OBVIOUS
    <2>4. /\ t \in Seq(FileToken) /\ t # <<>> /\ EndsOnlyLast(t) /\ MagicAt(t, 0)
          /\ t[Len(t)].kind = "end" <=> tokens[1] = "end"
          /\ DataOf(t) = 0
      BY ONLY <1>6, <2>1, <2>2, <2>3
    <2>5. Archive(t)
      BY ONLY <2>4, ArchiveBegins
    <2>6. TokenTo(tokens, 1) = 0
      <3>1. TokenTo(tokens, 1) = TokenTo(tokens, 1 - 1) + (IF tokens[1] = "data" THEN 1 ELSE 0)
        BY ONLY 1 \in Nat \ {0}, TokenOneMore
      <3>2. TokenTo(tokens, 0) = 0
        BY ONLY 1 \in Nat \ {0}, TokenOneMore
      <3>3. 1 - 1 = 0 /\ 0 + 0 = 0
        OBVIOUS
      <3> QED BY ONLY <2>2, <3>1, <3>2, <3>3
    <2>7. t \in WrittenTo(tokens, 1)
      BY ONLY <2>4, <2>5, <2>6 DEF WrittenTo
    <2> QED BY ONLY <1>8, <2>1, <2>3, <2>7
  <1>11. ASSUME NEW i \in 2..n, NEW s \in Good[i - 1] PROVE s \o p[i] \in Good[i]
    <2>1. i \in 1..n /\ i - 1 \in 1..n /\ i # 1 /\ i \in Nat \ {0}
      BY ONLY <1>2, i \in 2..n
    <2>2. PICK t : t = p[i]
      OBVIOUS
    <2>3. /\ t \in Seq(FileToken) /\ t # <<>> /\ EndsOnlyLast(t)
          /\ t[Len(t)].kind = "end" <=> tokens[i] = "end"
          /\ tokens[i] = "magic" => MagicAt(t, 0)
          /\ DataOf(t) = IF tokens[i] = "data" THEN 1 ELSE 0
      BY ONLY <1>6, <2>1, <2>2
    <2>4. s \in WrittenTo(tokens, i - 1)
      BY ONLY <1>8, <2>1, s \in Good[i - 1]
    <2>5. /\ s \in Seq(FileToken) /\ Archive(s) /\ (s[Len(s)].kind = "end" <=> tokens[i - 1] = "end")
          /\ DataOf(s) = TokenTo(tokens, i - 1)
      BY ONLY <2>4 DEF WrittenTo
    <2>6. s[Len(s)].kind = "end" => MagicAt(t, 0)
      BY ONLY <1>4, <2>1, <2>3, <2>5
    <2>7. /\ s \o t \in Seq(FileToken) /\ Archive(s \o t)
          /\ (s \o t)[Len(s \o t)] = t[Len(t)]
      BY ONLY <2>3, <2>5, <2>6, ArchiveGrows
    <2>8. DataOf(s \o t) = DataOf(s) + DataOf(t)
      BY ONLY <2>3, <2>5, DataOfConcat
    <2>9. TokenTo(tokens, i) = TokenTo(tokens, i - 1) + (IF tokens[i] = "data" THEN 1 ELSE 0)
      BY ONLY <2>1, TokenOneMore
    <2>10. DataOf(s \o t) = TokenTo(tokens, i)
      BY ONLY <2>3, <2>5, <2>8, <2>9
    <2>11. s \o t \in WrittenTo(tokens, i)
      BY ONLY <2>3, <2>7, <2>10 DEF WrittenTo
    <2> QED BY ONLY <1>8, <2>1, <2>2, <2>11
  <1>12. FlattenSeq(p) \in Good[n]
    BY ONLY <1>2, <1>7, <1>9, <1>10, <1>11, FlattenInduction
  <1>13. PICK r : r = RawFile(tokens, f)
    OBVIOUS
  <1>14. r = FlattenSeq(p)
    BY ONLY <1>1, <1>5, <1>13 DEF RawFile
  <1>15. r \in WrittenTo(tokens, n)
    <2>1. n \in 1..n
      BY ONLY <1>2
    <2> QED BY ONLY <1>8, <1>12, <1>14, <2>1
  <1>16. r \in Seq(FileToken) /\ Archive(r) /\ r[Len(r)].kind = "end" /\ DataOf(r) = TokenTo(tokens, n)
    BY ONLY <1>1, <1>15, tokens[Len(tokens)] = "end" DEF WrittenTo
  <1>17. r # <<>> /\ MagicAt(r, 0)
    <2>1. r # <<>>
      BY ONLY <1>16 DEF Archive
    <2>2. Len(r) \in Nat /\ Len(r) # 0
      BY ONLY <1>16, <2>1, EmptySeq, LenProperties
    <2>3. 0 \in 0..(Len(r) - 1)
      BY ONLY <2>2
    <2> QED BY ONLY <1>16, <2>1, <2>3 DEF Archive
  <1>18. FileAt(r, TRUE)
    BY ONLY <1>16, <1>17 DEF FileAt
  <1>19. TokenTo(tokens, n) = WriteStream!DataOf(tokens)
    BY ONLY <1>1, WriterDataOf
  <1> QED BY ONLY <1>13, <1>16, <1>17, <1>18, <1>19

-----------------------------------------------------------------------------
(* The writer's steps *)

\* Bytes among the first e tokens of the member for n bytes.
PutOut(e, n) == IF e = 0 THEN 0 ELSE WriteStream!SmallerOf(e - 1, n)

\* Where the bytes are among the tokens behind em of the member.
BytesAt(t, em, e, n) ==
    \A i \in 1..(e - em) : t[i] = "data" <=> em + i # 1 /\ em + i <= n + 1

LEMMA TokensCount ==
  ASSUME NEW em \in Nat, NEW e \in Nat, NEW n \in Nat, em <= e, NEW t, BytesAt(t, em, e, n)
  PROVE  TokenTo(t, e - em) = PutOut(e, n) - PutOut(em, n)
  <1>1. PICK lo \in Nat : lo = IF em = 0 THEN 2 ELSE 1
    OBVIOUS
  <1>2. PICK hi : hi = IF e <= n + 1 THEN e - em ELSE n + 1 - em
    OBVIOUS
  <1>3. ASSUME NEW i \in 1..(e - em) PROVE t[i] = "data" <=> i \in lo..hi
    <2>1. em + i # 1 /\ em + i <= n + 1 <=> i \in lo..hi
      BY ONLY <1>1, <1>2, em \in Nat, e \in Nat, n \in Nat, i \in 1..(e - em)
    <2> QED BY <2>1 DEF BytesAt
  <1>4. \A i \in lo..hi : i \in 1..(e - em)
    BY ONLY <1>1, <1>2, em \in Nat, e \in Nat, n \in Nat, em <= e
  <1>5. {i \in 1..(e - em) : t[i] = "data"} = lo..hi
    BY ONLY <1>3, <1>4
  <1>6. lo \in Int /\ hi \in Int
    BY ONLY <1>1, <1>2, em \in Nat, e \in Nat, n \in Nat
  <1>7. Cardinality(lo..hi) = IF lo > hi THEN 0 ELSE hi - lo + 1
    BY ONLY <1>6, FS_Interval
  <1>8. (IF lo > hi THEN 0 ELSE hi - lo + 1) = PutOut(e, n) - PutOut(em, n)
    BY ONLY <1>1, <1>2, em \in Nat, e \in Nat, n \in Nat, em <= e DEF PutOut, WriteStream!SmallerOf
  <1> QED BY ONLY <1>5, <1>7, <1>8 DEF TokenTo

\* What is so when the tokens t from em + 1 to e of the member for n bytes were
\* put behind s, which makes w.
Added(s, t, w, em, e, n) ==
    /\ t \in Seq(WriterToken) /\ Len(t) = e - em
    /\ w \in Seq(WriterToken) /\ WriteStream!WellFormed(w)
    /\ TokenTo(w, Len(w)) = TokenTo(s, Len(s)) + (PutOut(e, n) - PutOut(em, n))
    /\ TokenTo(s, Len(s)) \in Nat
    /\ em < e => w # <<>> /\ (w[Len(w)] = "end" <=> e = n + 2)

\* What is so before.
BeforeAdded(s, t, em, e, n) ==
    /\ s \in Seq(WriterToken) /\ em <= e /\ e <= n + 2
    /\ WriteStream!WellFormed(s) /\ (em > 0 => s # <<>>)
    /\ em < e /\ s # <<>> => (s[Len(s)] = "end" <=> em = 0)
    /\ t = WriteStream!Tokens(em + 1, e, n)

\* The tokens from em + 1 to e of the member for n bytes come behind s.
LEMMA TokensAdded ==
  ASSUME NEW s, NEW em \in Nat, NEW e \in Nat, NEW n \in Nat, NEW t, BeforeAdded(s, t, em, e, n)
  PROVE  Added(s, t, s \o t, em, e, n)
  <1>0. /\ s \in Seq(WriterToken) /\ em <= e /\ e <= n + 2
        /\ WriteStream!WellFormed(s) /\ (em > 0 => s # <<>>)
        /\ em < e /\ s # <<>> => (s[Len(s)] = "end" <=> em = 0)
        /\ t = WriteStream!Tokens(em + 1, e, n)
    BY DEF BeforeAdded
  <1>1. PICK m \in Nat : m = e - em
    BY <1>0
  <1>2. /\ t = [i \in 1..m |-> WriteStream!Token(em + i, n)]
    <2>1. e - (em + 1) + 1 = m /\ \A i \in 1..m : (em + 1) + i - 1 = em + i
      BY ONLY <1>1, em \in Nat, e \in Nat
    <2>2. t = [i \in 1..(e - (em + 1) + 1) |-> WriteStream!Token((em + 1) + i - 1, n)]
      BY ONLY <1>0 DEF WriteStream!Tokens
    <2> QED BY ONLY <2>1, <2>2
  <1>3. ASSUME NEW i \in 1..m
        PROVE  /\ t[i] \in WriterToken
               /\ t[i] = "magic" <=> em + i = 1
               /\ t[i] = "data" <=> em + i # 1 /\ em + i <= n + 1
               /\ t[i] = "end" <=> em + i = n + 2
    <2>1. t[i] = WriteStream!Token(em + i, n)
      BY ONLY <1>2, i \in 1..m
    <2>2. em + i \in Nat /\ em + i <= n + 2
      BY ONLY <1>0, <1>1, em \in Nat, e \in Nat, n \in Nat, i \in 1..m
    <2>3. PICK j \in Nat : j = em + i
      BY ONLY <2>2
    <2>4. t[i] = IF j = 1 THEN "magic" ELSE IF j <= n + 1 THEN "data" ELSE "end"
      BY ONLY <2>1, <2>3 DEF WriteStream!Token
    <2>5. (j = 1 => j # n + 2) /\ (j <= n + 1 => j # n + 2) /\ (j # 1 /\ ~(j <= n + 1) => j = n + 2)
      BY ONLY <2>2, <2>3, n \in Nat, j \in Nat
    <2> QED BY ONLY <2>3, <2>4, <2>5 DEF WriterToken
  <1>4. t \in Seq(WriterToken) /\ Len(t) = m
    <2>1. \A i \in 1..m : WriteStream!Token(em + i, n) \in WriterToken
      BY ONLY <1>2, <1>3
    <2> QED BY ONLY <1>2, <2>1, m \in Nat
  <1>5. PICK w : w = s \o t
    OBVIOUS
  <1>6. /\ w \in Seq(WriterToken) /\ Len(s) \in Nat /\ Len(w) = Len(s) + m
        /\ \A i \in 1..Len(s) : w[i] = s[i]
        /\ \A i \in 1..m : w[Len(s) + i] = t[i]
    <2>1. /\ w \in Seq(WriterToken) /\ Len(s) \in Nat /\ Len(w) = Len(s) + Len(t)
          /\ \A i \in 1..Len(s) : w[i] = s[i]
          /\ \A i \in 1..Len(t) : w[Len(s) + i] = t[i]
      <3>1. t \in Seq(WriterToken)
        BY ONLY <1>4
      <3>2. s \in Seq(WriterToken)
        BY ONLY <1>0
      <3> QED BY ONLY <1>5, <3>1, <3>2, ConcatParts
    <2>2. Len(t) = m
      BY ONLY <1>4
    <2> QED BY ONLY <2>1, <2>2
  <1>7. PICK a \in Nat : a = Len(s)
    BY ONLY <1>6
  <1>8. a = 0 <=> s = <<>>
    <2>1. s \in Seq(WriterToken)
      BY ONLY <1>0
    <2> QED BY ONLY <1>7, <2>1, EmptySeq
  <1>9. /\ Len(w) = a + m /\ (\A i \in 1..a : w[i] = s[i]) /\ (\A i \in 1..m : w[a + i] = t[i])
        /\ \A i \in 1..a : s[i] = "magic" <=> i = 1 \/ s[i - 1] = "end"
    BY ONLY <1>0, <1>6, <1>7 DEF WriteStream!WellFormed
  <1>10. ASSUME NEW i \in 1..(a + m) PROVE w[i] = "magic" <=> i = 1 \/ w[i - 1] = "end"
    <2>1. CASE i <= a
      <3>1. i \in 1..a /\ (i # 1 => i - 1 \in 1..a)
        BY ONLY <2>1, i \in 1..(a + m), a \in Nat, m \in Nat
      <3> QED BY ONLY <1>9, <3>1
    <2>2. CASE i = a + 1
      <3>1. 1 \in 1..m /\ em < e
        BY ONLY <1>1, <2>2, i \in 1..(a + m), a \in Nat, m \in Nat, em \in Nat, e \in Nat
      <3>2. w[i] = "magic" <=> em = 0
        <4>1. w[i] = t[1]
          BY ONLY <1>9, <2>2, <3>1
        <4>2. em + 1 = 1 <=> em = 0
          BY ONLY em \in Nat
        <4> QED BY ONLY <1>3, <3>1, <4>1, <4>2
      <3>3. CASE a = 0
        <4>1. i = 1 /\ em = 0
          BY ONLY <1>0, <1>8, <2>2, <3>3, em \in Nat
        <4> QED BY ONLY <3>2, <4>1
      <3>4. CASE a # 0
        <4>1. i - 1 = a /\ i # 1 /\ a \in 1..a
          BY ONLY <2>2, <3>4, a \in Nat
        <4>2. w[i - 1] = s[Len(s)]
          BY ONLY <1>7, <1>9, <4>1
        <4>3. s[Len(s)] = "end" <=> em = 0
          BY ONLY <1>0, <1>8, <3>1, <3>4
        <4> QED BY ONLY <3>2, <4>1, <4>2, <4>3
      <3> QED BY ONLY <3>3, <3>4
    <2>3. CASE i > a + 1
      <3>1. PICK j \in 2..m : i = a + j
        <4>1. i - a \in 2..m /\ i = a + (i - a)
          BY ONLY <2>3, i \in 1..(a + m), a \in Nat, m \in Nat
        <4> QED BY ONLY <4>1
      <3>2. j \in 1..m /\ j - 1 \in 1..m /\ i - 1 = a + (j - 1) /\ i # 1
        BY ONLY <3>1, a \in Nat, m \in Nat, j \in 2..m
      <3>3. em + j # 1 /\ em + (j - 1) # n + 2
        BY ONLY <1>0, <1>1, em \in Nat, e \in Nat, n \in Nat, j \in 2..m
      <3>4. w[i] = t[j] /\ w[i - 1] = t[j - 1]
        BY ONLY <1>9, <3>1, <3>2
      <3> QED BY ONLY <1>3, <3>2, <3>3, <3>4
    <2> QED BY ONLY <2>1, <2>2, <2>3, i \in 1..(a + m), a \in Nat, m \in Nat
  <1>11. WriteStream!WellFormed(w)
    BY ONLY <1>9, <1>10 DEF WriteStream!WellFormed
  <1>12. TokenTo(w, a + m) = TokenTo(s, a) + (PutOut(e, n) - PutOut(em, n)) /\ TokenTo(s, a) \in Nat
    <2>1. Behind(w, a, t, m)
      BY ONLY <1>9 DEF Behind
    <2>2. TokenTo(w, a + m) = TokenTo(w, a) + TokenTo(t, m) /\ TokenTo(w, a) \in Nat
      BY ONLY <2>1, a \in Nat, m \in Nat, TokenSplit
    <2>3. {i \in 1..a : w[i] = "data"} = {i \in 1..a : s[i] = "data"}
      BY ONLY <1>9
    <2>4. TokenTo(w, a) = TokenTo(s, a)
      BY ONLY <2>3 DEF TokenTo
    <2>5. BytesAt(t, em, e, n)
      BY ONLY <1>1, <1>3 DEF BytesAt
    <2>6. TokenTo(t, e - em) = PutOut(e, n) - PutOut(em, n)
      BY ONLY <1>0, <2>5, em \in Nat, e \in Nat, n \in Nat, TokensCount
    <2> QED BY ONLY <1>1, <2>2, <2>4, <2>6
  <1>13. ASSUME em < e PROVE w # <<>> /\ (w[Len(w)] = "end" <=> e = n + 2)
    <2>1. m \in 1..m /\ em + m = e /\ Len(w) # 0
      BY ONLY <1>1, <1>9, <1>13, em \in Nat, e \in Nat, a \in Nat, m \in Nat
    <2>2. w[Len(w)] = t[m]
      BY ONLY <1>9, <2>1
    <2>3. w # <<>>
      BY ONLY <2>1
    <2> QED BY ONLY <1>3, <2>1, <2>2, <2>3
  <1> QED BY ONLY <1>1, <1>4, <1>5, <1>6, <1>7, <1>9, <1>11, <1>12, <1>13 DEF Added

\* The writer's bytes add up.
Balance(s, tk, em, av, lt, wr) == TokenTo(s, Len(s)) + (tk - PutOut(em, tk)) + av + lt = wr

LEMMA WriterFacts ==
  ASSUME WriterInv
  PROVE  /\ out \in Seq(WriterToken) /\ buf \in Seq(WriterToken) /\ out \o buf \in Seq(WriterToken)
         /\ WriteStream!WellFormed(out \o buf)
         /\ Balance(out \o buf, taken, emitted, avail, later, written)
         /\ emitted > 0 => out \o buf # <<>>
         /\ out \o buf # <<>> => ((out \o buf)[Len(out \o buf)] = "end" <=> emitted \in {0, taken + 2})
         /\ calls \in 0..(MaxWrites + 1) /\ Len(buf) \in Nat /\ Len(buf) <= BufSize
         /\ written \in Nat /\ later \in Nat /\ avail \in Nat /\ taken \in Nat /\ emitted \in Nat
         /\ dirty \in BOOLEAN
         /\ BufSize \in Nat \ {0} /\ MinOutput \in Nat \ {0} /\ SizeMax \in Nat \ {0} /\ MaxWrites \in Nat
         /\ MinOutput <= BufSize
  <1>1. /\ out \in Seq(WriterToken) /\ buf \in Seq(WriterToken) /\ Len(buf) <= BufSize
        /\ calls \in 0..(MaxWrites + 1) /\ dirty \in BOOLEAN
        /\ written \in Nat /\ later \in Nat /\ avail \in Nat /\ taken \in Nat /\ emitted \in Nat
    BY DEF WriterInv, WriteStream!TypeOK, WriterToken
  <1>2. out \o buf \in Seq(WriterToken) /\ Len(buf) \in Nat
    BY <1>1, ConcatProperties
  <1>3. WriteStream!WellFormed(out \o buf)
    BY DEF WriterInv, WriteStream!NothingLost
  <1>4. /\ emitted > 0 => out \o buf # <<>>
        /\ out \o buf # <<>> => ((out \o buf)[Len(out \o buf)] = "end" <=> emitted \in {0, taken + 2})
    BY DEF WriterInv, TokensAt
  <1>5. Balance(out \o buf, taken, emitted, avail, later, written)
    <2>1. WriteStream!DataOf(out \o buf) + (taken - PutOut(emitted, taken)) + avail + later = written
      BY DEF WriterInv, WriteStream!NothingLost, PutOut
    <2>2. WriteStream!DataOf(out \o buf) = TokenTo(out \o buf, Len(out \o buf))
      BY WriterDataOf
    <2> QED BY ONLY <2>1, <2>2 DEF Balance
  <1>6. /\ BufSize \in Nat \ {0} /\ MinOutput \in Nat \ {0} /\ SizeMax \in Nat \ {0} /\ MaxWrites \in Nat
        /\ MinOutput <= BufSize
    BY WriterAssumption
  <1> QED BY ONLY <1>1, <1>2, <1>3, <1>4, <1>5, <1>6

\* What is to be shown of the state after a step.
LEMMA WriterPrimed ==
  ASSUME NEW s, s = out' \o buf', WriteStream!WellFormed(s),
         Balance(s, taken', emitted', avail', later', written'),
         emitted' > 0 => s # <<>>,
         s # <<>> => (s[Len(s)] = "end" <=> emitted' \in {0, taken' + 2}),
         out' \in Seq(WriterToken), buf' \in Seq(WriterToken), Len(buf') <= BufSize,
         calls' \in 0..(MaxWrites + 1), dirty' \in BOOLEAN,
         written' \in Nat, later' \in Nat, avail' \in Nat, taken' \in Nat, emitted' \in Nat,
         pc' \in {"idle", "write", "finish", "finished", "gone"},
         WriterAt'
  PROVE  WriterInv'
  <1>1. WriteStream!TypeOK'
    BY DEF WriteStream!TypeOK, WriterToken
  <1>2. WriteStream!NothingLost'
    <2>1. WriteStream!DataOf(s) = TokenTo(s, Len(s))
      BY ONLY WriterDataOf
    <2>2. WriteStream!DataOf(s) + (taken' - PutOut(emitted', taken')) + avail' + later' = written'
      BY ONLY <2>1, Balance(s, taken', emitted', avail', later', written') DEF Balance
    <2>3. WriteStream!DataOf(out' \o buf') + (taken' - IF emitted' = 0 THEN 0 ELSE WriteStream!SmallerOf(emitted' - 1, taken'))
            + avail' + later' = written'
      BY ONLY <2>2, s = out' \o buf' DEF PutOut
    <2>4. WriteStream!WellFormed(out' \o buf')
      BY ONLY s = out' \o buf', WriteStream!WellFormed(s)
    <2> QED BY ONLY <2>3, <2>4 DEF WriteStream!NothingLost
  <1>3. TokensAt'
    BY ONLY s = out' \o buf', emitted' > 0 => s # <<>>,
            s # <<>> => (s[Len(s)] = "end" <=> emitted' \in {0, taken' + 2}) DEF TokensAt
  <1> QED BY ONLY <1>1, <1>2, <1>3, WriterAt' DEF WriterInv

\* Bytes that come in and bytes that leave the input.
LEMMA BalanceMoves ==
  ASSUME NEW s \in Seq(WriterToken), NEW tk \in Nat, NEW em \in Nat,
         NEW av \in Nat, NEW lt \in Nat, NEW wr \in Nat, NEW av2 \in Nat, NEW lt2 \in Nat, NEW wr2 \in Nat,
         Balance(s, tk, em, av, lt, wr), av2 + lt2 - av - lt = wr2 - wr
  PROVE  Balance(s, tk, em, av2, lt2, wr2)
  <1>1. TokenTo(s, Len(s)) \in Nat
    <2>1. Len(s) \in Nat
      OBVIOUS
    <2>2. Behind(s, Len(s), s, 0)
      BY ONLY DEF Behind
    <2> QED BY ONLY <2>1, <2>2, 0 \in Nat, TokenSplit
  <1>2. PutOut(em, tk) \in Nat
    BY ONLY tk \in Nat, em \in Nat DEF PutOut, WriteStream!SmallerOf
  <1>3. PICK x : x = TokenTo(s, Len(s)) + (tk - PutOut(em, tk))
    OBVIOUS
  <1>4. x \in Int
    BY ONLY <1>1, <1>2, <1>3, tk \in Nat
  <1>5. x + av + lt = wr
    BY ONLY <1>3, Balance(s, tk, em, av, lt, wr) DEF Balance
  <1>6. x + av2 + lt2 = wr2
    BY ONLY <1>4, <1>5, av \in Nat, lt \in Nat, wr \in Nat, av2 \in Nat, lt2 \in Nat, wr2 \in Nat,
            av2 + lt2 - av - lt = wr2 - wr
  <1> QED BY ONLY <1>3, <1>6 DEF Balance

\* A drained buffer is in the file, behind what was there.
LEMMA Drained ==
  ASSUME NEW o \in Seq(WriterToken), NEW b \in Seq(WriterToken)
  PROVE  (o \o b) \o <<>> = o \o b /\ <<>> \in Seq(WriterToken) /\ Len(<<>>) = 0
  <1>1. o \o b \in Seq(WriterToken)
    BY ConcatProperties
  <1>2. PICK s \in Seq(WriterToken) : s = o \o b
    BY <1>1
  <1>3. s \o <<>> = s
    BY ConcatEmptySeq
  <1> QED BY <1>2, <1>3

LEMMA BeginWriteStep ==
  ASSUME WriterInv, NEW amount \in 0..MaxAmount, WriteStream!BeginWrite(amount)
  PROVE  WriterInv'
  <1>0. /\ pc = "idle" /\ calls < MaxWrites /\ calls' = calls + 1 /\ written' = written + amount
        /\ avail' = WriteStream!SmallerOf(amount, SizeMax) /\ later' = amount - avail' /\ pc' = "write"
        /\ taken' = taken /\ emitted' = emitted /\ buf' = buf /\ out' = out /\ dirty' = dirty
    BY DEF WriteStream!BeginWrite
  <1>1. /\ out \in Seq(WriterToken) /\ buf \in Seq(WriterToken) /\ WriteStream!WellFormed(out \o buf)
        /\ Balance(out \o buf, taken, emitted, avail, later, written)
        /\ emitted > 0 => out \o buf # <<>>
        /\ out \o buf # <<>> => ((out \o buf)[Len(out \o buf)] = "end" <=> emitted \in {0, taken + 2})
        /\ Len(buf) <= BufSize
    BY WriterFacts
  <1>2. /\ calls \in 0..(MaxWrites + 1) /\ MaxWrites \in Nat /\ SizeMax \in Nat \ {0}
        /\ written \in Nat /\ later \in Nat /\ avail \in Nat /\ taken \in Nat /\ emitted \in Nat
        /\ dirty \in BOOLEAN
    BY WriterFacts
  <1>3. emitted <= taken + 1 /\ avail = 0 /\ later = 0
    BY <1>0 DEF WriterInv, WriterAt
  <1>4. amount \in Nat
    <2>1. MaxAmount \in Nat
      BY BufferAssumption
    <2> QED BY ONLY <2>1, amount \in 0..MaxAmount
  <1>5. /\ avail' \in Nat /\ later' \in Nat /\ avail' + later' = amount /\ written' \in Nat
        /\ calls' \in 0..(MaxWrites + 1)
    BY ONLY <1>0, <1>2, <1>4 DEF WriteStream!SmallerOf
  <1>6. PICK s : s = out \o buf
    OBVIOUS
  <1>7. Balance(s, taken', emitted', avail', later', written')
    <2>1. s \in Seq(WriterToken)
      BY ONLY <1>1, <1>6, ConcatProperties
    <2>2. Balance(s, taken, emitted, 0, 0, written)
      BY ONLY <1>1, <1>3, <1>6
    <2>3. avail' + later' - 0 - 0 = written' - written
      BY ONLY <1>0, <1>2, <1>4, <1>5
    <2>4. Balance(s, taken, emitted, avail', later', written')
      BY ONLY <1>2, <1>5, <2>1, <2>2, <2>3, 0 \in Nat, BalanceMoves
    <2> QED BY ONLY <1>0, <2>4
  <1>8. WriterAt'
    <2>1. emitted' <= taken' + 2
      BY ONLY <1>0, <1>2, <1>3
    <2> QED BY ONLY <1>0, <1>3, <2>1 DEF WriterAt
  <1>9. s = out' \o buf' /\ WriteStream!WellFormed(s)
    BY ONLY <1>0, <1>1, <1>6
  <1>10. /\ emitted' > 0 => s # <<>>
         /\ s # <<>> => (s[Len(s)] = "end" <=> emitted' \in {0, taken' + 2})
    BY ONLY <1>0, <1>1, <1>6
  <1>11. /\ out' \in Seq(WriterToken) /\ buf' \in Seq(WriterToken) /\ Len(buf') <= BufSize
         /\ dirty' \in BOOLEAN /\ taken' \in Nat /\ emitted' \in Nat
         /\ pc' \in {"idle", "write", "finish", "finished", "gone"}
    BY ONLY <1>0, <1>1, <1>2
  <1> QED BY ONLY <1>5, <1>7, <1>8, <1>9, <1>10, <1>11, WriterPrimed

\* A step that leaves alone what was put out and what is under way.
LEMMA WriterGoesOn ==
  ASSUME WriterInv, UNCHANGED <<written, taken, emitted, buf, out>>,
         avail' \in Nat, later' \in Nat, avail' + later' = avail + later,
         calls' \in 0..(MaxWrites + 1), dirty' \in BOOLEAN,
         pc' \in {"idle", "write", "finish", "finished", "gone"}, WriterAt'
  PROVE  WriterInv'
  <1>1. /\ out \in Seq(WriterToken) /\ buf \in Seq(WriterToken) /\ WriteStream!WellFormed(out \o buf)
        /\ Balance(out \o buf, taken, emitted, avail, later, written)
        /\ emitted > 0 => out \o buf # <<>>
        /\ out \o buf # <<>> => ((out \o buf)[Len(out \o buf)] = "end" <=> emitted \in {0, taken + 2})
        /\ Len(buf) <= BufSize
    BY WriterFacts
  <1>2. /\ written \in Nat /\ later \in Nat /\ avail \in Nat /\ taken \in Nat /\ emitted \in Nat
    BY WriterFacts
  <1>3. PICK s : s = out \o buf
    OBVIOUS
  <1>4. Balance(s, taken', emitted', avail', later', written')
    <2>1. s \in Seq(WriterToken)
      BY ONLY <1>1, <1>3, ConcatProperties
    <2>2. Balance(s, taken, emitted, avail, later, written)
      BY ONLY <1>1, <1>3
    <2>3. avail' + later' - avail - later = written - written
      <3>1. PICK a \in Nat, l \in Nat : a = avail' /\ l = later'
        BY ONLY avail' \in Nat, later' \in Nat
      <3>2. a + l = avail + later
        BY ONLY <3>1, avail' + later' = avail + later
      <3>3. a + l - avail - later = written - written
        BY ONLY <1>2, <3>2, a \in Nat, l \in Nat
      <3> QED BY ONLY <3>1, <3>3
    <2>4. Balance(s, taken, emitted, avail', later', written)
      BY ONLY <1>2, <2>1, <2>2, <2>3, avail' \in Nat, later' \in Nat, BalanceMoves
    <2>5. written' = written /\ taken' = taken /\ emitted' = emitted
      OBVIOUS
    <2> QED BY ONLY <2>4, <2>5
  <1>5. /\ written' = written /\ taken' = taken /\ emitted' = emitted /\ buf' = buf /\ out' = out
    OBVIOUS
  <1>6. s = out' \o buf' /\ WriteStream!WellFormed(s)
    BY ONLY <1>1, <1>3, <1>5
  <1>7. /\ emitted' > 0 => s # <<>>
        /\ s # <<>> => (s[Len(s)] = "end" <=> emitted' \in {0, taken' + 2})
    BY ONLY <1>1, <1>3, <1>5
  <1>8. /\ out' \in Seq(WriterToken) /\ buf' \in Seq(WriterToken) /\ Len(buf') <= BufSize
        /\ written' \in Nat /\ taken' \in Nat /\ emitted' \in Nat
    BY ONLY <1>1, <1>2, <1>5
  <1> QED BY <1>4, <1>6, <1>7, <1>8, WriterPrimed

LEMMA EndPieceStep ==
  ASSUME WriterInv, WriteStream!EndPiece
  PROVE  WriterInv'
  <1>0. /\ pc = "write" /\ avail = 0 /\ avail' = WriteStream!SmallerOf(later, SizeMax)
        /\ later' = later - avail' /\ dirty' = TRUE /\ pc' = (IF avail' = 0 THEN "idle" ELSE "write")
        /\ UNCHANGED <<calls, written, taken, emitted, buf, out>>
    BY DEF WriteStream!EndPiece
  <1>1. /\ calls \in 0..(MaxWrites + 1) /\ SizeMax \in Nat \ {0} /\ later \in Nat /\ taken \in Nat /\ emitted \in Nat
    BY WriterFacts
  <1>2. emitted <= taken + 1
    BY <1>0 DEF WriterInv, WriterAt
  <1>3. /\ avail' \in Nat /\ later' \in Nat /\ avail' + later' = avail + later
        /\ avail' = 0 => later' = 0
    BY ONLY <1>0, <1>1 DEF WriteStream!SmallerOf
  <1>4. WriterAt'
    <2>1. emitted' <= taken' + 2 /\ emitted' <= taken' + 1
      BY ONLY <1>0, <1>1, <1>2
    <2>2. pc' # "write" => avail' = 0 /\ later' = 0
      BY ONLY <1>0, <1>3
    <2>3. pc' \notin {"finish", "finished", "gone"} /\ dirty'
      BY ONLY <1>0
    <2> QED BY ONLY <2>1, <2>2, <2>3 DEF WriterAt
  <1>5. calls' \in 0..(MaxWrites + 1) /\ dirty' \in BOOLEAN /\ pc' \in {"idle", "write", "finish", "finished", "gone"}
    BY ONLY <1>0, <1>1
  <1>6. UNCHANGED <<written, taken, emitted, buf, out>>
    BY ONLY <1>0
  <1> QED BY ONLY <1>3, <1>4, <1>5, <1>6, WriterInv, WriterGoesOn

\* flush() and the destructor begin to finish the member, if there is one.
LEMMA BeginFlushStep ==
  ASSUME WriterInv, WriteStream!BeginFlush \/ WriteStream!Destroy
  PROVE  WriterInv'
  <1>0. /\ pc = "idle" /\ (calls' = calls + 1 \/ calls' = MaxWrites + 1)
        /\ calls < MaxWrites \/ calls' = MaxWrites + 1
        /\ pc' \in {"finish", "idle", "gone"} /\ (dirty => pc' = "finish") /\ (~dirty => pc' # "finish")
        /\ UNCHANGED <<written, later, avail, taken, emitted, buf, out, dirty>>
    BY DEF WriteStream!BeginFlush, WriteStream!Destroy
  <1>1. /\ calls \in 0..(MaxWrites + 1) /\ MaxWrites \in Nat /\ later \in Nat /\ avail \in Nat
        /\ taken \in Nat /\ emitted \in Nat /\ dirty \in BOOLEAN
    BY WriterFacts
  <1>2. pc = "idle"
    BY DEF WriteStream!BeginFlush, WriteStream!Destroy
  <1>3. /\ emitted <= taken + 1 /\ avail = 0 /\ later = 0
        /\ ~dirty => taken = 0 /\ emitted = 0 /\ buf = <<>> /\ out # <<>>
    BY <1>2 DEF WriterInv, WriterAt
  <1>4. WriterAt'
    <2>1. emitted' <= taken' + 2 /\ emitted' <= taken' + 1 /\ avail' = 0 /\ later' = 0
      BY ONLY <1>0, <1>1, <1>3
    <2>2. ~dirty' => taken' = 0 /\ emitted' = 0 /\ buf' = <<>> /\ out' # <<>>
      BY ONLY <1>0, <1>3
    <2>3. pc' # "finished" /\ (pc' = "gone" => ~dirty') /\ (pc' = "finish" => dirty')
      BY ONLY <1>0
    <2> QED BY ONLY <2>1, <2>2, <2>3 DEF WriterAt
  <1>5. calls' \in 0..(MaxWrites + 1)
    BY ONLY <1>0, <1>1
  <1>6. /\ avail' \in Nat /\ later' \in Nat /\ avail' + later' = avail + later
        /\ dirty' \in BOOLEAN /\ pc' \in {"idle", "write", "finish", "finished", "gone"}
        /\ UNCHANGED <<written, taken, emitted, buf, out>>
    BY ONLY <1>0, <1>1
  <1> QED BY ONLY <1>4, <1>5, <1>6, WriterInv, WriterGoesOn

LEMMA MakeRoomStep ==
  ASSUME WriterInv, WriteStream!MakeRoom
  PROVE  WriterInv'
  <1>0. /\ pc \in {"finish", "write"} /\ out' = out \o buf /\ buf' = <<>>
        /\ UNCHANGED <<calls, written, later, avail, taken, emitted, dirty, pc>>
    BY DEF WriteStream!MakeRoom, WriteStream!Drain
  <1>1. /\ out \in Seq(WriterToken) /\ buf \in Seq(WriterToken) /\ out \o buf \in Seq(WriterToken)
        /\ WriteStream!WellFormed(out \o buf)
        /\ Balance(out \o buf, taken, emitted, avail, later, written)
        /\ emitted > 0 => out \o buf # <<>>
        /\ out \o buf # <<>> => ((out \o buf)[Len(out \o buf)] = "end" <=> emitted \in {0, taken + 2})
        /\ BufSize \in Nat
    BY WriterFacts
  <1>2. /\ calls \in 0..(MaxWrites + 1) /\ dirty \in BOOLEAN
        /\ written \in Nat /\ later \in Nat /\ avail \in Nat /\ taken \in Nat /\ emitted \in Nat
    BY WriterFacts
  <1>3. PICK s : s = out \o buf
    OBVIOUS
  <1>4. s \o <<>> = s /\ <<>> \in Seq(WriterToken) /\ Len(<<>>) = 0
    BY ONLY <1>1, <1>3, Drained
  <1>5. s = out' \o buf' /\ WriteStream!WellFormed(s)
    BY ONLY <1>0, <1>1, <1>3, <1>4
  <1>6. Balance(s, taken', emitted', avail', later', written')
    BY ONLY <1>0, <1>1, <1>3
  <1>7. /\ emitted' > 0 => s # <<>>
        /\ s # <<>> => (s[Len(s)] = "end" <=> emitted' \in {0, taken' + 2})
    BY ONLY <1>0, <1>1, <1>3
  <1>8. out' \in Seq(WriterToken) /\ buf' \in Seq(WriterToken) /\ Len(buf') <= BufSize
    BY ONLY <1>0, <1>1, <1>4
  <1>9. WriterAt'
    <2>1. WriterAt
      BY DEF WriterInv
    <2> QED BY ONLY <1>0, <2>1 DEF WriterAt
  <1>10. /\ calls' \in 0..(MaxWrites + 1) /\ dirty' \in BOOLEAN
         /\ written' \in Nat /\ later' \in Nat /\ avail' \in Nat /\ taken' \in Nat /\ emitted' \in Nat
         /\ pc' \in {"idle", "write", "finish", "finished", "gone"}
    BY ONLY <1>0, <1>2
  <1> QED BY ONLY <1>5, <1>6, <1>7, <1>8, <1>9, <1>10, WriterPrimed

LEMMA EndFlushStep ==
  ASSUME WriterInv, WriteStream!EndFlush
  PROVE  WriterInv'
  <1>0. /\ pc = "finished" /\ out' = out \o buf /\ buf' = <<>> /\ taken' = 0 /\ emitted' = 0
        /\ dirty' = FALSE /\ pc' \in {"gone", "idle"}
        /\ UNCHANGED <<calls, written, later, avail>>
    BY DEF WriteStream!EndFlush, WriteStream!Drain
  <1>1. /\ out \in Seq(WriterToken) /\ buf \in Seq(WriterToken) /\ out \o buf \in Seq(WriterToken)
        /\ WriteStream!WellFormed(out \o buf)
        /\ Balance(out \o buf, taken, emitted, avail, later, written)
        /\ emitted > 0 => out \o buf # <<>>
        /\ out \o buf # <<>> => ((out \o buf)[Len(out \o buf)] = "end" <=> emitted \in {0, taken + 2})
        /\ BufSize \in Nat
    BY WriterFacts
  <1>2. /\ calls \in 0..(MaxWrites + 1)
        /\ written \in Nat /\ later \in Nat /\ avail \in Nat /\ taken \in Nat /\ emitted \in Nat
    BY WriterFacts
  <1>3. emitted = taken + 2 /\ avail = 0 /\ later = 0
    BY <1>0 DEF WriterInv, WriterAt
  <1>4. PICK s : s = out \o buf
    OBVIOUS
  <1>5. s \o <<>> = s /\ <<>> \in Seq(WriterToken) /\ Len(<<>>) = 0
    BY ONLY <1>1, <1>4, Drained
  <1>6. s = out' \o buf' /\ WriteStream!WellFormed(s)
    BY ONLY <1>0, <1>1, <1>4, <1>5
  <1>7. s # <<>> /\ s[Len(s)] = "end"
    <2>1. emitted > 0
      BY ONLY <1>2, <1>3
    <2> QED BY ONLY <1>1, <1>3, <1>4, <2>1
  <1>8. Balance(s, taken', emitted', avail', later', written')
    <2>1. taken - PutOut(emitted, taken) = 0
      BY ONLY <1>2, <1>3 DEF PutOut, WriteStream!SmallerOf
    <2>2. 0 - PutOut(0, 0) = 0
      BY ONLY DEF PutOut
    <2>3. TokenTo(s, Len(s)) + 0 + avail + later = written
      BY ONLY <1>1, <1>4, <2>1 DEF Balance
    <2> QED BY ONLY <1>0, <2>2, <2>3 DEF Balance
  <1>9. /\ out' \in Seq(WriterToken) /\ buf' \in Seq(WriterToken) /\ Len(buf') <= BufSize /\ out' # <<>>
    BY ONLY <1>0, <1>1, <1>4, <1>5, <1>7
  <1>10. WriterAt'
    <2>1. emitted' <= taken' + 2 /\ emitted' <= taken' + 1
      BY ONLY <1>0
    <2> QED BY ONLY <1>0, <1>3, <1>9, <2>1 DEF WriterAt
  <1>11. /\ calls' \in 0..(MaxWrites + 1) /\ dirty' \in BOOLEAN
         /\ written' \in Nat /\ later' \in Nat /\ avail' \in Nat /\ taken' \in Nat /\ emitted' \in Nat
         /\ pc' \in {"idle", "write", "finish", "finished", "gone"}
    BY ONLY <1>0, <1>2
  <1>12. /\ emitted' > 0 => s # <<>>
         /\ s # <<>> => (s[Len(s)] = "end" <=> emitted' \in {0, taken' + 2})
    BY ONLY <1>0, <1>7
  <1> QED BY ONLY <1>6, <1>8, <1>9, <1>10, <1>11, <1>12, WriterPrimed

\* Tokens of the member are put out into the buffer.
LEMMA PutOutStep ==
  ASSUME WriterInv, NEW e \in Nat, NEW n \in Nat, taken' = n, emitted' = e,
         emitted <= e, e <= n + 2, e <= emitted + WriteStream!Room, taken <= n,
         n = taken \/ (emitted <= taken + 1 /\ e <= n + 1),
         emitted <= taken + 2,
         buf' = buf \o WriteStream!Tokens(emitted + 1, e, n), out' = out,
         avail' \in Nat, avail' = avail - (n - taken),
         UNCHANGED <<calls, written, later, dirty>>,
         pc' \in {"idle", "write", "finish", "finished", "gone"}, WriterAt'
  PROVE  WriterInv'
  <1>1. /\ out \in Seq(WriterToken) /\ buf \in Seq(WriterToken) /\ out \o buf \in Seq(WriterToken)
        /\ WriteStream!WellFormed(out \o buf)
        /\ Balance(out \o buf, taken, emitted, avail, later, written)
        /\ emitted > 0 => out \o buf # <<>>
        /\ out \o buf # <<>> => ((out \o buf)[Len(out \o buf)] = "end" <=> emitted \in {0, taken + 2})
        /\ Len(buf) \in Nat /\ Len(buf) <= BufSize /\ BufSize \in Nat
    BY WriterFacts
  <1>2. /\ calls \in 0..(MaxWrites + 1) /\ dirty \in BOOLEAN
        /\ written \in Nat /\ later \in Nat /\ avail \in Nat /\ taken \in Nat /\ emitted \in Nat
    BY WriterFacts
  <1>3. PICK s, t : s = out \o buf /\ t = WriteStream!Tokens(emitted + 1, e, n)
    OBVIOUS
  <1>4. PICK em \in Nat, tk \in Nat : em = emitted /\ tk = taken
    BY ONLY <1>2
  <1>5. /\ s \in Seq(WriterToken) /\ WriteStream!WellFormed(s) /\ (em > 0 => s # <<>>)
        /\ s # <<>> => (s[Len(s)] = "end" <=> em \in {0, tk + 2})
        /\ em <= e /\ tk <= n /\ em <= tk + 2 /\ (n = tk \/ (em <= tk + 1 /\ e <= n + 1))
        /\ t = WriteStream!Tokens(em + 1, e, n)
    BY <1>1, <1>3, <1>4
  <1>6. em < e => (em \in {0, tk + 2} <=> em = 0)
    BY ONLY <1>5, e <= n + 2, e \in Nat, n \in Nat, em \in Nat, tk \in Nat
  <1>7. em < e /\ s # <<>> => (s[Len(s)] = "end" <=> em = 0)
    BY ONLY <1>5, <1>6
  <1>8. /\ t \in Seq(WriterToken) /\ Len(t) = e - em
        /\ s \o t \in Seq(WriterToken) /\ WriteStream!WellFormed(s \o t)
        /\ TokenTo(s \o t, Len(s \o t)) = TokenTo(s, Len(s)) + (PutOut(e, n) - PutOut(em, n))
        /\ TokenTo(s, Len(s)) \in Nat
        /\ em < e => s \o t # <<>> /\ ((s \o t)[Len(s \o t)] = "end" <=> e = n + 2)
    <2>1. BeforeAdded(s, t, em, e, n)
      BY ONLY <1>5, <1>7, e <= n + 2 DEF BeforeAdded
    <2>2. Added(s, t, s \o t, em, e, n)
      BY ONLY <2>1, e \in Nat, n \in Nat, em \in Nat, TokensAdded
    <2> QED BY ONLY <2>2 DEF Added
  <1>9. PICK w : w = s \o t
    OBVIOUS
  <1>10. w = out' \o buf' /\ buf' \in Seq(WriterToken) /\ Len(buf') <= BufSize
    <2>1. buf' = buf \o t /\ out' = out
      BY <1>3
    <2>2. (out \o buf) \o t = out \o (buf \o t)
      <3>1. out \in Seq(WriterToken) /\ buf \in Seq(WriterToken) /\ t \in Seq(WriterToken)
        BY ONLY <1>1, <1>8
      <3> QED BY ONLY <3>1, ConcatAssociative
    <2>3. buf \o t \in Seq(WriterToken) /\ Len(buf \o t) = Len(buf) + Len(t)
      <3>1. buf \in Seq(WriterToken) /\ t \in Seq(WriterToken)
        BY ONLY <1>1, <1>8
      <3> QED BY ONLY <3>1, ConcatProperties
    <2>4. e <= em + (BufSize - Len(buf))
      BY <1>4 DEF WriteStream!Room
    <2>5. Len(buf) + (e - em) <= BufSize
      BY ONLY <1>1, <2>4, e \in Nat, em \in Nat
    <2> QED BY ONLY <1>3, <1>8, <1>9, <2>1, <2>2, <2>3, <2>5
  <1>11. Balance(w, taken', emitted', avail', later', written')
    <2>1. PICK x \in Nat : x = TokenTo(s, Len(s))
      BY ONLY <1>8
    <2>2. TokenTo(w, Len(w)) = x + (PutOut(e, n) - PutOut(em, n))
      BY ONLY <1>8, <1>9, <2>1
    <2>3. PutOut(em, n) = PutOut(em, tk) /\ PutOut(em, tk) \in Nat /\ PutOut(e, n) \in Nat
      BY ONLY <1>5, e \in Nat, n \in Nat, em \in Nat, tk \in Nat DEF PutOut, WriteStream!SmallerOf
    <2>4. PICK y \in Nat, z \in Nat : y = PutOut(em, tk) /\ z = PutOut(e, n)
      BY ONLY <2>3
    <2>5. x + (tk - y) + avail + later = written
      BY ONLY <1>1, <1>3, <1>4, <2>1, <2>4 DEF Balance
    <2>6. avail' = avail - (n - tk) /\ later' = later /\ written' = written /\ taken' = n /\ emitted' = e
      BY <1>4
    <2>7. (x + (z - y)) + (n - z) + avail' + later' = written'
      BY ONLY <1>2, <2>5, <2>6, x \in Nat, y \in Nat, z \in Nat, n \in Nat, tk \in Nat
    <2>8. TokenTo(w, Len(w)) + (taken' - PutOut(emitted', taken')) + avail' + later' = written'
      BY ONLY <2>2, <2>3, <2>4, <2>6, <2>7
    <2> QED BY ONLY <2>8 DEF Balance
  <1>12. CASE em < e
    <2>1. w # <<>> /\ (w[Len(w)] = "end" <=> e = n + 2) /\ WriteStream!WellFormed(w)
      BY ONLY <1>8, <1>9, <1>12
    <2>2. e \in {0, n + 2} <=> e = n + 2
      BY ONLY <1>12, e \in Nat, em \in Nat
    <2>3. /\ emitted' > 0 => w # <<>>
          /\ w # <<>> => (w[Len(w)] = "end" <=> emitted' \in {0, taken' + 2})
      BY <2>1, <2>2
    <2> QED BY <1>1, <1>2, <1>10, <1>11, <2>1, <2>3, WriterPrimed
  <1>13. CASE em = e
    <2>1. Len(t) = 0
      BY ONLY <1>8, <1>13, e \in Nat
    <2>2. t = <<>>
      BY ONLY <1>8, <2>1, EmptySeq
    <2>3. w = s
      BY ONLY <1>5, <1>9, <2>2, ConcatEmptySeq
    <2>4. em \in {0, tk + 2} <=> e \in {0, n + 2}
      BY ONLY <1>5, <1>13, e \in Nat, n \in Nat, em \in Nat, tk \in Nat
    <2>5. /\ emitted' > 0 => w # <<>>
          /\ w # <<>> => (w[Len(w)] = "end" <=> emitted' \in {0, taken' + 2})
      BY <1>5, <1>13, <2>3, <2>4
    <2>6. WriteStream!WellFormed(w)
      BY ONLY <1>8, <1>9
    <2> QED BY <1>1, <1>2, <1>10, <1>11, <2>5, <2>6, WriterPrimed
  <1> QED BY ONLY <1>5, <1>12, <1>13, e \in Nat, em \in Nat

LEMMA ProcessStep ==
  ASSUME WriterInv, WriteStream!Process
  PROVE  WriterInv'
  <1>0. /\ pc = "write" /\ UNCHANGED <<calls, written, later, out, dirty, pc>>
    BY DEF WriteStream!Process
  <1>1. PICK k \in 0..avail :
          /\ taken' = taken + k /\ avail' = avail - k
          /\ \E e \in emitted..WriteStream!SmallerOf(taken' + 1, emitted + WriteStream!Room) :
                emitted' = e /\ buf' = buf \o WriteStream!Tokens(emitted + 1, e, taken')
    BY DEF WriteStream!Process
  <1>2. PICK e \in emitted..WriteStream!SmallerOf(taken' + 1, emitted + WriteStream!Room) :
          emitted' = e /\ buf' = buf \o WriteStream!Tokens(emitted + 1, e, taken')
    BY <1>1
  <1>3. /\ avail \in Nat /\ taken \in Nat /\ emitted \in Nat /\ Len(buf) \in Nat /\ BufSize \in Nat
    BY WriterFacts
  <1>4. emitted <= taken + 1 /\ emitted <= taken + 2
    <2>1. emitted <= taken + 1
      BY <1>0 DEF WriterInv, WriterAt
    <2> QED BY ONLY <1>3, <2>1
  <1>5. WriteStream!Room \in Int
    BY ONLY <1>3 DEF WriteStream!Room
  <1>6. PICK n \in Nat : n = taken + k
    BY ONLY <1>3, k \in 0..avail
  <1>7. /\ e \in Nat /\ emitted <= e /\ e <= n + 1 /\ e <= n + 2 /\ e <= emitted + WriteStream!Room
        /\ taken <= n /\ avail' \in Nat /\ avail' = avail - (n - taken) /\ taken' = n
    <2>1. PICK room \in Int : room = WriteStream!Room
      BY ONLY <1>5
    <2>2. e \in emitted..WriteStream!SmallerOf(n + 1, emitted + room) /\ taken' = n
      BY ONLY <1>1, <1>6, <2>1, e \in emitted..WriteStream!SmallerOf(taken' + 1, emitted + WriteStream!Room)
    <2>3. e \in Nat /\ emitted <= e /\ e <= n + 1 /\ e <= n + 2 /\ e <= emitted + room
      BY ONLY <1>3, <2>2, n \in Nat, room \in Int DEF WriteStream!SmallerOf
    <2>4. taken <= n /\ avail' \in Nat /\ avail' = avail - (n - taken)
      BY ONLY <1>1, <1>3, <1>6, k \in 0..avail
    <2> QED BY ONLY <2>1, <2>2, <2>3, <2>4
  <1>8. WriterAt'
    <2>1. emitted' <= taken' + 1 /\ emitted' <= taken' + 2 /\ pc' = "write"
      BY ONLY <1>0, <1>2, <1>7
    <2> QED BY ONLY <2>1 DEF WriterAt
  <1>9. /\ emitted' = e /\ buf' = buf \o WriteStream!Tokens(emitted + 1, e, n) /\ out' = out
        /\ UNCHANGED <<calls, written, later, dirty>>
        /\ pc' \in {"idle", "write", "finish", "finished", "gone"}
    BY ONLY <1>0, <1>2, <1>7
  <1> QED BY ONLY <1>4, <1>7, <1>8, <1>9, n \in Nat, WriterInv, PutOutStep

LEMMA FinishStep ==
  ASSUME WriterInv, WriteStream!Finish
  PROVE  WriterInv'
  <1>1. PICK e : e = WriteStream!SmallerOf(taken + 2, emitted + WriteStream!Room)
    OBVIOUS
  <1>0. /\ pc = "finish" /\ WriteStream!EnoughOutput /\ emitted' = e
        /\ buf' = buf \o WriteStream!Tokens(emitted + 1, e, taken)
        /\ pc' = (IF e = taken + 2 THEN "finished" ELSE pc)
        /\ UNCHANGED <<calls, written, later, avail, taken, out, dirty>>
    BY <1>1 DEF WriteStream!Finish
  <1>2. /\ avail \in Nat /\ taken \in Nat /\ emitted \in Nat /\ Len(buf) \in Nat /\ BufSize \in Nat
        /\ MinOutput \in Nat \ {0}
    BY WriterFacts
  <1>3. emitted <= taken + 2 /\ avail = 0 /\ later = 0 /\ dirty
    BY <1>0 DEF WriterInv, WriterAt
  <1>4. WriteStream!Room \in Int /\ WriteStream!Room >= 1
    <2>1. WriteStream!Room >= MinOutput
      BY ONLY <1>0 DEF WriteStream!EnoughOutput
    <2>2. WriteStream!Room \in Int
      BY ONLY <1>2 DEF WriteStream!Room
    <2> QED BY ONLY <1>2, <2>1, <2>2
  <1>5. PICK room \in Int : room = WriteStream!Room
    BY ONLY <1>4
  <1>6. e \in Nat /\ emitted <= e /\ e <= taken + 2 /\ e <= emitted + room
    <2>1. e = WriteStream!SmallerOf(taken + 2, emitted + room) /\ room >= 1
      BY ONLY <1>1, <1>4, <1>5
    <2> QED BY ONLY <1>2, <1>3, <2>1, room \in Int DEF WriteStream!SmallerOf
  <1>7. WriterAt'
    <2>1. /\ emitted' <= taken' + 2 /\ avail' = 0 /\ later' = 0 /\ dirty'
          /\ pc' \in {"finish", "finished"} /\ (pc' = "finished" => emitted' = taken' + 2)
      BY ONLY <1>0, <1>3, <1>6
    <2> QED BY ONLY <2>1 DEF WriterAt
  <1>8. PICK n \in Nat : n = taken
    BY ONLY <1>2
  <1>9. /\ taken' = n /\ emitted' = e /\ emitted <= e /\ e <= n + 2 /\ e <= emitted + WriteStream!Room
        /\ taken <= n /\ n = taken /\ emitted <= taken + 2
        /\ buf' = buf \o WriteStream!Tokens(emitted + 1, e, n) /\ out' = out
        /\ avail' \in Nat /\ avail' = avail - (n - taken)
    <2>1. avail' = avail /\ avail - (taken - taken) = avail /\ taken <= taken
      BY ONLY <1>0, <1>2
    <2> QED BY ONLY <1>0, <1>2, <1>3, <1>5, <1>6, <1>8, <2>1
  <1>10. /\ UNCHANGED <<calls, written, later, dirty>>
         /\ pc' \in {"idle", "write", "finish", "finished", "gone"}
    BY ONLY <1>0
  <1> QED BY ONLY <1>6, <1>7, <1>9, <1>10, n \in Nat, WriterInv, PutOutStep

LEMMA WriterStep ==
  ASSUME WriterInv, WriteStream!Next
  PROVE  WriterInv'
  BY BeginWriteStep, MakeRoomStep, ProcessStep, EndPieceStep, BeginFlushStep, FinishStep, EndFlushStep
  DEF WriteStream!Next

-----------------------------------------------------------------------------
(* Reader and writer together *)

LEMMA CompressInvInit ==
  ASSUME CompressInit
  PROVE  CompressInv
  <1>0. /\ MagicSize \in Nat \ {0} /\ InputBuffer \in Nat \ {0} /\ MaxAmount \in Nat \ {0}
        /\ MaxWrites \in Nat /\ BufSize \in Nat
    BY BufferAssumption, WriterAssumption
  <1>1. ReaderInit
    BY DEF CompressInit, FilesInit
  <1>2. FileAt(raw, fine)
    <2>1. CASE raw = <<>> /\ fine = TRUE
      <3>1. <<>> \in Seq(FileToken) /\ AllData(<<>>)
        BY DEF AllData
      <3> QED BY <2>1, <3>1 DEF FileAt
    <2>2. CASE FilesInit
      <3>1. PICK f \in Files : raw = f.raw /\ fine = f.fine
        BY <2>2 DEF FilesInit
      <3>2. FileAt(f.raw, f.fine)
        BY ONLY f \in Files, FilesFacts
      <3> QED BY ONLY <3>1, <3>2
    <2> QED BY <2>1, <2>2 DEF CompressInit
  <1>3. ReaderInv
    <2>1. /\ fd = 0 /\ reader = "none" /\ format = "unknown" /\ input = <<>> /\ inside = 0
          /\ rawAmount = 0 /\ want = 0 /\ delivered = 0 /\ result = -1
      BY <1>1 DEF ReaderInit, Pending
    <2>2. raw \in Seq(FileToken) /\ Len(raw) \in Nat
      BY <1>2 DEF FileAt
    <2>3. input \in Seq(FileToken) /\ Len(input) = 0
      BY ONLY <2>1
    <2>8. fd = 0 /\ Len(input) = 0 /\ Passed = fd - Len(input)
      BY ONLY <2>1, <2>3 DEF Passed
    <2>4. fd \in 0..Len(raw) /\ Len(input) <= fd /\ Len(input) <= InputBuffer /\ Passed = 0
      BY ONLY <1>0, <2>2, <2>8
    <2>5. ReaderTypeOK
      BY ONLY <1>0, <2>1, <2>2, <2>4 DEF ReaderTypeOK
    <2>6. InputAt
      <3>1. DataTo(raw, 0) = 0
        BY ONLY 0 \in Nat, DataToType
      <3>2. Behind(raw, Passed, input, Len(input))
        BY ONLY <2>3 DEF Behind
      <3> QED BY ONLY <2>1, <2>3, <2>4, <3>1, <3>2 DEF InputAt
    <2>7. ReaderAt
      <3>1. ~(want > 0) /\ result # 0
        BY ONLY <2>1
      <3> QED BY ONLY <1>1, <2>1, <3>1 DEF ReaderAt
    <2> QED BY ONLY <1>2, <2>1, <2>5, <2>6, <2>7 DEF ReaderInv, RawAmountExact, NoFalseAlarm
  <1>4. pc # "none" => WriterInv /\ raw = <<>> /\ fine = TRUE /\ pc = "idle"
    <2>1. SUFFICES ASSUME pc # "none" PROVE WriterInv /\ raw = <<>> /\ fine = TRUE /\ pc = "idle"
      OBVIOUS
    <2>2. WriteStream!Init /\ raw = <<>> /\ fine = TRUE
      BY <2>1 DEF CompressInit
    <2>3. /\ calls = 0 /\ written = 0 /\ later = 0 /\ avail = 0 /\ taken = 0 /\ emitted = 0
          /\ buf = <<>> /\ out = <<>> /\ dirty = TRUE /\ pc = "idle"
      BY <2>2 DEF WriteStream!Init
    <2>4. <<>> \in Seq(WriterToken) /\ Len(<<>>) = 0 /\ <<>> \o <<>> = <<>>
      <3>1. <<>> \in Seq(WriterToken) /\ Len(<<>>) = 0
        OBVIOUS
      <3> QED BY <3>1, ConcatEmptySeq
    <2>5. WriteStream!TypeOK
      BY ONLY <1>0, <2>3, <2>4 DEF WriteStream!TypeOK, WriterToken
    <2>6. WriteStream!NothingLost
      <3>1. WriteStream!WellFormed(<<>>)
        BY ONLY <2>4 DEF WriteStream!WellFormed
      <3>2. WriteStream!DataOf(<<>>) = 0
        <4>1. WriteStream!DataOf(<<>>) = TokenTo(<<>>, Len(<<>>))
          BY ONLY WriterDataOf
        <4>2. TokenTo(<<>>, 0) = 0
          BY ONLY 1 \in Nat \ {0}, TokenOneMore
        <4> QED BY ONLY <2>4, <4>1, <4>2
      <3>3. out \o buf = <<>>
        BY ONLY <2>3, <2>4
      <3> QED BY ONLY <2>3, <3>1, <3>2, <3>3 DEF WriteStream!NothingLost
    <2>7. WriterAt /\ TokensAt
      <3>1. out \o buf = <<>> /\ ~(emitted > 0) /\ emitted <= taken + 2 /\ emitted <= taken + 1
        BY ONLY <2>3, <2>4
      <3> QED BY ONLY <2>3, <3>1 DEF WriterAt, TokensAt
    <2> QED BY ONLY <2>2, <2>3, <2>5, <2>6, <2>7 DEF WriterInv
  <1>5. Apart
    BY <1>1, <1>4 DEF Apart
  <1> QED BY ONLY <1>3, <1>4, <1>5 DEF CompressInv

\* What the writer has left behind when it is gone.
LEMMA GoneFacts ==
  ASSUME WriterInv, pc = "gone"
  PROVE  /\ out \in Seq(WriterToken) /\ out # <<>> /\ WriteStream!WellFormed(out)
         /\ out[Len(out)] = "end" /\ buf = <<>> /\ WriteStream!DataOf(out) = written
  <1>1. ~dirty /\ avail = 0 /\ later = 0
    BY DEF WriterInv, WriterAt
  <1>2. taken = 0 /\ emitted = 0 /\ buf = <<>> /\ out # <<>>
    BY <1>1 DEF WriterInv, WriterAt
  <1>3. /\ out \in Seq(WriterToken) /\ WriteStream!WellFormed(out \o buf)
        /\ Balance(out \o buf, taken, emitted, avail, later, written)
        /\ out \o buf # <<>> => ((out \o buf)[Len(out \o buf)] = "end" <=> emitted \in {0, taken + 2})
        /\ written \in Nat
    BY WriterFacts
  <1>4. out \o <<>> = out
    BY <1>3, ConcatEmptySeq
  <1>5. out \o buf = out
    BY ONLY <1>2, <1>4
  <1>6. out[Len(out)] = "end" /\ WriteStream!WellFormed(out)
    BY ONLY <1>2, <1>3, <1>5
  <1>7. WriteStream!DataOf(out) = written
    <2>1. TokenTo(out, Len(out)) + (0 - PutOut(0, 0)) + 0 + 0 = written
      BY ONLY <1>1, <1>2, <1>3, <1>5 DEF Balance
    <2>2. 0 - PutOut(0, 0) = 0
      BY ONLY DEF PutOut
    <2>3. TokenTo(out, Len(out)) \in Nat
      <3>1. Len(out) \in Nat
        BY ONLY <1>3, LenProperties
      <3>2. Behind(out, Len(out), out, 0)
        BY ONLY DEF Behind
      <3> QED BY ONLY <3>1, <3>2, 0 \in Nat, TokenSplit
    <2>4. TokenTo(out, Len(out)) = written
      BY ONLY <2>1, <2>2, <2>3
    <2> QED BY ONLY <2>4, WriterDataOf
  <1> QED BY ONLY <1>2, <1>3, <1>6, <1>7

LEMMA WritesStep ==
  ASSUME CompressInv, Writes
  PROVE  CompressInv'
  <1>0. WriteStream!Next /\ UNCHANGED <<raw, fine, fd, reader, format, input, inside, rawAmount, want, delivered, result>>
    BY DEF Writes, readerVars
  <1>1. pc \in {"idle", "write", "finish", "finished"}
    BY <1>0 DEF WriteStream!Next, WriteStream!BeginWrite, WriteStream!MakeRoom, WriteStream!Process,
       WriteStream!EndPiece, WriteStream!BeginFlush, WriteStream!Destroy, WriteStream!Finish, WriteStream!EndFlush
  <1>2. WriterInv /\ raw = <<>> /\ fine = TRUE /\ ReaderInit
    BY <1>1 DEF CompressInv, Apart
  <1>3. WriterInv'
    BY ONLY <1>0, <1>2, WriterStep
  <1>4. ReaderInv'
    <2>1. ReaderInv
      BY DEF CompressInv
    <2> QED BY ONLY <1>0, <2>1 DEF ReaderInv, FileAt, ReaderTypeOK, RawAmountExact, NoFalseAlarm, InputAt, Passed,
       ReaderAt, ReaderInit
  <1>5. Apart'
    BY ONLY <1>0, <1>2 DEF Apart, ReaderInit
  <1> QED BY ONLY <1>3, <1>4, <1>5 DEF CompressInv

LEMMA ReopenStep ==
  ASSUME CompressInv, Reopen
  PROVE  CompressInv'
  <1>0. /\ pc = "gone" /\ raw = <<>>
        /\ UNCHANGED <<fine, fd, reader, format, input, inside, rawAmount, want, delivered, result>>
        /\ UNCHANGED <<calls, written, later, avail, taken, emitted, buf, out, dirty, pc>>
    BY DEF Reopen, writeVars
  <1>1. PICK f \in FormatsWritten : raw' = RawFile(out, f)
    BY DEF Reopen
  <1>2. f \in AnyFormat
    BY DEF FormatsWritten, AnyFormat
  <1>3. WriterInv /\ fine = TRUE /\ ReaderInit /\ ReaderInv
    BY <1>0 DEF CompressInv, Apart
  <1>4. PICK o : o = out
    OBVIOUS
  <1>5. /\ o \in Seq(WriterToken) /\ o # <<>> /\ WriteStream!WellFormed(o)
        /\ o[Len(o)] = "end" /\ WriteStream!DataOf(o) = written
    BY ONLY <1>0, <1>3, <1>4, GoneFacts
  <1>6. /\ FileAt(raw', TRUE) /\ raw' # <<>> /\ DataOf(raw') = written
    BY ONLY <1>1, <1>2, <1>4, <1>5, RawFileFacts
  <1>7. WriterInv'
    BY ONLY <1>0, <1>3 DEF WriterInv, WriteStream!TypeOK, WriteStream!NothingLost, WriterAt, TokensAt
  <1>8. ReaderInv'
    <2>1. /\ fd' = 0 /\ reader' = "none" /\ format' = "unknown" /\ input' = <<>> /\ inside' = 0
          /\ rawAmount' = 0 /\ want' = 0 /\ delivered' = 0 /\ result' = -1 /\ fine'
      BY <1>0, <1>3 DEF ReaderInit, Pending
    <2>2. raw' \in Seq(FileToken) /\ Len(raw') \in Nat
      BY <1>6 DEF FileAt
    <2>3. input' \in Seq(FileToken) /\ Len(input') = 0
      BY ONLY <2>1
    <2>0. InputBuffer \in Nat /\ MaxAmount \in Nat
      BY BufferAssumption
    <2>9. fd' = 0 /\ Len(input') = 0 /\ Passed' = fd' - Len(input')
      BY ONLY <2>1, <2>3 DEF Passed
    <2>4. fd' \in 0..Len(raw') /\ Len(input') <= fd' /\ Len(input') <= InputBuffer /\ Passed' = 0
      BY ONLY <2>0, <2>2, <2>9
    <2>5. ReaderTypeOK'
      BY ONLY <2>0, <2>1, <2>2, <2>4 DEF ReaderTypeOK
    <2>6. InputAt'
      <3>1. PICK r : r = raw'
        OBVIOUS
      <3>2. DataTo(r, 0) = 0
        BY ONLY 0 \in Nat, DataToType
      <3>3. Behind(r, 0, input', Len(input'))
        BY ONLY <2>3 DEF Behind
      <3> QED BY ONLY <2>1, <2>3, <2>4, <3>1, <3>2, <3>3 DEF InputAt
    <2>7. ReaderAt'
      <3>1. ~(want' > 0) /\ result' # 0
        BY ONLY <2>1
      <3>2. ReaderInit'
        BY ONLY <2>1 DEF ReaderInit, Pending
      <3> QED BY ONLY <2>1, <3>1, <3>2 DEF ReaderAt
    <2>8. FileAt(raw, fine)'
      <3>1. fine' = TRUE
        BY ONLY <1>0, <1>3
      <3> QED BY ONLY <1>6, <3>1
    <2> QED BY ONLY <2>1, <2>5, <2>6, <2>7, <2>8 DEF ReaderInv, RawAmountExact, NoFalseAlarm
  <1>9. Apart'
    BY ONLY <1>0, <1>6 DEF Apart
  <1> QED BY ONLY <1>7, <1>8, <1>9 DEF CompressInv

LEMMA ReadStep ==
  ASSUME CompressInv, Read
  PROVE  CompressInv'
  <1>0. /\ pc = "none" \/ (pc = "gone" /\ raw # <<>>)
        /\ ReaderNext
        /\ UNCHANGED <<calls, written, later, avail, taken, emitted, buf, out, dirty, pc>>
    BY DEF Read, writeVars
  <1>1. ReaderInv'
    BY <1>0, ReaderStep DEF CompressInv
  <1>2. raw' = raw
    BY <1>0 DEF ReaderNext, Open, Begin, ReadComplete, ReadUncompressed, ReadWithHeader, ReadInput,
       ReadDecodes, ReadEndsMember, ReadCutOff
  <1>3. pc # "none" => WriterInv'
    <2>1. pc # "none" => WriterInv
      BY DEF CompressInv
    <2> QED BY ONLY <1>0, <2>1 DEF WriterInv, WriteStream!TypeOK, WriteStream!NothingLost, WriterAt, TokensAt
  <1>4. Apart'
    <2>1. Apart
      BY DEF CompressInv
    <2> QED BY ONLY <1>0, <1>2, <2>1 DEF Apart
  <1>5. pc' = pc
    BY ONLY <1>0
  <1> QED BY ONLY <1>1, <1>3, <1>4, <1>5 DEF CompressInv

LEMMA CompressStays ==
  ASSUME CompressInv, UNCHANGED allVars
  PROVE  CompressInv'
  <1>0. /\ UNCHANGED <<raw, fine, fd, reader, format, input, inside, rawAmount, want, delivered, result>>
        /\ UNCHANGED <<calls, written, later, avail, taken, emitted, buf, out, dirty, pc>>
    BY DEF allVars, readerVars, writeVars
  <1>1. ReaderInv'
    <2>1. ReaderInv
      BY DEF CompressInv
    <2> QED BY ONLY <1>0, <2>1 DEF ReaderInv, FileAt, ReaderTypeOK, RawAmountExact, NoFalseAlarm, InputAt, Passed,
       ReaderAt, ReaderInit
  <1>2. pc # "none" => WriterInv'
    <2>1. pc # "none" => WriterInv
      BY DEF CompressInv
    <2> QED BY ONLY <1>0, <2>1 DEF WriterInv, WriteStream!TypeOK, WriteStream!NothingLost, WriterAt, TokensAt
  <1>3. Apart'
    <2>1. Apart
      BY DEF CompressInv
    <2> QED BY ONLY <1>0, <2>1 DEF Apart, ReaderInit
  <1> QED BY ONLY <1>0, <1>1, <1>2, <1>3 DEF CompressInv

\* The inductive invariant.
LEMMA CompressInvariant == CompressSpec => []CompressInv
  <1>1. CompressInit => CompressInv
    BY CompressInvInit
  <1>2. CompressInv /\ [CompressNext]_allVars => CompressInv'
    BY WritesStep, ReopenStep, ReadStep, CompressStays DEF CompressNext
  <1> QED BY <1>1, <1>2, PTL DEF CompressSpec

LEMMA CompressImplies ==
  ASSUME CompressInv
  PROVE  CompressSafety /\ RoundTrip
  <1>0. ReaderInv
    BY DEF CompressInv
  <1>1. /\ raw \in Seq(FileToken) /\ Len(raw) \in Nat /\ fd \in Nat /\ fd \in 0..Len(raw)
        /\ input \in Seq(FileToken) /\ Len(input) \in Nat
        /\ Passed \in Nat /\ Passed + Len(input) = fd /\ Behind(raw, Passed, input, Len(input))
    BY ONLY <1>0, ReaderFacts
  <1>2. ReaderTypeOK /\ RawAmountExact /\ NoFalseAlarm
    BY ONLY <1>0 DEF ReaderInv
  <1>3. /\ DataOf(raw) = DataTo(raw, fd) + DataOf(SubSeq(raw, fd + 1, Len(raw)))
    BY ONLY <1>1, DataUpTo
  <1>4. NothingLost
    <2>1. SUFFICES ASSUME reader # "threw"
                   PROVE  delivered + inside + DataOf(input) + DataOf(SubSeq(raw, fd + 1, Len(raw))) = DataOf(raw)
      BY DEF NothingLost
    <2>2. delivered + inside = DataTo(raw, Passed)
      BY ONLY <1>0, <2>1 DEF ReaderInv, InputAt
    <2>3. PICK p \in Nat, l \in Nat : p = Passed /\ l = Len(input)
      BY ONLY <1>1
    <2>4. Behind(raw, p, input, l) /\ p + l = fd
      BY ONLY <1>1, <2>3
    <2>5. DataTo(raw, p + l) = DataTo(raw, p) + DataTo(input, l)
      BY ONLY <2>4, p \in Nat, l \in Nat, DataSplit
    <2>6. DataTo(input, l) = DataOf(input)
      BY ONLY <2>3 DEF DataTo, DataOf
    <2> QED BY ONLY <1>3, <2>2, <2>3, <2>4, <2>5, <2>6
  <1>5. WriterLosesNothing
    BY DEF CompressInv, WriterInv, WriterLosesNothing
  <1>6. ZeroMeansEnd
    <2>1. SUFFICES ASSUME result = 0 PROVE delivered = DataOf(raw) /\ fine
      BY DEF ZeroMeansEnd
    <2>2. reader \in {"Complete", "Uncompressed"} /\ fd = Len(raw)
      BY ONLY <1>0, <2>1 DEF ReaderInv, ReaderAt
    <2>3. input = <<>> /\ fine /\ inside = 0
      BY ONLY <1>0, <2>2 DEF ReaderInv, ReaderAt
    <2>4. Passed = Len(raw)
      BY <1>1, <2>2, <2>3
    <2>5. delivered = DataTo(raw, Len(raw))
      <3>1. delivered + inside = DataTo(raw, Len(raw)) /\ delivered \in Nat
        BY ONLY <1>0, <2>2, <2>4 DEF ReaderInv, InputAt, ReaderTypeOK
      <3> QED BY ONLY <2>3, <3>1
    <2>6. DataTo(raw, Len(raw)) = DataOf(raw)
      BY ONLY DEF DataTo, DataOf
    <2> QED BY ONLY <2>3, <2>5, <2>6
  <1>7. WriteStream!CompleteWhenGone
    <2>1. SUFFICES ASSUME pc = "gone"
                   PROVE  /\ out # <<>> /\ WriteStream!WellFormed(out) /\ out[Len(out)] = "end"
                          /\ buf = <<>> /\ WriteStream!DataOf(out) = written
      BY DEF WriteStream!CompleteWhenGone
    <2>2. WriterInv
      BY <2>1 DEF CompressInv
    <2> QED BY ONLY <2>1, <2>2, GoneFacts
  <1>8. pc = "gone" /\ result = 0 => delivered = written
    <2>1. SUFFICES ASSUME pc = "gone", result = 0 PROVE delivered = written
      OBVIOUS
    <2>2. Apart
      BY DEF CompressInv
    <2>3. raw # <<>>
      <3>1. raw = <<>> => ReaderInit
        BY ONLY <2>1, <2>2 DEF Apart
      <3>2. ~ReaderInit
        BY ONLY <2>1 DEF ReaderInit, Pending
      <3> QED BY ONLY <3>1, <3>2
    <2>4. DataOf(raw) = written
      BY ONLY <2>1, <2>2, <2>3 DEF Apart
    <2> QED BY ONLY <1>6, <2>1, <2>4 DEF ZeroMeansEnd
  <1> QED BY ONLY <1>2, <1>4, <1>5, <1>6, <1>7, <1>8 DEF CompressSafety, RoundTrip

\* For every file, in order or not, every size of the input buffer and of the
\* Reads, and every sequence of calls of a WriteCompressed: no byte is lost or
\* repeated where one reader of ReadCompressed replaces another, raw_amount_
\* counts every byte read once, a file in order is never refused, and what the
\* writer has in the file and in its buffer is the beginning of a well-formed file
\* with all the bytes the compressor has put out.
THEOREM CompressSafe == CompressSpec => []CompressSafety
  <1>1. CompressInv => CompressSafety
    BY CompressImplies
  <1> QED BY <1>1, CompressInvariant, PTL

\* What was written through a WriteCompressed, in any number of calls and
\* members, is read back completely before a Read of ReadCompressed returns
\* nothing; the file left behind consists of complete members, at least one; and
\* of a file from elsewhere a Read returns nothing only at the end, and only if
\* the file is in order.
THEOREM RoundTripHolds == CompressSpec => []RoundTrip
  <1>1. CompressInv => RoundTrip
    BY CompressImplies
  <1> QED BY <1>1, CompressInvariant, PTL

=============================================================================
