# A TLA+ verification of preprocess

`preprocess` is a collection of command-line tools for corpora: wrappers that
run a program as a captive child (`cache`, `foldfilter`, `b64filter`,
`warc_parallel`), filters over lines (`dedupe`, `truecase`, `docenc`, ...) and a
library (`util/`) of queues, streams, a hash table, file and compression code.
This directory models its core: the threads, queues and pipes in full, the
hash table, the file and compression layers as state machines, and the pure
algorithms as operators with reference definitions. TLC checks every module on a
small instance; TLAPS proves the safety of the two queues, the threaded stream, the
pool of `warc_parallel`, `cache`, `foldfilter`, `b64filter`, `FilePiece`, compressed files and the hash table for every
value of their constants: of every component that is a state machine.

`PROJECT.json` maps every definition to the source lines it models, and lists
components, runs, mutants, hazards, findings and theorems.

To check a run: `tlc -config X.cfg M` (modules and configurations below). To
check the proofs: `tlapm M_proofs.tla` for M = `CaptiveChild`, `Cache`, `FoldFilter`, `B64Filter`,
`WarcParallel`, `Streams`, `FilePiece` and `ProbingHashTable`.

## 1. The system: components, state, interactions

```
stdin -> feeder thread -> FileStream -> pipe -> child -> pipe -> FilePiece -> reader thread -> stdout
              |                                                                    ^
              +------------------- UnboundedSingleQueue ---------------------------+
```

This picture is `cache`, `foldfilter` and `b64filter`. `warc_parallel` has it once
per worker, with one `PCQueue` from all readers of WARC files to all workers and
one mutex around the output.

| Component | State it keeps | Operations | Hard behaviour | What makes it correct |
|---|---|---|---|---|
| `PCQueue` (util/pcqueue.hh) | ring, two positions, two mutexes, two semaphores | Produce, ProduceSwap, Consume, ConsumeSwap | producers and consumers hold different mutexes; the element's assignment may throw | no slot is used by two threads, a post for every wait, FIFO |
| `UnboundedSingleQueue` (util/pcqueue.hh) | chain of pages, one semaphore | Produce, Consume, Empty | pages freed without a lock; Empty reads unsynchronised pointers | no use after free, no leak, FIFO, Empty is never wrong where it is used |
| `ThreadedBufferedStream` (util/threaded_buffered_stream.hh) | ring of blocks, two semaphores, two leases | write, formatted write, flush, destructor | owner and writer thread share blocks; poison is an empty block | no block used by both, bytes in order, all written before the thread stops |
| captive child (preprocess/captive_child.cc, util/buffered_stream.hh) | two pipes, buffers, the child's state | Launch, writes, reads, Wait | three parties with bounded buffers; the child may fail | no circular wait, failures are noticed |
| `cache` | hash table of answers, queue of pointers to them, flush counter | Input, Output, main | Output fills entries that Input passes on | each line gets the answer to its key |
| `foldfilter` | queue of delimiter lists | feeder, reader, main; `wrap_lines` | Empty/peek races with the feeder; poison is an empty list | sentences keep their own lines; verdict on the child is right |
| `b64filter` | queue of line counts | feeder, reader, main | a document of no lines is poison | documents keep their own lines |
| `warc_parallel` | queue of records, pool of children | readers, input and output threads, reaper, main | inherited descriptors, poison per worker, failing children | every record once and whole; it shuts down; failures end it |
| `ProbingHashTable`, `AutoProbing` | buckets, count, threshold | Insert, FindOrInsert, Find, Clear, Double | wrap-around while doubling; searches end at a free bucket only | lookups end and are exact |
| `FilePiece` | window on a file | ReadLine, ReadDelimited, ReadWordSameLine, numbers, get | mapping or read, windows that end anywhere | result independent of the windows |
| `ReadCompressed`, `WriteCompressed` | decoder or encoder, buffers, pending header | Read; write, flush, destructor | concatenated and empty members, cut-off files, `dirty_` | nothing lost; zero means end; round trip |
| file operations (util/file.cc) | file position | ReadOrThrow, ReadOrEOF, WriteOrThrow, ErsatzPRead, ErsatzPWrite | EINTR, short transfers | every byte once |
| `WARCReader`, `base64`, `docenc`, `fields`, `dedupe`, `integer_to_string`, `truecase` | small buffers, tables | pure algorithms | boundaries of buffers, of integers and of lists | agree with a reference definition |
| numbers (util/float_to_string.cc, `ParseNumber` of util/file_piece.cc, util/double-conversion) | digits, words and big integers under way | ToString, ReadFloat, ReadDouble | fast algorithms that must know when they are not sure; carries and borrows; rounding twice | shortest digits that read back; nearest number |
| memory (util/pool.cc, util/mmap.cc) | chunks; one piece of memory and where it comes from | Allocate, Continue, FreeAll; HugeMalloc, HugeRealloc | pieces that move, sizes that are rounded, requests that fail | contents stay, nothing leaks |
| `shard`, `commoncrawl_dedupe`, `subtract_lines`, `substitute`, `simple_cleaning` | a set or map of hashes, counters | one line at a time | empty inputs, unsigned differences, divisions | every line is judged as described |
| `train_case`, `apply_case` | counts of casings | train, dump, read, apply | ties, beginnings of sentences, files that disagree | the casing seen most often |

### Not modelled

* The converter's other modes: fixed, exponential and precision output, output of a
  given base, hexadecimal and octal input (`fixed-dtoa.cc` and parts of `double-conversion.cc`):
  `util` sets the converters up so that they are never reached.
* `gigaword_unwrap`, `process_unicode`, `vocab`, `idf`, `mmhsum`, `order_independent_hash`,
  `remove_long_lines`, `remove_invalid_utf8`, `cat_compressed`: one line in, at most one out, no
  state beyond a counter or a sum.
* ICU, hash arithmetic, progress, exceptions and RAII wrappers: third party, or wrappers of single calls.
* UTF-8 decoding, string tokens and `MutableVocab`: what the modelled tools use of them is in
  their modules (`WrapLines`, `DocEnc`, `Truecase`), not the classes themselves.
* The classes of `util` that no tool uses (`Rolling`, `ObjectPool`), Moses scripts and data.

`PROJECT.json` lists all of them under `components`.

## 2. Modules

| Module | Models | How |
|---|---|---|
| `BoundedFifo` | what the two queues promise | a FIFO with a capacity: Put, Get |
| `KeySet` | what the hash table promises | a set of keys: Add, Recognise, Refuse, Clear |
| `PCQueue` | `util/pcqueue.hh`, class PCQueue | one action per atomic step of each call: semaphore wait, mutex, begin and end of each assignment (where it may throw), advance, post. `ProduceSwap` and `ConsumeSwap` do `std::swap`'s three moves |
| `UnboundedSingleQueue` | the same file, UnboundedSingleQueue | steps of Produce (link page, bump, store, post), of Consume (wait, turn the page and delete, move out) and the test Empty |
| `ThreadedBufferedStream` | `util/threaded_buffered_stream.hh` | owner (write, Ensure, spill, poison, join) and writer thread |
| `CaptiveChild` | `captive_child.cc`, `buffered_stream.hh`, pipes | a line is a sequence of parts and an end, pipes and buffers hold a few of these tokens; writes block and go on in pieces. The child is external: it answers late, drops, adds, exits, is killed |
| `Cache`, `FoldFilter`, `B64Filter` | the three mains | `EXTENDS CaptiveChild`; feeder, reader, main, exit status. The queue is the FIFO that `UnboundedSingleQueue` implements; a Produce takes effect for `Empty` when it bumps the pointer, and a Consume that finds it not posted yet just waits, so a FIFO operation is one step |
| `WarcParallel` | `warc_parallel_main.cc` | main, readers, per worker an input thread, a child, an output thread; the reaper. Readers and output threads end the process at what is not WARC. Child *w* inherits the writing ends of all children before it |
| `ProbingHashTable` | `util/probing_hash_table.hh` | one action per operation, doubling included; the hash function is arbitrary |
| `FilePiece` | `util/file_piece.{hh,cc}` | one step per Shift(), since what a read returns is only known then |
| `ReadCompressed`, `WriteCompressed`, composed in `Compress` | `util/compress.{hh,cc}` | readers replace each other as in the code (header, plain, decoder, complete); codecs are external: a call takes any part of its input, keeps any part of that inside, and puts out any part of what it has. `Compress` reads back what the writer left |
| `WrapLines`, `Fields`, `IntegerToString`, `WarcReader`, `DocEnc`, `Truecase` (with `train_case` and `apply_case`), `FileOps` | pure algorithms | recursive operators and folds that follow the code's loops |
| `Bignum` | double-conversion/bignum | bigits and an exponent, as in the code; the widths of bigit and word are constants |
| `Ieee` | ieee.h, diy-fp, cached-powers | a format is a record of two sizes, `Double` and `Single`; the cached powers are computed from exact powers of ten and rounded to the width of a DiyFp |
| `Dtoa` | fast-dtoa, bignum-dtoa | Grisu3 and its counted version, which may give up, and the exact algorithm |
| `Strtod` | strtod | trimming, the three ways to guess (by floating-point arithmetic, by DiyFp with an error, by comparison of big integers), double and float |
| `DoubleConversion` | double-conversion.cc, `ParseNumber` | layout of a number as text, and the scanner as `FilePiece` configures it; recursion over characters |
| `Memory` | pool, mmap.cc | `Pool` is a sequence of chunks; the operating system is external: a set of mapped pages and of blocks, and which requests it grants |
| `LineFilters` | the filters | folds over lines and characters |
| `NumberTools`, `MemoryTools`, `FilterTools` | harness of these | inputs, reference definitions and properties |
| `ToolRun` | | the variables that a harness shares: tool, input, result |
| `TextTools` | harness of all | chooses a tool and an input, runs it in one step; holds reference definitions and properties |
| `ToolPromises`, `FilePiecePromises` | what texts of the repository say and the code does not do | a history variable `kept` holds the promises that no tool or file has broken yet: the tool of the first one is run on any of its inputs, and a promise that the result breaks is dropped |
| `MCLibrary` | `ThreadedBufferedStream`, `UnboundedSingleQueue`, `Compress`, `ProbingHashTable` side by side | they share no state; one of them runs in each behaviour, with its own fairness, while the others stay as they began |
| `MCWarcPool` | `PCQueue` and `WarcParallel`, which uses it as a FIFO | likewise |
| `Cache_proofs`, `FoldFilter_proofs`, `B64Filter_proofs`, `WarcParallel_proofs`, `Streams_proofs`, `FilePiece_proofs`, `ProbingHashTable_proofs` | | the theorems of section 4. A queue's theorems stand with the tool that uses it: those of PCQueue in `WarcParallel_proofs`, those of UnboundedSingleQueue in `Cache_proofs`. `Streams_proofs` has ThreadedBufferedStream and Compress, which `shard` puts on top of each other |
| `CaptiveChild_proofs` | | lemmas on runs of tokens that the proofs of the three wrappers share |

Definitions that begin with "Slip:" in their comment are mutated versions of the
definition that follows; `PROJECT.json` says which property notices each.

Undefined behaviour is a choice over what the build can produce. `back()` of an empty string in
`b64filter` (b64filter_main.cc:45) reads the byte in front of the string's data; `BackOfEmpty` is the set of what
`doc.back() == '\n'` may give there. With libstdc++ that byte is the highest one of a length, of the string's own
or of the block of the heap, and no string is long enough to make it a newline, so the configuration and the theorem say
`BackOfEmpty = {FALSE}`. With another library and TRUE in the set `Safety` does not hold: the document has
no lines, and its description is the poison. A read through the dangling reference in
`truecase` gives a content that no entry has, so that it would show in the output.

## 3. Runs

| Run | Module | Checks | Shows |
|---|---|---|---|
| `library` | MCLibrary | Safety, StreamDestroyed; NoUseAfterFree, EmptyIsSafe, ImplementsFifo, QueueDrained; CompressSafety, RoundTrip, CallsEnd; TableSafety, ImplementsKeySet | **Threaded stream:** blocks are not shared, the sink gets the bytes in order, all of them before the thread ends; the two sides never wait for each other; the destructor returns. A Writer that throws ends the process. **Queue of pages:** pages are handed over safely; if the consumer sees Empty, everything that was stored has been consumed. **Compressed files:** nothing lost across headers and members; a file in order is never refused; nothing returned only at the end; written data read back; calls end (all but one case, section 6). **Hash table:** for every hash function and every sequence of operations, searches end and are exact, entries are where `CheckConsistency` wants them, and the answers are those of a set |
| `warc_pool` | MCWarcPool | NoSlotRace, ContentsIntact, ImplementsFifo, QueueDrained; Safety, PoolEnds, FailureIsFatal | **PCQueue:** the two semaphores alone keep producers and consumers apart, also after an exception; the queue is a bounded FIFO; everything produced is consumed. **Pool:** records whole and once; poison after all records; none lost while nothing fails; shuts down although ends of pipes are inherited; a failing child, and input or an answer that is not WARC, end the process |
| `cache` | Cache | Safety, Terminates | answers belong to their keys, waiting lines are flushed in time, a zero status means that every line was answered, in part at most the last one and only by a child that stopped; no circular wait while a line fits in the buffers |
| `foldfilter` | FoldFilter | Safety, Terminates | sentences from their own lines; a zero status means that every sentence was printed, and that at most the last line was answered in part, by a child that stopped; a child that does nothing wrong is never accused; ends even with lines larger than all buffers |
| `b64filter` | B64Filter | Safety, Terminates | the same for documents, with and without lines and final newline |
| `file_piece` | FilePiece | Safety, ReadsExact, OperationsEnd | every operation returns what a scan of the whole file would, wherever windows end; two questions are left to `file_piece_promises` (section 5) |
| `text_tools` | TextTools | WrapExact, KeysExact, KeptOnce, NumbersExact, RecordsExact, DocumentsExact, CasingExact, TransfersExact, BignumExact, ShortestExact, NearestExact, MemoryExact, FiltersExact | each algorithm agrees with its reference on every small input, but where a promise of `tool_promises` is broken (section 5) |
| `cache_long_line` | Cache | Terminates (violated) | a line larger than all buffers and a child that answers while it reads wait for ever |
| `pcqueue_swap_throws` | PCQueue | ContentsIntact (violated) | an exception of the second assignment of a swap leaves a moved-from element in the queue |
| `foldfilter_killed` | FoldFilter | StatusOfChild (violated) | a child that was killed looks like a success |
| `tool_promises` | ToolPromises | SomePromiseKept (violated) | thirteen promises about the text tools, each broken for some input |
| `file_piece_promises` | FilePiecePromises | SomePromiseKept (violated) | three promises about FilePiece, each broken for some file |

`Safety` is in each module the conjunction of its type invariant with the invariants that
say who may touch what, what the output is a prefix of, and what an exit status may be taken to mean.

`CHECK_DEADLOCK FALSE` stands where the program really stops: processes end,
consumers wait on an empty queue, a tool returns.

### Bounds, and why they are enough

* `warc_pool`, the queue: 2 producers, 2 consumers, ring of 2, 3 produce calls, 1 exception.
  The ring wraps, two threads of each side meet, and the exception meets any
  state. The second assignment of a swap is left out of `ThrowingStages` here and is the run
  `pcqueue_swap_throws`; `TypeCorrect` and `NoSlotRaceHolds` do not leave it out. The pool: 2 workers (the first pool with
  an inherited descriptor), 1 reader (several are the same disjunct; records are numbered over all), 2 records, and every kind
  of failure.
* `library`, the queue: pages of 2 entries, 7 items: several pages are linked and freed.
  The stream: 3 blocks (as in the code) of 2 bytes, 9 bytes, writes of up
  to 5: the ring wraps, and one write covers several blocks. Compressed files: up to 3 members of up to 2 bytes
  in 3 formats, 4 writes, buffers of 3. The hash table: 4 keys, tables of 1 to 8 buckets, and all assignments of four hashes
  that agree in their low bits, agree in all bits, or sit at the end of a table and wrap.
* `cache`: 3 keys, 4 lines, flush rate 2: repeated keys before and after their
  answer, flushes that come due and flushes that do not. The child answers a line
  when it has it all and holds up to 2 tokens. Its faults are exit and kill, which may come in the middle of an answer.
* `foldfilter`: 2 sentences of up to 2 folds of up to 3 parts, pipes and child of
  1 token: a single line already exceeds all buffers together. `b64filter`: 2
  documents of up to 2 lines and a rest. The child may drop, add, exit, be killed.
* `file_piece`: all files of up to 5 bytes over digit, CR and newline, pages of one byte,
  so that every token ends before, at and behind the end of a window.
* `tool_promises`, `file_piece_promises`: the same inputs as the passing runs, shorter.
* `text_tools`: all inputs up to the lengths in the configuration; integers
  around every power of ten and every branch, per part of eight digits.
  * Numbers have two formats with significands of 8 and 5 bits (53 and 24 in the code) and exponents of 5 and 4
    bits (11 and 8), bigits of 8 bits in words of 10 (28 in 32), and cached powers two decimal exponents apart (8).
    The constants that follow from these widths in the code, such as the digits that fit in a word, the exact
    powers and the digits that matter, have in the configuration the values that follow from the small ones. At
    these sizes the fast algorithms give up for some numbers and not for others, both formats have denormal
    numbers, and products take several bigits. Every float and every 7th double (`PrintStep`) is written, with all those
    at the ends of a power of two; what is read is the boundary above every float and every 17th double (`ParseStep`),
    texts just below and above it with more digits than are looked at, and its first digits.
  * A page has 2 bytes, a huge one 4 and the largest 8, sizes go up to 17: each source of memory and each
    transition between them happens, with mappings that begin before and at a multiple of a huge page. Five calls to a
    pool whose first chunk has 2 bytes reach the third chunk, also by Continue.
  * Filters see up to 3 lines out of 9 kinds, texts of up to 4 characters out of 9 kinds, two training sentences.

A bound always appears in a guard or in the set of inputs and is named in CONSTANTS
with the comment "bound".

### Fairness

* Every thread of the program runs: weak fairness of its next step. Nothing is
  assumed about which of several threads waiting on one semaphore or mutex gets
  it, as neither POSIX nor Boost says anything.
* The child is outside the program. What a line-based program does is assumed and no
  more: it reads when it can hold more, writes when it holds all it can or when the
  input has ended, and exits at the end of its input. That it answers early, or fails, is
  possible and never assumed.
* In `MCLibrary` and `MCWarcPool` each of these holds for the part that runs.
* In `ThreadedBufferedStream` strong fairness of `Close` says that the scope that holds
  the stream ends; a weak one would not do because Close is disabled inside every call.
* `FilePiece` and `Compress` are sequential: weak fairness of Next says that a call goes on.
  A single call that shifts for ever would still violate `OperationsEnd` and `CallsEnd`.

## 4. What is proved

Eighteen theorems, for every value of the constants that the named assumptions in the modules
allow: every size of rings, blocks, pages, buffers and pipes, every number of threads, workers, lines
and records, every fault. Where a theorem asks for more it says so in an ASSUME of its own:

| Theorem | asks for | because |
|---|---|---|
| `ContentsIntactHolds`, `QueueImplementsFifo` | no exception in the second assignment of a swap | that one destroys the item (section 6) |
| `CacheSafety` | a child that answers each line with one line until it exits or is killed | README.md:55 asks it of the program; nothing in `cache` could notice otherwise |
| `B64Safety` | `BackOfEmpty = {FALSE}` | section 2; with TRUE in it a document without text stops the reader |
| `FilePieceReadsExact`, second part | no mapping that fails inside the search for the end of a line | the search would begin behind the window (section 6) |

None of the safety properties is inductive; each theorem follows from an inductive invariant, a conjunction
of named parts, which TLC checked on the run's instance before it was proved. The proof that a step preserves
it has one lemma or step per action, and below it one per part that the action disturbs.

* **`TypeCorrect`, `NoSlotRaceHolds`** (PCQueue, in `WarcParallel_proofs`). `NoSlotRace` is not inductive: that
  two threads are not in one slot follows only from counting. The inductive invariant is

  `RaceInv == QueueTypeOK /\ MutexHeld /\ SlotsAccounted /\ RingDistance`

  `MutexHeld`: a thread between lock and unlock holds its side's mutex, so at most one
  producer and one consumer touch the ring. `SlotsAccounted`: both semaphores, the threads
  between their wait and their post, and the items held add up to Size. `RingDistance`:
  produce_at_ and consume_at_ are apart by the number of items, modulo Size. If a producer and
  a consumer had the same slot, the ring would be both empty and full by RingDistance, and
  SlotsAccounted refuses each one its semaphore. Cardinalities of thread sets change by one in
  each step; these facts are lemmas over `FiniteSetTheorems`.
* **`ContentsIntactHolds`, `QueueImplementsFifo`** (PCQueue) from

  `FifoInv == RaceInv /\ ProducersCarry /\ ConsumersCarry /\ OnlySwapsSwap /\ ContentsIntact`

  what a producer carries is what will stand in the slot, and what a consumer carries is the
  head. Each step maps to Put, Get or a stutter of `BoundedFifo`, with the history variables
  as the mapping's queue.
* **`HandOverSafe`, `EmptyIsSafeHolds`, `UnboundedImplementsFifo`** (UnboundedSingleQueue, in `Cache_proofs`) from

  `PageInv == QueueTypeOK /\ Counting /\ ProducerAt /\ Chained /\ PagesReleased /\ Stored`

  `Counting` relates the semaphore to the numbers of items stored and taken; `ProducerAt` says what the
  producer knows in the middle of a call; `Chained` that the pages lead
  from reading_ to filling_; `PagesReleased` that exactly the pages behind the consumer are freed; `Stored` that
  entries between the two ends hold the items. A consumer that turns the page holds a post made
  after the page was linked.

* **`StreamSafety`** (ThreadedBufferedStream, in `Streams_proofs`) from

  `StreamInv == TypeOK /\ EndTogether /\ SinkIsPrefix /\ (not terminated => Running)`

  where `Running` is `Accounting`, `OwnerAt`, `OwnerBlock`, `PendingBlocks` and `ThreadAt`. `Accounting` is the counting
  argument of PCQueue with leases in place of mutexes: every block is free, published or the owner's, and the leases are as far
  apart as there are published blocks. `PendingBlocks` says that the published blocks, read in ring
  order, hold the bytes between the sink and the owner's block, and that an empty one among them is the poison and the last.
  `NeverStuck`, a part of Safety, is deadlock freedom as an invariant: if both waited, Accounting would leave the two of them a
  single block. It speaks of rings with two blocks or more; with one, owner and thread do wait for each other.
* **`PoolSafety`** (WarcParallel) from

  `PoolInv == TypeOK /\ RecordsWhole /\ ExitMeansComplete /\ Phases /\ PoisonTail /\ WorkerAt /\ OutAt /\ Placed`

  `Phases` says what main knows in each of its phases, `PoisonTail` that in the queue only poison follows poison, and
  that nothing but poison is left once a poison was taken out. `WorkerAt` and `OutAt` tie each thread to its child and to the
  mutex. `Placed` is the part that carries the result: each record that was read is
  in exactly one place (a reader's hand, the queue, an input thread, a pipe, a child, an output thread, the output), or is lost, and then
  a child has failed. This is `NothingLost`, and when main has joined everything, all places but the output are empty, which
  is `ExitMeansComplete`.
* **`CacheSafety`** (Cache) from `CacheInv == TypeOK /\ InStep /\ QueueAt /\ FlushAt` and `CutAt`. `InStep` says that for some number of
  lines answered the entries of the table up to it are filled with their answers (`Table`), and the tokens on the way, from
  the pipe the child writes to back to the FileStream, are the rest of the lines sent, in order and without a gap
  (`Way`). `QueueAt` says that each queue entry is the table entry of its line, `FlushAt` that the lines in the
  stream's buffer were all counted since the last flush. `CutAt`, which the other two wrappers have as well, says why a last line
  read without its end is no accident: as long as the child has neither stopped nor left anything out, what is on its way between
  the threads ends with a whole line unless the feeder is amid one.
* **`FoldSafety`** (FoldFilter), whatever the child does, from
  `FoldInv == TypeOK /\ SentencesAt /\ QueueAt /\ InStep /\ Innocent`. `SentencesAt` and `QueueAt` say which lines belong to which
  sentence and to which list of delimiters in the queue. `InStep` says, unless the child has added an answer, that what the reader
  has put together is right as long as it has seen no later line than those it has read, and that the tokens on the way follow in
  order. `Innocent` says why a child that has done nothing wrong is not accused: the end of the last line sent
  waits in the FileStream until the next list, or the empty one, is in the queue, so that Empty is false when the reader
  asks.

* **`B64Safety`** (B64Filter), if `back()` of an empty string is not a newline and whatever the child does, from
  `B64Inv == TypeOK /\ DocumentsAt /\ QueueAt /\ EndsAt /\ TokensAt /\ Counted /\ InStep /\ Innocent`. As for `foldfilter`, with
  numbers of lines in place of lists of delimiters: `DocumentsAt` and `QueueAt` say which lines belong to which document and which entry
  of the queue, or the reader, has their number; `InStep` is as above, with `TokensAt` for tokens of no line that was not sent. The
  reader decides by whether there is a line, so `Innocent` needs a count: a child that leaves nothing out returns at least as many lines
  as it was sent, and one more if it added one (`Counted`), and `EndsAt` says that such a child ends after the feeder and before
  the reader's last look.

  The three rest on the same argument: a token that moves from one buffer to the next keeps the whole way a run of lines in
  order. `cache` needs runs without a gap only (`Gapless`), the other two also runs from which the child has left out
  lines (`Run`). The lemmas on both are in `CaptiveChild_proofs`.
* **`CompressSafe`, `RoundTripHolds`** (Compress, in `Streams_proofs`), for every file that `FilesInit` allows, all sizes of
  buffers and amounts of every call, from `CompressInv == ReaderInv /\ (pc # "none" => WriterInv) /\ Apart`. `ReaderInv`: the
  file is plain, or begins with a member and ends with the end of one exactly if it is in order, and then a member begins behind every end
  of another (`FileAt`); the input buffer is the part of the file that was read and has not passed, and the bytes delivered and those that the decoder
  still holds are together the data tokens that have (`InputAt`); the reader in place is one for what is left (`ReaderAt`). `WriterInv`: what has been put
  out is well-formed, its last token is an end exactly between two members (`TokensAt`), and the bytes put out, held by the codec and still to
  come add up to the bytes written (`NothingLost`). `Apart` says that reading begins when the writer is gone, and that the file
  then has as many data tokens as bytes were written. The files are concatenations of members, and what the writer
  leaves is a concatenation of tokens; that a concatenation is in order and has the tokens of its parts is shown by induction over
  the pieces (`FlattenInduction`).
* **`FilePieceSafety`, `FilePieceReadsExact`** (FilePiece) from
  `PieceInv == TypeOK /\ WindowShowsFile /\ WindowAt /\ OperationAt /\ ReadsExact`. It speaks of positions in the file, which a
  Shift does not change: `ShiftFacts` shows by arithmetic on whole pages that mapping, enlarging, reading and moving the
  buffer down keep `Base + pos` and, unless a mapping fails, show no fewer bytes behind it. `WindowAt` says that at_end_ is
  true only if the window reaches the end of the file and that last_space_, if it is ahead, is at a space; `OperationAt` that
  what an operation has passed over contains nothing it looks for. So a search in the window finds what a search of the
  file would (`SearchFacts`). The second theorem adds that the search for the end of a line never begins behind the end of the
  window (`SearchInWindow`), if no mapping fails inside one; without that condition the run `file_piece_promises` shows the behaviour.
* **`HashTableSafety`, `HashTableImplementsSet`** (ProbingHashTable), for any keys, any hash function and any number of
  buckets, from `TableInv == TableTypeOK /\ InOrder(hash, table, buckets, inserted) /\ CountAt`. `InOrder` says that each key inserted is in
  exactly one bucket, and that no bucket is free between its ideal bucket and its own, round the end of the table if need
  be; `CountAt` that entries are counted up to the number of buckets, of which one stays free (`FreeBucket`, a pigeonhole argument). So
  a search stops at the key or at the free bucket behind it (`FindIsExact`), and every operation maps to one of `KeySet`, with the
  keys in the buckets as its members: what `dedupe` relies on when it prints a line. The hard operation is Double, which
  moves entries within the array it reads: `MovedAt` and `Settled` say of the buckets already visited that their entries are
  in order in the doubled table, that an entry moves to its old place or before it in its half and never wraps, and of the
  others that they still stand where they stood. `MoveStep` keeps this from one bucket to the next, `DoubleFacts`
  that the entries set aside are inserted again. That these folds have a value and that the step carries to the end is an induction
  over sets of numbers (`RecursionTo`, `InductionTo`), which needs only that such a set has a least member.

**Only model-checked.** Liveness (`QueueDrained`, `StreamDestroyed`, `PoolEnds`, `Terminates`, `FailureIsFatal`, `OperationsEnd`,
`CallsEnd`: fairness and ENABLED are beyond the prover); what is computed by recursion over data other than in
the hash table and the members of compressed files, that is `TextTools` and what it uses (the library's induction theorems cannot be instantiated, and modules with
RECURSIVE operators cannot be proved about), the conversion of numbers, memory and the filters among them.

## 5. Reading the properties

Each property is preceded by a comment in its module. A few say more than their name:

* `EmptyIsSafe`: if Empty says so, everything stored has been consumed; while a Produce is
  under way Empty may already say "not empty". `VerdictRight`, a part of FoldFilter's `Safety`, shows that this is enough for
  the sequence Empty, peek, Empty in its reader.
* `ZeroMeansComplete`, a part of `Safety` in Cache, FoldFilter and B64Filter: with a status of zero every line was
  answered and everything printed, but the last line that was sent may have been answered in part. `cut` is the set of lines whose answer was
  read up to the end of the pipe and had no end of line; the reader takes such a piece for a line, as `FilePiece::ReadLine` does.
  `CutIsLast` adds that this needs a child that stopped (exited early, was killed or left something out). In FoldFilter and
  B64Filter a child that added an answer is excepted: it can make up for a missing one, since only the number is compared.
* `CallsEnd` excepts a bzip2 file that is cut off, where the call does not end, see below.
* The properties of `text_tools` and `ReadsExact` say nothing where the code breaks one of the promises below, which are checked by
  runs of their own, and everything about the rest:

| Promise (`tool_promises`) | and what the passing property leaves to it |
|---|---|
| `WidthKept`: a line has at most column_width bytes | `WrapExact`: the choice of the delimiter on lines with a character across the end of the width (that nothing is lost and no character broken up is required there too) |
| `KeysLikeCut`: no delimiter belongs to a column | `KeysExact`: the texts from lines that end in a delimiter |
| `ZeroRefused`: column 0 is refused | `KeysExact`: lists with column 0 |
| `AllChosen`: all documents with an index that is given come out | `DocumentsExact`: indices given twice |
| `ForeignRefused`: a byte that is not part of base64 is refused | `DocumentsExact`: codes with such bytes |
| `LinesEnd`: a word that is not UTF-8 is skipped | `CasingExact`: lines that do not end |
| `NothingBehindEnd`: apply_case does not step past the end | `CasingExact`: empty lines |
| `TextFits`: a text fits in its buffer | `ShortestExact`: the length of the text |
| `NothingBehindMemory`, `NewIsZero`: what is made smaller or grows again | `MemoryExact`: steps after memory was made smaller |
| `RunsLongerOnly`: only runs longer than character_run remove a line | `FiltersExact` has the limit as README.md:105 gives it |
| `SpacesExcluded`: spaces do not count as common characters | `FiltersExact`: lines with a space of another script |
| `EveryLineHasFile`: no line is divided by zero files | `FiltersExact`: a prefix with zero files |

| Promise (`file_piece_promises`) | and what the passing property leaves to it |
|---|---|
| `LinesWithoutCr`: a return at the end is left out of a line | `ReadsExact`: a return that ends the file |
| `GetsUntilEnd`: get() throws at the end of the file only | `ReadsExact`: a get() where the last part has just been mapped; it may throw there once, without moving |
| `SearchInWindow`: a search goes on inside the window | mappings that fail inside a search |

## 6. Findings and further observations

**cache_main.cc:65 (run `cache_long_line`).** Input writes a new line to the child
and only then produces the queue entry, so Output does not read while the write is under way. A
line larger than FileStream, pipes and child together, and a child that answers while it reads, wait
for ever: child for Output, Output for the queue, Input for the child. README.md:55 asks of the
program only that it "should always write exactly one line for each line it reads."
`foldfilter` and `b64filter` produce first and end with the same child (run `foldfilter`).

**pcqueue.hh:193 (run `pcqueue_swap_throws`).** "Strong exception guarantee if operator= throws." (pcqueue.hh:126) holds for
Produce, Consume and the first assignment of a swap. If the second
assignment of a swap throws, the slot holds a moved-from object and stays in the queue.

**captive_child.cc:80 (run `foldfilter_killed`).** Wait returns 256 for a child that was killed; as an exit status that is 0.
README.md:184 says "The program's exit code is that of the wrapped command". Nothing tells the user that the child was
killed, and if that happened in the middle of its last answer, that answer is printed cut off: `ZeroMeansComplete` says that no other is.

**The text tools (run `tool_promises`)**, each promise broken for some input:
* foldfilter_main.cc:134: a character across the end of the width makes a line longer than "at most INT bytes" (README.md:166).
* fields.hh:68: in a line that ends in a delimiter the delimiter gets into the key, so `a<tab>` and `a<tab>b` differ in column 1, unlike with
  `cut -f` (dedupe_main.cc:30). fields.cc:27: `-f 0` is accepted and selects nothing.
* docenc_main.cc:113: an index given twice hides all later documents (README.md:202).
* base64.cc:20: a missing comma; byte 127 maps to -2 and byte 255 to 0, which are accepted (base64.cc:77).
* truecase_main.cc:113: `continue` without advancing; a word that is not UTF-8 makes the loop endless ("Skipping this word.").
* apply_case_main.cc:96: increments the end iterator of an empty target line.
* float_to_string.hh:11: the buffer has 19 bytes, "kBase10MaximalLength + 1 for null paranoia", but the constant counts digits only: with
  sign, point and exponent a double takes up to 24 characters, as -1.2345678901234567e-308 does.
* mmap.cc:236: ReplaceAndCopy copies mem.size() bytes also into smaller memory; mmap.cc:267: after shrinking and growing by mremap in the
  same page, bytes that zero_new asks to be zero are the old ones. No caller in the repository shrinks.
* simple_cleaning_main.cc:146: a run of exactly character_run characters is removed, as README.md:105 says, where the option's description says
  "more than this many times" (line 79). simple_cleaning_main.cc:161: a space of a script of its own (Ogham) makes the difference wrap around, and the
  line is removed.
* shard_main.cc:108: `--prefix p -n 0` is accepted, and the hash of the first line is divided by zero.

**FilePiece (run `file_piece_promises`).**
* file_piece.cc:94: a last line without newline keeps its CR, though file_piece.hh:129 describes stripping it.
* file_piece.hh:87: peek() and get() report the end of a mapped file early when at_end_ is set while bytes are left.
* file_piece.cc:79: if a later mmap fails inside a search for a delimiter, the search goes on with the old skip in a
  new window, possibly behind its end.

Met besides; the models take the following as the code's behaviour, and no property is stated about it unless
section 5 says so.

Queues and streams
* The move constructor of BufferedStream does not move the writer.

Captive children
* warc_parallel with `-j 0`, or hardware_concurrency() of 0 (warc_parallel_main.cc:141), has no worker, and
  readers wait on a full queue.

Hash table and truecase
* probing_hash_table.hh:281: CheckConsistency reports "Completely full" when only bucket 0 is free.
* truecase_main.cc:95: `top` refers into the table; InsertFollow may double the table and free that memory (line 94
  says "These secondary casings reference the same best casing."). `CasingExact` shows that it never reaches the output.

FilePiece
* file_piece.cc:351: Offset() is wrong after the buffer has been moved down.

Compression
* compress.cc:130: reading a cut-off bzip2 file, the decoder neither progresses nor reports an error, and the loop does not
  end (compress.hh:78: "Repeatedly call read to fill a buffer unless EOF is hit.").
* raw_amount_ is not initialised when reading from an istream.

Numbers
* bignum.cc:753: the index of the borrow loop is incremented twice. With a quotient of one digit the borrow does not reach a second
  bigit, and the result is right (`BignumExact`).
* ParseNumber takes "nan" without consuming it; of "1e" and "1e+x" the e is consumed although no digit follows.

Text
* simple_cleaning_main.cc:176: with no character outside the common script 0/0 is compared, and the line passes.
* gigaword_unwrap unescapes `&amp;apos;` twice.
* fields: `1-,0` merges to an empty range. base64_decode("=") throws because
  the number of bytes to reserve underflows (base64.cc:69).
* docenc: index zero hides all documents; documents without a final newline are not separated by a blank line
  under -d; -n prints an extra prefixed empty line.
* warc.cc: a Content-Length of -4 is taken as a record that is only a header.
* dedupe with two files: the second file's set is not asked when the first rejects the line; a shorter second
  file ends in an uncaught exception.
* wrap_lines: width 0 behaves as 1.
* process_unicode_main.cc:58 prints `*str` where `*cur` is meant.

## 7. Plan

Done, in this order: PCQueue and its proofs; UnboundedSingleQueue and its proofs; ThreadedBufferedStream; CaptiveChild
with Cache, FoldFilter, B64Filter; WarcParallel; ProbingHashTable; FilePiece; Compress; the text tools; conversion of
numbers; memory; the filters over lines; casing by alignment; the proofs of ThreadedBufferedStream, WarcParallel, Cache,
FoldFilter, FilePiece, ProbingHashTable, B64Filter and Compress; the hash table as an implementation of a set.

Next, modelling: a text file behind FilePiece that is a compressed stream of several members (FilePiece composed with
ReadCompressed).

Next, proving: the composition of FilePiece with ReadCompressed once it is modelled, by the invariants of the two; and the
filters whose algorithms are folds, once they are written without RECURSIVE operators.
