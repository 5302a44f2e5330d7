----------------------------- MODULE MCWarcPool -----------------------------
(***************************************************************************)
(* The two levels of warc_parallel: PCQueue with its semaphores and        *)
(* mutexes, which is shown to implement a bounded FIFO, and the pool of    *)
(* workers, which uses that FIFO.  One of them runs in every behaviour and *)
(* the other stays as it began.                                            *)
(***************************************************************************)
EXTENDS PCQueue, WarcParallel

VARIABLE level     \* the level that runs

poolVars == <<level, pcqueueVars, vars>>

PoolInit ==
    /\ level \in {"queue", "pool"}
    /\ QueueInit /\ Init

PoolNext ==
    /\ \/ level = "queue" /\ QueueNext /\ UNCHANGED vars
       \/ level = "pool" /\ Next /\ UNCHANGED pcqueueVars
    /\ UNCHANGED level

\* The fairness of both levels, for the one that runs.
PoolSpec ==
    /\ PoolInit /\ [][PoolNext]_poolVars
    /\ \A p \in Producers : WF_pcqueueVars(level = "queue" /\ ProducerStep(p))
    /\ \A c \in Consumers : WF_pcqueueVars(level = "queue" /\ ConsumerStep(c))
    /\ WF_vars(level = "pool" /\ outcome = "running" /\ Main)
    /\ \A r \in Readers : WF_vars(level = "pool" /\ outcome = "running" /\ Reader(r))
    /\ \A w \in Workers :
        /\ WF_vars(level = "pool" /\ outcome = "running" /\ Input(w))
        /\ WF_vars(level = "pool" /\ outcome = "running" /\ ChildReads(w))
        /\ WF_vars(level = "pool" /\ outcome = "running" /\ ChildMustWrite(w))
        /\ WF_vars(level = "pool" /\ outcome = "running" /\ ChildExits(w))
        /\ WF_vars(level = "pool" /\ outcome = "running" /\ Output(w))
        /\ WF_vars(level = "pool" /\ outcome = "running" /\ ReapChild(w))

-----------------------------------------------------------------------------
(* Liveness of the level that runs (EventuallyDrained is about pcqueue.hh, *)
(* Terminates about warc_parallel_main.cc)                                 *)

\* Every call of a queue that runs ends, as long as there is something to take.
QueueDrained == level = "queue" => EventuallyDrained

\* A pool that runs ends.
PoolEnds == level = "pool" => Terminates
=============================================================================
