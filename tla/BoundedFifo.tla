---------------------------- MODULE BoundedFifo ----------------------------
(***************************************************************************)
(* What every queue of util/pcqueue.hh promises, without its threads,      *)
(* semaphores and storage: an item that is accepted is delivered, in the   *)
(* order of acceptance, once, and at most Capacity items are held.         *)
(***************************************************************************)
EXTENDS Naturals, Sequences

CONSTANTS
    Items,      \* what can be put in the queue
    Capacity    \* how many items the queue can hold

VARIABLES
    accepted,   \* every item ever accepted, in order
    delivered   \* every item ever delivered, in order

fifoVars == <<accepted, delivered>>

Init ==
    /\ accepted = <<>>
    /\ delivered = <<>>

Put(item) ==
    /\ Len(accepted) - Len(delivered) < Capacity
    /\ accepted' = Append(accepted, item)
    /\ UNCHANGED delivered

Get ==
    /\ Len(delivered) < Len(accepted)
    /\ delivered' = Append(delivered, accepted[Len(delivered) + 1])
    /\ UNCHANGED accepted

Next ==
    \/ \E item \in Items : Put(item)
    \/ Get

Spec == Init /\ [][Next]_fifoVars
=============================================================================
