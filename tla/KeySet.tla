------------------------------- MODULE KeySet -------------------------------
(***************************************************************************)
(* What the hash table of util/probing_hash_table.hh promises, without its *)
(* buckets: a set of keys.  dedupe prints the lines for which the answer   *)
(* is that the key was added, and commoncrawl_dedupe, vocab and substitute *)
(* count on the answer in the same way.                                    *)
(***************************************************************************)
CONSTANT Keys

VARIABLES
    members,   \* the keys in the set
    answer     \* what the last operation told its caller

setVars == <<members, answer>>

Init == members = {} /\ answer = "none"

\* A key that is not a member becomes one, and the caller is told so.
Add(key) ==
    /\ key \notin members
    /\ members' = members \cup {key}
    /\ answer' = "inserted"

\* Of a member the caller is told that it is one.
Recognise(key) ==
    /\ key \in members
    /\ answer' = "found"
    /\ UNCHANGED members

\* There may be no room for a key; the members stay.
Refuse(key) ==
    /\ key \notin members
    /\ answer' = "full"
    /\ UNCHANGED members

Clear ==
    /\ members' = {}
    /\ answer' = "cleared"

Next ==
    \/ \E key \in Keys : Add(key) \/ Recognise(key) \/ Refuse(key)
    \/ Clear

Spec == Init /\ [][Next]_setVars
=============================================================================
