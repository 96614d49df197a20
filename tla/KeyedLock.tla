------------------------------ MODULE KeyedLock ------------------------------
(***************************************************************************)
(* What a keyed lock promises its users: for every key at most one holder, *)
(* handed to a process that asked for that very key.  It says nothing of   *)
(* mutex objects, reference counts or map entries; the detailed            *)
(* specification MultiTimeoutLock is shown to implement it.                *)
(***************************************************************************)
EXTENDS FiniteSets

CONSTANTS Proc, Key, None

VARIABLES holder,   \* holder[k]: the process inside the section of k, or None
          waiting   \* waiting[k]: the processes that asked for k

vars == <<holder, waiting>>

Init ==
    /\ holder = [k \in Key |-> None]
    /\ waiting = [k \in Key |-> {}]

\* A process queues for a key; it is queued nowhere and holds nothing.
Ask(p, k) ==
    /\ \A j \in Key : p \notin waiting[j] /\ holder[j] # p
    /\ waiting' = [waiting EXCEPT ![k] = @ \cup {p}]
    /\ UNCHANGED holder

\* The free key is handed to one process of its queue.
Take(p, k) ==
    /\ p \in waiting[k]
    /\ holder[k] = None
    /\ holder' = [holder EXCEPT ![k] = p]
    /\ waiting' = [waiting EXCEPT ![k] = @ \ {p}]

\* The holder, and only the holder, gives the key back.
Drop(p, k) ==
    /\ holder[k] = p
    /\ holder' = [holder EXCEPT ![k] = None]
    /\ UNCHANGED waiting

Next == \E p \in Proc, k \in Key : Ask(p, k) \/ Take(p, k) \/ Drop(p, k)

Spec == Init /\ [][Next]_vars
=============================================================================
