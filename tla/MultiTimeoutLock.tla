-------------------------- MODULE MultiTimeoutLock --------------------------
(***************************************************************************)
(* utils.MultiTimeoutLock (and utils.MultiLock, the same code without the  *)
(* `state' map): a table of mutexes created on demand, one per id, with a  *)
(* reference count that decides when the table entry is dropped.           *)
(*                                                                         *)
(* The two maps are read and written under m.lock, so what a call does     *)
(* while it holds m.lock is one step.  The call then leaves m.lock and     *)
(* blocks on the entry's own mutex: between the two, every other call may  *)
(* run.  A mutex is an object: the entry refers to it, and so does the     *)
(* local variable `lock' of each call that looked it up.  The last         *)
(* unlocker drops the entry and leaves the mutex locked for ever; such an  *)
(* object is garbage once nobody refers to it and its memory serves again. *)
(*                                                                         *)
(* LockTimeout and LockOpenTimeout differ from Lock and LockOpen in the    *)
(* limit of the watcher goroutine only, which logs and changes no state    *)
(* (and runs only under constants.LockDebug).                              *)
(***************************************************************************)
EXTENDS Integers, FiniteSets

CONSTANTS
    Proc,    \* goroutines that use the lock
    Key,     \* the ids
    Mutex,   \* memory for sync.Mutex objects
    None     \* a nil pointer, an absent entry, an unlocked mutex

ASSUME FiniteProc == IsFiniteSet(Proc)
ASSUME NoneIsNew == None \notin Proc /\ None \notin Mutex

VARIABLES
    counts,  \* counts[k]: m.counts, an absent entry reads as 0
    locks,   \* locks[k]: m.locks, None when absent
    owner,   \* owner[m]: who locked mutex m, None when it is unlocked
    state,   \* m.state: the lock ids in force (a hold is named by its process)
    pc,      \* where each goroutine stands
    key,     \* the id it is using
    lock     \* its local variable `lock'

vars == <<counts, locks, owner, state, pc, key, lock>>

PC == {"idle", "blocked", "locked", "held", "unlocked"}

\* The goroutines that have been counted for k: blocked on it or inside.
Users(k) == {p \in Proc : pc[p] \in {"blocked", "locked", "held"} /\ key[p] = k}

\* The goroutines whose call on k has got its mutex and not yet given it back.
Inside(p, k) == pc[p] \in {"locked", "held"} /\ key[p] = k

Garbage(m) ==
    /\ \A k \in Key : locks[k] # m
    /\ \A p \in Proc : lock[p] # m

Init ==
    /\ counts = [k \in Key |-> 0]
    /\ locks = [k \in Key |-> None]
    /\ owner = [m \in Mutex |-> None]
    /\ state = {}
    /\ pc = [p \in Proc |-> "idle"]
    /\ key \in [Proc -> Key]
    /\ lock = [p \in Proc |-> None]

\* &sync.Mutex{} stored under k and kept in the caller's local variable.
NewEntry(p, k) ==
    \E m \in Mutex :
        /\ Garbage(m)
        /\ locks' = [locks EXCEPT ![k] = m]
        /\ owner' = [owner EXCEPT ![m] = None]
        /\ lock' = [lock EXCEPT ![p] = m]

OldEntry(p, k) ==
    /\ lock' = [lock EXCEPT ![p] = locks[k]]
    /\ UNCHANGED <<locks, owner>>

Counted(p, k) ==
    /\ counts' = [counts EXCEPT ![k] = @ + 1]
    /\ key' = [key EXCEPT ![p] = k]
    /\ pc' = [pc EXCEPT ![p] = "blocked"]
    /\ UNCHANGED state

\* Lock up to m.lock.Unlock(): find or create the entry, count the caller.
Lock(p, k) ==
    /\ pc[p] = "idle"
    /\ IF locks[k] = None THEN NewEntry(p, k) ELSE OldEntry(p, k)
    /\ Counted(p, k)

\* Mutant of LockOpen: it does not look for an entry first.
LockOpenAnyway(p, k) ==
    /\ pc[p] = "idle"
    /\ NewEntry(p, k)
    /\ Counted(p, k)

\* LockOpen succeeds only if there is no entry; otherwise it returns
\* acquired = false and has changed nothing.
LockOpen(p, k) ==
    /\ pc[p] = "idle"
    /\ locks[k] = None
    /\ NewEntry(p, k)
    /\ Counted(p, k)

\* The two with another limit for their watcher, which only logs.
LockTimeout(p, k) == Lock(p, k)
LockOpenTimeout(p, k) == LockOpen(p, k)

\* lock.Lock() on the local variable, common to the four entry points.
Acquire(p) ==
    /\ pc[p] = "blocked"
    /\ owner[lock[p]] = None
    /\ owner' = [owner EXCEPT ![lock[p]] = p]
    /\ pc' = [pc EXCEPT ![p] = "locked"]
    /\ UNCHANGED <<counts, locks, state, key, lock>>

\* m.state[lockId] = true under m.stateLock; the call returns.
Register(p) ==
    /\ pc[p] = "locked"
    /\ state' = state \cup {p}
    /\ pc' = [pc EXCEPT ![p] = "held"]
    /\ UNCHANGED <<counts, locks, owner, key, lock>>

\* What every Unlock does to its caller.
Left(p) ==
    /\ pc' = [pc EXCEPT ![p] = "unlocked"]
    /\ lock' = [lock EXCEPT ![p] = None]
    /\ UNCHANGED <<state, key>>

\* Mutants of Unlock: the entry is dropped under the waiters, the count is not
\* taken down, the mutex is not unlocked for the waiters.
UnlockUncounted(p) ==
    /\ pc[p] = "held"
    /\ counts' = [counts EXCEPT ![key[p]] = 0]
    /\ locks' = [locks EXCEPT ![key[p]] = None]
    /\ UNCHANGED owner
    /\ Left(p)

UnlockKeepsCount(p) ==
    /\ pc[p] = "held"
    /\ IF counts[key[p]] <= 1
         THEN /\ counts' = [counts EXCEPT ![key[p]] = 0]
              /\ locks' = [locks EXCEPT ![key[p]] = None]
              /\ UNCHANGED owner
         ELSE /\ owner' = [owner EXCEPT ![locks[key[p]]] = None]
              /\ UNCHANGED <<counts, locks>>
    /\ Left(p)

UnlockKeepsMutex(p) ==
    /\ pc[p] = "held"
    /\ IF counts[key[p]] <= 1
         THEN /\ counts' = [counts EXCEPT ![key[p]] = 0]
              /\ locks' = [locks EXCEPT ![key[p]] = None]
         ELSE /\ counts' = [counts EXCEPT ![key[p]] = @ - 1]
              /\ UNCHANGED locks
    /\ UNCHANGED owner
    /\ Left(p)

\* Unlock up to m.lock.Unlock(): the last user drops the entry, any other
\* unlocks the mutex the table holds for the id.
Unlock(p) ==
    LET k == key[p] IN
    /\ pc[p] = "held"
    /\ IF counts[k] <= 1
         THEN /\ counts' = [counts EXCEPT ![k] = 0]
              /\ locks' = [locks EXCEPT ![k] = None]
              /\ UNCHANGED owner
         ELSE /\ counts' = [counts EXCEPT ![k] = @ - 1]
              /\ owner' = [owner EXCEPT ![locks[k]] = None]
              /\ UNCHANGED locks
    /\ Left(p)

\* delete(m.state, lockId) under m.stateLock.
Unregister(p) ==
    /\ pc[p] = "unlocked"
    /\ state' = state \ {p}
    /\ pc' = [pc EXCEPT ![p] = "idle"]
    /\ UNCHANGED <<counts, locks, owner, key, lock>>

Next ==
    \E p \in Proc :
        \/ \E k \in Key : \/ Lock(p, k) \/ LockTimeout(p, k)
                         \/ LockOpen(p, k) \/ LockOpenTimeout(p, k)
        \/ Acquire(p)
        \/ Register(p)
        \/ Unlock(p)
        \/ Unregister(p)

Spec == Init /\ [][Next]_vars

\* A goroutine that is running keeps running and finally unlocks (every user
\* of the lock defers Unlock).  A sync.Mutex serves a goroutine that waits
\* for more than a millisecond before newcomers (starvation mode), so a
\* blocked goroutine is not passed over for ever: strong fairness.
Fairness ==
    \A p \in Proc :
        /\ SF_vars(Acquire(p))
        /\ WF_vars(Register(p) \/ Unlock(p) \/ Unregister(p))

FairSpec == Spec /\ Fairness
-----------------------------------------------------------------------------
TypeOK ==
    /\ counts \in [Key -> 0..Cardinality(Proc)]
    /\ locks \in [Key -> Mutex \cup {None}]
    /\ owner \in [Mutex -> Proc \cup {None}]
    /\ state \in SUBSET Proc
    /\ pc \in [Proc -> PC]
    /\ key \in [Proc -> Key]
    /\ lock \in [Proc -> Mutex \cup {None}]

\* Two calls on one id are never inside together, whichever of Lock and
\* LockOpen they used and however entries were dropped and re-created
\* in between.
MutualExclusion ==
    \A p, q \in Proc, k \in Key : Inside(p, k) /\ Inside(q, k) => p = q

\* A goroutine that looked a mutex up still waits for the mutex the table
\* holds: the entry is never dropped or replaced under a waiter, which would
\* leave it asleep on an object nobody will unlock.
NoOrphan ==
    \A p \in Proc : pc[p] \in {"blocked", "locked", "held"} =>
        lock[p] = locks[key[p]] /\ lock[p] # None

\* The reference count is the number of goroutines that use the entry, and
\* the entry exists exactly as long as there are some: Unlock never finds a
\* nil mutex, Locked() and LockOpen never see a stale entry.
CountExact ==
    \A k \in Key :
        /\ counts[k] = Cardinality(Users(k))
        /\ (locks[k] = None) <=> (Users(k) = {})

\* A mutex that the table holds and somebody locked is locked by a call that
\* is inside: no entry stays in the table with a mutex nobody will unlock.
OwnerInside ==
    \A k \in Key : locks[k] # None /\ owner[locks[k]] # None =>
        Inside(owner[locks[k]], k)

\* Every goroutine that asked for an id gets it.
Served == \A p \in Proc : pc[p] = "blocked" ~> pc[p] = "held"

\* Refinement: the map entries, counts and mutexes implement KeyedLock.
holderBar ==
    [k \in Key |-> IF \E p \in Proc : Inside(p, k)
                     THEN CHOOSE p \in Proc : Inside(p, k) ELSE None]
waitingBar ==
    [k \in Key |-> {p \in Proc : pc[p] = "blocked" /\ key[p] = k}]

Abstract == INSTANCE KeyedLock WITH holder <- holderBar, waiting <- waitingBar

\* The lock table with its reference counts behaves as one exclusive lock
\* per id.
ImplementsKeyedLock == Abstract!Spec
=============================================================================
