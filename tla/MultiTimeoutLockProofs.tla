----------------------- MODULE MultiTimeoutLockProofs -----------------------
(***************************************************************************)
(* The lock table is an exclusive lock per id for any number of            *)
(* goroutines, ids and mutex objects, and implements KeyedLock.            *)
(***************************************************************************)
EXTENDS MultiTimeoutLock, FiniteSetTheorems, TLAPS

\* A goroutine outside of every call keeps no mutex alive.
LockCleared == \A p \in Proc : pc[p] \in {"idle", "unlocked"} => lock[p] = None

\* Two ids never share a mutex object.
DistinctMutexes ==
    \A j, k \in Key : locks[j] # None /\ locks[j] = locks[k] => j = k

\* Whoever is inside locked the mutex it waited for.
InsideOwns == \A p \in Proc : pc[p] \in {"locked", "held"} => owner[lock[p]] = p

\* The inductive invariant.  Mutual exclusion is not inductive alone: an
\* unlock must know that the entry it drops has no other user (CountExact),
\* and that the mutex in the table is its own (NoOrphan, DistinctMutexes).
IInv ==
    /\ TypeOK
    /\ NoOrphan
    /\ CountExact
    /\ LockCleared
    /\ DistinctMutexes
    /\ InsideOwns
    /\ OwnerInside

LEMMA UsersFinite == \A k \in Key : IsFiniteSet(Users(k))
<1>1. \A k \in Key : Users(k) \subseteq Proc
  BY DEF Users
<1> QED
  BY <1>1, FiniteProc, FS_Subset

LEMMA UsersBound == \A k \in Key : Cardinality(Users(k)) \in 0..Cardinality(Proc)
<1>1. \A k \in Key : Users(k) \subseteq Proc
  BY DEF Users
<1>2. \A k \in Key : /\ Cardinality(Users(k)) \in Nat
                     /\ Cardinality(Proc) \in Nat
                     /\ Cardinality(Users(k)) <= Cardinality(Proc)
  BY <1>1, FiniteProc, FS_Subset, FS_CardinalityType
<1> QED
  BY <1>2

LEMMA UsersBoundNext ==
  (\A k \in Key : Cardinality(Users(k)) \in 0..Cardinality(Proc))'
BY UsersBound, PTL

\* Exact counts are within the type.
LEMMA CountsTyped ==
  ASSUME CountExact', NEW k \in Key, NEW n, counts' = [counts EXCEPT ![k] = n],
         TypeOK
  PROVE  counts' \in [Key -> 0..Cardinality(Proc)]
<1>1. \A j \in Key : counts'[j] \in 0..Cardinality(Proc)
  BY UsersBoundNext DEF CountExact
<1>2. counts' = [j \in Key |-> counts'[j]]
  BY DEF TypeOK
<1> QED
  BY <1>1, <1>2

LEMMA InitIInv == Init => IInv
<1> SUFFICES ASSUME Init PROVE IInv
  OBVIOUS
<1>1. \A k \in Key : Users(k) = {}
  BY DEF Init, Users
<1>2. CountExact
  BY <1>1, FS_EmptySet DEF Init, CountExact
<1>3. TypeOK
  BY FiniteProc, FS_CardinalityType DEF Init, TypeOK, PC
<1>4. NoOrphan /\ LockCleared /\ DistinctMutexes /\ InsideOwns /\ OwnerInside
  BY DEF Init, NoOrphan, LockCleared, DistinctMutexes, InsideOwns, OwnerInside
<1> QED
  BY <1>2, <1>3, <1>4 DEF IInv

\* What the four calls have in common: the entry is found or made, and
\* the caller is counted.
Enter(p, k) ==
    /\ pc[p] = "idle"
    /\ IF locks[k] = None THEN NewEntry(p, k) ELSE OldEntry(p, k)
    /\ Counted(p, k)

LEMMA LocksEnter ==
  ASSUME NEW p \in Proc, NEW k \in Key,
         \/ Lock(p, k) \/ LockTimeout(p, k)
         \/ LockOpen(p, k) \/ LockOpenTimeout(p, k)
  PROVE Enter(p, k)
BY DEF Lock, LockTimeout, LockOpen, LockOpenTimeout, Enter

LEMMA NextCases ==
  ASSUME [Next]_vars
  PROVE  \/ \E p \in Proc, k \in Key : Enter(p, k)
         \/ \E p \in Proc : \/ Acquire(p) \/ Unlock(p)
                            \/ Register(p) \/ Unregister(p)
         \/ UNCHANGED vars
BY LocksEnter DEF Next

\* A newcomer joins the users of its id and of no other.
LEMMA EnterCount ==
  ASSUME TypeOK, CountExact, NEW p \in Proc, NEW k \in Key, Enter(p, k)
  PROVE CountExact'
<1>1. Users(k)' = Users(k) \cup {p} /\ p \notin Users(k)
  BY DEF Enter, Counted, Users, TypeOK
<1>2. \A j \in Key : j # k => Users(j)' = Users(j)
  BY DEF Enter, Counted, Users, TypeOK
<1>3. Cardinality(Users(k)') = Cardinality(Users(k)) + 1
  BY <1>1, UsersFinite, FS_AddElement
<1>4. locks'[k] # None /\ \A j \in Key : j # k => locks'[j] = locks[j]
  BY NoneIsNew DEF Enter, NewEntry, OldEntry, TypeOK
<1>5. counts'[k] = counts[k] + 1 /\ \A j \in Key : j # k => counts'[j] = counts[j]
  BY DEF Enter, Counted, TypeOK
<1>6. counts'[k] = Cardinality(Users(k)')
  BY <1>3, <1>5 DEF CountExact
<1>7. (locks'[k] = None) <=> (Users(k)' = {})
  BY <1>1, <1>4
<1> QED
  BY <1>2, <1>4, <1>5, <1>6, <1>7 DEF CountExact

LEMMA EnterIInv ==
  ASSUME IInv, NEW p \in Proc, NEW k \in Key, Enter(p, k)
  PROVE IInv'
<1> USE DEF IInv
<1>1. CountExact'
  BY EnterCount
<1>0. counts' \in [Key -> 0..Cardinality(Proc)]
  BY <1>1, CountsTyped DEF Enter, Counted
<1>2. CASE locks[k] = None
  <2> PICK m \in Mutex : /\ Garbage(m)
                         /\ locks' = [locks EXCEPT ![k] = m]
                         /\ owner' = [owner EXCEPT ![m] = None]
                         /\ lock' = [lock EXCEPT ![p] = m]
    BY <1>2 DEF Enter, NewEntry
  <2>1. TypeOK'
    BY <1>0 DEF TypeOK, Enter, Counted, PC
  <2>2. \A q \in Proc : pc[q] \in {"blocked", "locked", "held"} => key[q] # k
    BY <1>2, NoneIsNew DEF NoOrphan
  <2>3. NoOrphan'
    BY <2>2, NoneIsNew DEF NoOrphan, Enter, Counted, TypeOK
  <2>4. LockCleared'
    BY DEF LockCleared, Enter, Counted, TypeOK
  <2>5. DistinctMutexes'
    BY DEF DistinctMutexes, Garbage, TypeOK
  <2>6. InsideOwns'
    BY DEF InsideOwns, Garbage, Enter, Counted, TypeOK, NoOrphan
  <2>7. \A j \in Key : j # k => locks'[j] = locks[j] /\ owner'[locks[j]] = owner[locks[j]]
    BY DEF TypeOK, Garbage
  <2>8. owner'[locks'[k]] = None
    BY DEF TypeOK
  <2>9. \A q \in Proc : pc[q] \in {"locked", "held"} => pc'[q] = pc[q] /\ key'[q] = key[q]
    BY DEF Enter, Counted, TypeOK
  <2>10. OwnerInside'
    BY <2>7, <2>8, <2>9 DEF OwnerInside, Inside, TypeOK
  <2> QED
    BY <1>1, <2>1, <2>3, <2>4, <2>5, <2>6, <2>10
<1>3. CASE locks[k] # None
  <2> USE <1>3
  <2>1. TypeOK'
    BY <1>0 DEF TypeOK, Enter, OldEntry, Counted, PC
  <2>2. NoOrphan' /\ LockCleared' /\ DistinctMutexes' /\ InsideOwns'
    BY DEF NoOrphan, LockCleared, DistinctMutexes, InsideOwns, Enter,
           OldEntry, Counted, TypeOK
  <2>3. OwnerInside'
    BY DEF OwnerInside, Inside, Enter, OldEntry, Counted, TypeOK
  <2> QED
    BY <1>1, <2>1, <2>2, <2>3
<1> QED
  BY <1>2, <1>3

LEMMA AcquireIInv ==
  ASSUME IInv, NEW p \in Proc, Acquire(p)
  PROVE IInv'
<1> USE DEF IInv
<1>1. \A k \in Key : Users(k)' = Users(k)
  BY DEF Acquire, Users, TypeOK
<1>2. CountExact'
  BY <1>1 DEF CountExact, Acquire
<1>3. TypeOK'
  BY DEF TypeOK, Acquire, PC
<1>4. NoOrphan' /\ LockCleared' /\ DistinctMutexes'
  BY DEF NoOrphan, LockCleared, DistinctMutexes, Acquire, TypeOK
<1>5. lock[p] \in Mutex /\ lock[p] = locks[key[p]]
  BY DEF Acquire, NoOrphan, TypeOK
<1>6. InsideOwns'
  BY <1>5, NoneIsNew DEF InsideOwns, Acquire, TypeOK
<1>7. OwnerInside'
  BY <1>5 DEF OwnerInside, Inside, DistinctMutexes, Acquire, TypeOK
<1> QED
  BY <1>2, <1>3, <1>4, <1>6, <1>7

LEMMA UnlockIInv ==
  ASSUME IInv, NEW p \in Proc, Unlock(p)
  PROVE IInv'
<1> USE DEF IInv
<1> PICK k \in Key : k = key[p]
  BY DEF TypeOK
<1>1. k \in Key /\ p \in Users(k) /\ pc[p] = "held"
  BY DEF Unlock, Left, Users, TypeOK
<1>2. Users(k)' = Users(k) \ {p}
  BY DEF Unlock, Left, Users, TypeOK
<1>3. \A j \in Key : j # k => Users(j)' = Users(j)
  BY DEF Unlock, Left, Users, TypeOK
<1>4. /\ counts[k] = Cardinality(Users(k)) /\ counts[k] \in Nat
      /\ Cardinality(Users(k)') = counts[k] - 1
      /\ Cardinality(Users(k)') \in Nat
  BY <1>1, <1>2, UsersFinite, FS_RemoveElement, FS_CardinalityType
     DEF CountExact, TypeOK
<1>5. \A j \in Key : j # k => counts'[j] = counts[j] /\ locks'[j] = locks[j]
  BY <1>1 DEF Unlock, Left, TypeOK
<1>6. LockCleared'
  BY DEF LockCleared, Unlock, Left, TypeOK
<1>7. lock[p] = locks[k] /\ locks[k] \in Mutex /\ owner[locks[k]] = p
  BY <1>1 DEF NoOrphan, InsideOwns, TypeOK
<1>8. CASE counts[k] <= 1
  <2>1. /\ counts' = [counts EXCEPT ![k] = 0]
        /\ locks' = [locks EXCEPT ![k] = None]
        /\ owner' = owner
    BY <1>8 DEF Unlock, Left
  <2>2. Users(k)' = {} /\ Cardinality(Users(k)') = 0
    BY <1>4, <1>8, <1>2, UsersFinite, FS_EmptySet, FS_RemoveElement
  <2>3. CountExact'
    <3>1. counts'[k] = 0 /\ locks'[k] = None
      BY <2>1 DEF TypeOK
    <3> QED
      BY <3>1, <2>2, <1>3, <1>5 DEF CountExact
  <2>4. TypeOK'
    <3>1. counts' \in [Key -> 0..Cardinality(Proc)]
      BY <2>1, <2>3, CountsTyped
    <3> QED
      BY <2>1, <3>1 DEF TypeOK, Unlock, Left, PC
  <2>5. \A q \in Proc : q # p /\ pc[q] \in {"blocked", "locked", "held"} => key[q] # k
    BY <2>2, <1>2 DEF Users
  <2>6. NoOrphan' /\ DistinctMutexes' /\ InsideOwns'
    BY <2>1, <2>5 DEF NoOrphan, DistinctMutexes, InsideOwns, Unlock, Left, TypeOK
  <2>7. OwnerInside'
    BY <2>1, <1>1 DEF OwnerInside, Inside, Unlock, Left, TypeOK
  <2> QED
    BY <1>6, <2>3, <2>4, <2>6, <2>7
<1>9. CASE ~(counts[k] <= 1)
  <2>1. /\ counts' = [counts EXCEPT ![k] = @ - 1]
        /\ owner' = [owner EXCEPT ![locks[k]] = None]
        /\ locks' = locks
    BY <1>9 DEF Unlock, Left
  <2>2. Users(k)' # {}
    BY <1>4, <1>9, <1>2, UsersFinite, FS_EmptySet
  <2>3. counts'[k] = Cardinality(Users(k)') /\ locks'[k] # None
    BY <2>1, <1>1, <1>4, <1>7, NoneIsNew DEF TypeOK
  <2>4. CountExact'
    BY <2>2, <2>3, <1>3, <1>5 DEF CountExact
  <2>5. TypeOK'
    <3>1. counts' \in [Key -> 0..Cardinality(Proc)]
      BY <2>1, <2>4, CountsTyped
    <3> QED
      BY <2>1, <3>1 DEF TypeOK, Unlock, Left, PC
  <2>6. NoOrphan' /\ DistinctMutexes'
    BY <2>1 DEF NoOrphan, DistinctMutexes, Unlock, Left, TypeOK
  <2>7. InsideOwns'
    BY <2>1, <1>7 DEF InsideOwns, Unlock, Left, TypeOK
  <2>8. OwnerInside'
    BY <2>1, <1>1, <1>7 DEF OwnerInside, Inside, DistinctMutexes, Unlock, Left, TypeOK
  <2> QED
    BY <1>6, <2>4, <2>5, <2>6, <2>7, <2>8
<1> QED
  BY <1>8, <1>9

LEMMA StateIInv ==
  ASSUME IInv, NEW p \in Proc, Register(p) \/ Unregister(p)
  PROVE IInv'
<1> USE DEF IInv
<1>1. \A k \in Key : Users(k)' = Users(k)
  BY DEF Register, Unregister, Users, TypeOK
<1>2. CountExact'
  BY <1>1 DEF CountExact, Register, Unregister
<1>3. TypeOK'
  BY DEF TypeOK, Register, Unregister, PC
<1>4. NoOrphan' /\ LockCleared' /\ DistinctMutexes' /\ InsideOwns'
  BY DEF NoOrphan, LockCleared, DistinctMutexes, InsideOwns, Register,
         Unregister, TypeOK
<1>5. OwnerInside'
  BY DEF OwnerInside, Inside, Register, Unregister, TypeOK
<1> QED
  BY <1>2, <1>3, <1>4, <1>5

LEMMA StutterIInv == IInv /\ UNCHANGED vars => IInv'
<1> SUFFICES ASSUME IInv, UNCHANGED vars PROVE IInv'
  OBVIOUS
<1> USE DEF IInv, vars
<1>1. \A k \in Key : Users(k)' = Users(k)
  BY DEF Users
<1>2. CountExact'
  BY <1>1 DEF CountExact
<1>3. TypeOK'
  BY DEF TypeOK
<1>4. NoOrphan' /\ LockCleared' /\ DistinctMutexes' /\ InsideOwns' /\ OwnerInside'
  BY DEF NoOrphan, LockCleared, DistinctMutexes, InsideOwns, OwnerInside, Inside
<1> QED
  BY <1>2, <1>3, <1>4

LEMMA NextIInv == IInv /\ [Next]_vars => IInv'
BY NextCases, EnterIInv, AcquireIInv, UnlockIInv, StateIInv, StutterIInv

\* The inductive invariant holds in every reachable state.
THEOREM Invariance == Spec => []IInv
BY InitIInv, NextIInv, PTL DEF Spec

\* The variables keep their types; in particular the reference counts never
\* go below zero.
THEOREM TypeCorrect == Spec => []TypeOK
<1>1. IInv => TypeOK
  BY DEF IInv
<1> QED
  BY <1>1, Invariance, PTL

LEMMA IInvExclusion == IInv => MutualExclusion
BY DEF IInv, MutualExclusion, Inside, NoOrphan, InsideOwns

\* instancesLock, disksLock, imageLock...: two goroutines are never inside
\* the section of one id, however entries are dropped and made again.
THEOREM Exclusion == Spec => []MutualExclusion
BY IInvExclusion, Invariance, PTL

\* The table entry of an id lives exactly as long as somebody uses it.
THEOREM Accounting == Spec => []CountExact
<1>1. IInv => CountExact
  BY DEF IInv
<1> QED
  BY <1>1, Invariance, PTL

\* No waiter is left on a mutex the table has forgotten.
THEOREM NobodyForgotten == Spec => []NoOrphan
<1>1. IInv => NoOrphan
  BY DEF IInv
<1> QED
  BY <1>1, Invariance, PTL

\* No mutex of the table stays locked by a call that is over.
THEOREM NothingLeftLocked == Spec => []OwnerInside
<1>1. IInv => OwnerInside
  BY DEF IInv
<1> QED
  BY <1>1, Invariance, PTL
-----------------------------------------------------------------------------
(* The refinement.  holderBar is a CHOOSE; the first lemma says all that is  *)
(* needed of it.                                                             *)

HolderMatches ==
    /\ holderBar \in [Key -> Proc \cup {None}]
    /\ \A q \in Proc, j \in Key : Inside(q, j) <=> holderBar[j] = q

LEMMA HolderIs == IInv => HolderMatches
<1> SUFFICES ASSUME IInv PROVE HolderMatches
  OBVIOUS
<1>1. ASSUME NEW q \in Proc, NEW j \in Key, Inside(q, j)
      PROVE  holderBar[j] = q
  <2> DEFINE h == CHOOSE r \in Proc : Inside(r, j)
  <2>1. h \in Proc /\ Inside(h, j)
    BY <1>1
  <2>2. h = q
    BY <1>1, <2>1, IInvExclusion DEF MutualExclusion
  <2>3. holderBar[j] = h
    BY <1>1 DEF holderBar
  <2> QED
    BY <2>2, <2>3
<1>2. ASSUME NEW j \in Key
      PROVE  \/ holderBar[j] = None /\ \A q \in Proc : ~Inside(q, j)
             \/ holderBar[j] \in Proc /\ Inside(holderBar[j], j)
  BY <1>1, <1>2 DEF holderBar
<1>3. holderBar = [j \in Key |-> holderBar[j]]
  BY DEF holderBar
<1> QED
  BY <1>1, <1>2, <1>3, NoneIsNew DEF HolderMatches

LEMMA InitMaps == Init => Abstract!Init
BY DEF Init, Abstract!Init, holderBar, waitingBar, Inside

LEMMA NextMaps ==
  ASSUME IInv, [Next]_vars
  PROVE  [Abstract!Next]_<<holderBar, waitingBar>>
<1>1. IInv'
  BY NextIInv
<1>2. /\ holderBar \in [Key -> Proc \cup {None}]
      /\ \A q \in Proc, j \in Key : Inside(q, j) <=> holderBar[j] = q
  BY HolderIs DEF HolderMatches
<1>0. HolderMatches'
  BY <1>1, HolderIs, PTL
<1>3. /\ holderBar' \in [Key -> Proc \cup {None}]
      /\ \A q \in Proc, j \in Key : Inside(q, j)' <=> holderBar'[j] = q
  BY <1>0 DEF HolderMatches
<1>4. TypeOK
  BY DEF IInv
<1>5. ASSUME NEW p \in Proc, NEW k \in Key, Enter(p, k)
      PROVE  Abstract!Ask(p, k)
  <2>1. \A q \in Proc, j \in Key : Inside(q, j)' <=> Inside(q, j)
    BY <1>5, <1>4 DEF Enter, Counted, Inside, TypeOK
  <2>2. holderBar' = holderBar
    BY <2>1, <1>2, <1>3, NoneIsNew
  <2>3. \A j \in Key : p \notin waitingBar[j] /\ holderBar[j] # p
    BY <1>5, <1>2 DEF waitingBar, Inside, Enter
  <2>4. waitingBar' = [waitingBar EXCEPT ![k] = @ \cup {p}]
    BY <1>5, <1>4 DEF waitingBar, Enter, Counted, TypeOK
  <2> QED
    BY <2>2, <2>3, <2>4 DEF Abstract!Ask
<1>6. ASSUME NEW p \in Proc, Acquire(p)
      PROVE  Abstract!Take(p, key[p])
  <2> PICK k \in Key : k = key[p]
    BY <1>4 DEF TypeOK
  <2>1. p \in waitingBar[k] /\ owner[locks[k]] = None
    BY <1>6 DEF waitingBar, Acquire, IInv, NoOrphan
  <2>2. \A q \in Proc : ~Inside(q, k)
    BY <2>1, NoneIsNew DEF Inside, IInv, NoOrphan, InsideOwns
  <2>3. holderBar[k] = None
    BY <2>2, <1>2
  <2>4. \A q \in Proc, j \in Key :
          Inside(q, j)' <=> Inside(q, j) \/ (q = p /\ j = k)
    BY <1>6, <1>4 DEF Inside, Acquire, TypeOK
  <2>5. holderBar' = [holderBar EXCEPT ![k] = p]
    BY <2>4, <1>2, <1>3, <2>3, NoneIsNew
  <2>6. waitingBar' = [waitingBar EXCEPT ![k] = @ \ {p}]
    BY <1>6, <1>4 DEF waitingBar, Acquire, TypeOK
  <2> QED
    BY <2>1, <2>3, <2>5, <2>6 DEF Abstract!Take
<1>7. ASSUME NEW p \in Proc, Unlock(p)
      PROVE  Abstract!Drop(p, key[p])
  <2> PICK k \in Key : k = key[p]
    BY <1>4 DEF TypeOK
  <2>1. Inside(p, k)
    BY <1>7 DEF Unlock, Left, Inside
  <2>2. holderBar[k] = p
    BY <2>1, <1>2
  <2>3. \A q \in Proc, j \in Key :
          Inside(q, j)' <=> Inside(q, j) /\ q # p
    BY <1>7, <1>4 DEF Inside, Unlock, Left, TypeOK
  <2>4. \A j \in Key : j # k => ~Inside(p, j)
    BY <1>7 DEF Inside
  <2>5. holderBar' = [holderBar EXCEPT ![k] = None]
    BY <2>2, <2>3, <2>4, <1>2, <1>3, NoneIsNew
  <2>6. waitingBar' = waitingBar
    BY <1>7, <1>4 DEF waitingBar, Unlock, Left, TypeOK
  <2> QED
    BY <2>2, <2>5, <2>6 DEF Abstract!Drop
<1>8. ASSUME NEW p \in Proc, Register(p) \/ Unregister(p)
      PROVE  UNCHANGED <<holderBar, waitingBar>>
  <2>1. \A q \in Proc, j \in Key : Inside(q, j)' <=> Inside(q, j)
    BY <1>8, <1>4 DEF Register, Unregister, Inside, TypeOK
  <2>2. holderBar' = holderBar
    BY <2>1, <1>2, <1>3, NoneIsNew
  <2>3. waitingBar' = waitingBar
    BY <1>8, <1>4 DEF waitingBar, Register, Unregister, TypeOK
  <2> QED
    BY <2>2, <2>3
<1>9. ASSUME UNCHANGED vars
      PROVE  UNCHANGED <<holderBar, waitingBar>>
  BY <1>9 DEF vars, holderBar, waitingBar, Inside
<1>10. \A p \in Proc : key[p] \in Key
  BY <1>4 DEF TypeOK
<1>11. CASE \E p \in Proc, k \in Key : Enter(p, k)
  BY <1>11, <1>5 DEF Abstract!Next
<1>12. CASE \E p \in Proc : Acquire(p) \/ Unlock(p)
  BY <1>12, <1>6, <1>7, <1>10 DEF Abstract!Next
<1>13. CASE \/ \E p \in Proc : Register(p) \/ Unregister(p)
            \/ UNCHANGED vars
  BY <1>13, <1>8, <1>9
<1> QED
  BY <1>11, <1>12, <1>13, NextCases

\* The lock table of utils implements the keyed lock its users rely on, for
\* any number of goroutines and ids.
THEOREM Refinement == Spec => ImplementsKeyedLock
<1>1. IInv /\ [Next]_vars => [Abstract!Next]_Abstract!vars
  BY NextMaps DEF Abstract!vars
<1> QED
  BY <1>1, InitMaps, Invariance, PTL DEF Spec, ImplementsKeyedLock, Abstract!Spec
=============================================================================
