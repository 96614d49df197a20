--------------------------- MODULE ConsoleSyncProofs ---------------------------
(***************************************************************************)
(* Theorems about ConsoleSync, for every resource, every number of         *)
(* requests in flight and every order of their answers.                    *)
(***************************************************************************)
EXTENDS ConsoleSync, FiniteSetTheorems, TLAPS

(* What is proved rests on the ids of the requests in flight being         *)
(* different: the loader, the refresh button and the test of syncId then   *)
(* speak of one request each.                                              *)
IsRequest(r) ==
    /\ r = [id |-> r.id, of |-> r.of, filter |-> r.filter, page |-> r.page,
            quiet |-> r.quiet, refresh |-> r.refresh, answer |-> r.answer]
    /\ r.id \in 1..MaxRequests /\ r.quiet \in BOOLEAN /\ r.refresh \in BOOLEAN

ReqsOK ==
    /\ IsFiniteSet(reqs) /\ Cardinality(reqs) <= MaxRequests
    /\ \A r \in reqs : IsRequest(r)

UniqueIds == \A q, r \in reqs : q.id = r.id => q = r

IsStore(s) ==
    s = [items |-> s.items, count |-> s.count, page |-> s.page, filter |-> s.filter]

Answered(r) == r.answer # None /\ ~Failed(r)

\* The version of the server goes up; what was read has one it had; and the
\* last request read no less than what is in the store.
Versions ==
    /\ IsStore(store)
    /\ srv = [ver |-> srv.ver, n |-> srv.n] /\ srv.ver \in Nat \ {0}
    /\ store.items # None => store.items.ver \in 0..srv.ver
    /\ \A r \in reqs : Answered(r) => r.answer.ver \in 1..srv.ver
    /\ res.sync.guarded /\ store.items # None
         => \A r \in reqs :
              r.id = syncId /\ Answered(r) => store.items.ver <= r.answer.ver

IInv == ReqsOK /\ UniqueIds /\ SpinsWhileAsking /\ RefreshEnds /\ Versions

\* The steps that make no request, and those that make one.
Calm ==
    /\ UNCHANGED <<reqs, spinning>>
    /\ syncId' = syncId \/ syncId' = 0
AskedNow ==
    \E of, st : \E quiet, refresh \in BOOLEAN : Ask(of, st, quiet, refresh)

LEMMA InitIInv == Init => IInv
<1> SUFFICES ASSUME Init PROVE IInv
  OBVIOUS
<1>1. ReqsOK
  BY FS_EmptySet, ConstantsAssumption DEF Init, ReqsOK
<1>2. UniqueIds /\ SpinsWhileAsking /\ RefreshEnds
  BY DEF Init, UniqueIds, SpinsWhileAsking, RefreshEnds
<1>3. Versions
  BY DEF Init, Versions, EmptyStore, IsStore
<1> QED
  BY <1>1, <1>2, <1>3 DEF IInv
-----------------------------------------------------------------------------
(* Requests.                                                               *)

\* A request that may be made has an id no other has.
LEMMA FreshIdIsFresh ==
  ASSUME ReqsOK, Cardinality(reqs) < MaxRequests
  PROVE  FreshId \in 1..MaxRequests /\ \A r \in reqs : r.id # FreshId
<1>1. \E i \in 1..MaxRequests : i \notin {r.id : r \in reqs}
  <2> SUFFICES ASSUME \A i \in 1..MaxRequests : \E r \in reqs : r.id = i
               PROVE  FALSE
    OBVIOUS
  <2> DEFINE f == [i \in 1..MaxRequests |-> CHOOSE r \in reqs : r.id = i]
  <2>1. \A i \in 1..MaxRequests : f[i] \in reqs /\ f[i].id = i
    OBVIOUS
  <2>2. f \in [1..MaxRequests -> reqs]
    BY <2>1
  <2>3. IsFiniteSet(1..MaxRequests) /\ Cardinality(1..MaxRequests) = MaxRequests
    BY FS_Interval, ConstantsAssumption
  <2> DEFINE ids == 1..MaxRequests
  <2>4. /\ IsFiniteSet(ids) /\ IsFiniteSet(reqs) /\ f \in [ids -> reqs]
        /\ Cardinality(reqs) < Cardinality(ids)
    BY <2>2, <2>3 DEF ReqsOK
  <2> HIDE DEF f, ids
  <2>5. \E x, y \in ids : x # y /\ f[x] = f[y]
    BY <2>4, FS_PigeonHole
  <2> QED
    BY <2>1, <2>5 DEF ids
<1> QED
  BY <1>1 DEF FreshId

LEMMA AskReqs ==
  ASSUME ReqsOK, UniqueIds, NEW of, NEW st, NEW quiet \in BOOLEAN,
         NEW refresh \in BOOLEAN, Ask(of, st, quiet, refresh)
  PROVE  \E q : /\ IsRequest(q) /\ q.answer = None /\ q \notin reqs
                /\ q.quiet = quiet /\ q.refresh = refresh
                /\ reqs' = reqs \cup {q} /\ syncId' = q.id
                /\ spinning' = (IF quiet THEN spinning ELSE spinning \cup {q.id})
                /\ \A r \in reqs : r.id # q.id
<1> DEFINE q == [id |-> FreshId, of |-> of, filter |-> st.filter, page |-> st.page,
                 quiet |-> quiet, refresh |-> refresh, answer |-> None]
<1>1. FreshId \in 1..MaxRequests /\ \A r \in reqs : r.id # FreshId
  BY FreshIdIsFresh DEF Ask
<1>2. IsRequest(q)
  BY <1>1 DEF IsRequest
<1>3. reqs' = reqs \cup {q} /\ syncId' = q.id
  BY DEF Ask
<1>4. spinning' = (IF quiet THEN spinning ELSE spinning \cup {q.id})
  BY DEF Ask
<1>5. q.id = FreshId /\ q.answer = None /\ q.quiet = quiet /\ q.refresh = refresh
  OBVIOUS
<1>6. q \notin reqs
  BY <1>1, <1>5
<1> HIDE DEF q
<1> QED
  BY <1>1, <1>2, <1>3, <1>4, <1>5, <1>6

LEMMA PutNobodysCalm == ASSUME NEW of, PutNobodys(of) PROVE Calm
BY DEF PutNobodys, Calm

LEMMA NoRequestCalm == NoRequest => Calm
BY DEF NoRequest, Calm, asking

LEMMA ReloadKinds ==
  ASSUME NEW refresh \in BOOLEAN, Reload(refresh)
  PROVE  Calm \/ AskedNow
BY PutNobodysCalm, NoRequestCalm DEF Reload, AskedNow

\* What a step does to the requests.
LEMMA Kinds == [Next]_vars => Calm \/ AskedNow \/ Answer \/ Deliver
<1> SUFFICES ASSUME [Next]_vars PROVE Calm \/ AskedNow \/ Answer \/ Deliver
  OBVIOUS
<1>1. CASE Mount \/ Filter \/ Tick
  BY <1>1 DEF Mount, Filter, Tick, AskedNow
<1>2. CASE MountNew \/ Pick
  BY <1>2, PutNobodysCalm DEF MountNew, Pick, AskedNow
<1>3. CASE Unmount
  BY <1>3, NoRequestCalm DEF Unmount
<1>4. CASE Rewind
  BY <1>4, NoRequestCalm DEF Rewind, AskedNow
<1>5. CASE Turn
  BY <1>5, NoRequestCalm DEF Turn, AskedNow
<1>6. CASE Refresh
  BY <1>6, ReloadKinds DEF Refresh
<1>7. CASE Event
  BY <1>7, ReloadKinds, NoRequestCalm DEF Event
<1>8. CASE SwitchOrg \/ Rival \/ Draw \/ SocketClose \/ SocketOpen \/ Change
  BY <1>8 DEF SwitchOrg, Rival, Draw, SocketClose, SocketOpen, Change, asking, Calm
<1>9. CASE UNCHANGED vars
  BY <1>9 DEF vars, asking, Calm
<1> QED
  BY <1>1, <1>2, <1>3, <1>4, <1>5, <1>6, <1>7, <1>8, <1>9
     DEF Next, User, Runtime, Server

\* A request that is answered stays the request it is.
LEMMA AnswerReqs ==
  ASSUME ReqsOK, Answer
  PROVE  \E r \in reqs : \E a :
           LET q == [r EXCEPT !.answer = a]
           IN  /\ reqs' = (reqs \ {r}) \cup {q}
               /\ IsRequest(q) /\ q.id = r.id /\ q.answer = a
               /\ q.quiet = r.quiet /\ q.refresh = r.refresh
               /\ a = AnswerTo(r) \/ DOMAIN a = {"failed"}
<1>1. PICK r \in reqs, out \in Outcomes :
        reqs' = (reqs \ {r}) \cup
                  {[r EXCEPT !.answer = IF out = "ok" THEN AnswerTo(r)
                                        ELSE [failed |-> out]]}
  BY DEF Answer
<1> DEFINE a == IF out = "ok" THEN AnswerTo(r) ELSE [failed |-> out]
           q == [r EXCEPT !.answer = a]
<1>2. IsRequest(r)
  BY DEF ReqsOK
<1>3. a = AnswerTo(r) \/ DOMAIN a = {"failed"}
  OBVIOUS
<1> HIDE DEF a
<1>4. /\ IsRequest(q) /\ q.id = r.id /\ q.answer = a
      /\ q.quiet = r.quiet /\ q.refresh = r.refresh
  BY <1>2 DEF IsRequest
<1>5. reqs' = (reqs \ {r}) \cup {q}
  BY <1>1 DEF a
<1> QED
  BY <1>3, <1>4, <1>5

LEMMA NextReqs ==
  ReqsOK /\ UniqueIds /\ SpinsWhileAsking /\ [Next]_vars
    => ReqsOK' /\ UniqueIds' /\ SpinsWhileAsking'
<1> SUFFICES ASSUME ReqsOK, UniqueIds, SpinsWhileAsking, [Next]_vars
             PROVE  ReqsOK' /\ UniqueIds' /\ SpinsWhileAsking'
  OBVIOUS
<1>1. CASE Calm
  BY <1>1 DEF Calm, ReqsOK, IsRequest, UniqueIds, SpinsWhileAsking
<1>2. CASE AskedNow
  <2>1. PICK of, st : \E quiet, refresh \in BOOLEAN : Ask(of, st, quiet, refresh)
    BY <1>2 DEF AskedNow
  <2>2. PICK quiet \in BOOLEAN, refresh \in BOOLEAN : Ask(of, st, quiet, refresh)
    BY <2>1
  <2>3. PICK q : /\ IsRequest(q) /\ q \notin reqs /\ q.quiet = quiet
                 /\ reqs' = reqs \cup {q}
                 /\ spinning' = (IF quiet THEN spinning ELSE spinning \cup {q.id})
                 /\ \A r \in reqs : r.id # q.id
    BY <2>2, AskReqs
  <2>4. IsFiniteSet(reqs') /\ Cardinality(reqs') <= MaxRequests
    <3>1. Cardinality(reqs) < MaxRequests
      BY <2>2 DEF Ask
    <3>2. Cardinality(reqs) \in Nat
      BY FS_CardinalityType DEF ReqsOK
    <3>3. IsFiniteSet(reqs') /\ Cardinality(reqs') = Cardinality(reqs) + 1
      BY <2>3, FS_AddElement DEF ReqsOK
    <3> QED
      BY <3>1, <3>2, <3>3, ConstantsAssumption
  <2>5. ReqsOK'
    BY <2>3, <2>4 DEF ReqsOK, IsRequest
  <2>6. UniqueIds'
    BY <2>3 DEF UniqueIds
  <2>7. SpinsWhileAsking'
    BY <2>3 DEF SpinsWhileAsking
  <2> QED
    BY <2>5, <2>6, <2>7
<1>3. CASE Answer
  <2>0. PICK r \in reqs : \E q :
          /\ reqs' = (reqs \ {r}) \cup {q}
          /\ IsRequest(q) /\ q.id = r.id /\ q.quiet = r.quiet
    BY <1>3, AnswerReqs
  <2>1. PICK q :
          /\ reqs' = (reqs \ {r}) \cup {q}
          /\ IsRequest(q) /\ q.id = r.id /\ q.quiet = r.quiet
    BY <2>0
  <2>2. IsFiniteSet(reqs') /\ Cardinality(reqs') <= MaxRequests
    <3>1. /\ IsFiniteSet(reqs \ {r})
          /\ Cardinality(reqs \ {r}) = Cardinality(reqs) - 1
      BY FS_RemoveElement DEF ReqsOK
    <3>2. Cardinality(reqs) \in Nat
      BY FS_CardinalityType DEF ReqsOK
    <3>3. /\ IsFiniteSet(reqs')
          /\ \/ Cardinality(reqs') = Cardinality(reqs \ {r})
             \/ Cardinality(reqs') = Cardinality(reqs \ {r}) + 1
      <4> DEFINE S == reqs \ {r}
      <4>1. IsFiniteSet(S) /\ reqs' = S \cup {q}
        BY <2>1, <3>1
      <4> HIDE DEF S
      <4>2. /\ IsFiniteSet(reqs')
            /\ Cardinality(reqs') = (IF q \in S THEN Cardinality(S) ELSE Cardinality(S) + 1)
        BY <4>1, FS_AddElement
      <4> QED
        BY <4>2 DEF S
    <3> QED
      BY <3>1, <3>2, <3>3, ConstantsAssumption DEF ReqsOK
  <2>3. ReqsOK'
    BY <2>1, <2>2 DEF ReqsOK, IsRequest
  <2>4. UniqueIds'
    BY <2>1 DEF UniqueIds
  <2>5. spinning' = spinning
    BY <1>3 DEF Answer
  <2>6. SpinsWhileAsking'
    BY <2>1, <2>5 DEF SpinsWhileAsking
  <2> QED
    BY <2>3, <2>4, <2>6
<1>4. CASE Deliver
  <2>1. CASE Restart
    <3>1. reqs' = {} /\ spinning' = {}
      BY <2>1 DEF Restart
    <3> QED
      BY <3>1, FS_EmptySet, ConstantsAssumption DEF ReqsOK, UniqueIds, SpinsWhileAsking
  <2>2. ASSUME NEW r \in reqs, Settle(r)
        PROVE  ReqsOK' /\ UniqueIds' /\ SpinsWhileAsking'
    <3>1. reqs' = reqs \ {r} /\ spinning' = spinning \ {r.id}
      BY <2>2 DEF Settle
    <3>2. IsFiniteSet(reqs') /\ Cardinality(reqs') <= MaxRequests
      <4>1. /\ IsFiniteSet(reqs \ {r})
            /\ Cardinality(reqs \ {r}) = Cardinality(reqs) - 1
        BY FS_RemoveElement DEF ReqsOK
      <4>2. Cardinality(reqs) \in Nat
        BY FS_CardinalityType DEF ReqsOK
      <4> QED
        BY <3>1, <4>1, <4>2, ConstantsAssumption DEF ReqsOK
    <3>3. ReqsOK'
      BY <3>1, <3>2 DEF ReqsOK, IsRequest
    <3>4. UniqueIds'
      BY <3>1 DEF UniqueIds
    <3>5. SpinsWhileAsking'
      BY <3>1 DEF UniqueIds, SpinsWhileAsking
    <3> QED
      BY <3>3, <3>4, <3>5
  <2> QED
    BY <1>4, <2>1, <2>2 DEF Deliver
<1> QED
  BY <1>1, <1>2, <1>3, <1>4, Kinds
-----------------------------------------------------------------------------
(* The refresh button.                                                     *)

LEMMA ReloadAsks ==
  ASSUME Reload(TRUE), Known \notin {None, "new"}
  PROVE  \E of, st : Ask(of, st, FALSE, TRUE)
BY DEF Reload

\* No step but the button's own and an answer changes what it shows.
LEMMA NextRefreshing ==
  [Next]_vars => UNCHANGED refreshing \/ Refresh \/ Deliver
<1> SUFFICES ASSUME [Next]_vars, ~Refresh, ~Deliver PROVE UNCHANGED refreshing
  OBVIOUS
<1>1. CASE User
  BY <1>1 DEF User, Mount, MountNew, Unmount, Pick, Rewind, Turn, Filter,
              SwitchOrg, Rival
<1>2. CASE Runtime \/ Server
  BY <1>2 DEF Runtime, Draw, Tick, Event, SocketClose, SocketOpen, Server, Change, Answer
<1>3. CASE UNCHANGED vars
  BY <1>3 DEF vars
<1> QED
  BY <1>1, <1>2, <1>3 DEF Next

LEMMA NextRefreshEnds ==
  ReqsOK /\ UniqueIds /\ RefreshEnds /\ [Next]_vars => RefreshEnds'
<1> SUFFICES ASSUME ReqsOK, UniqueIds, RefreshEnds, [Next]_vars, refreshing'
             PROVE  \E r \in reqs' : r.refresh
  BY DEF RefreshEnds
<1>1. CASE Refresh
  <2>1. PICK of, st : Ask(of, st, FALSE, TRUE)
    BY <1>1, ReloadAsks DEF Refresh
  <2>2. PICK q : q.refresh = TRUE /\ reqs' = reqs \cup {q}
    BY <2>1, AskReqs
  <2> QED
    BY <2>2
<1>2. CASE Deliver
  <2>1. ~Restart
    BY DEF Restart
  <2>2. PICK r \in reqs : Settle(r)
    BY <1>2, <2>1 DEF Deliver
  <2>3. refreshing /\ ~r.refresh /\ reqs' = reqs \ {r}
    BY <2>2 DEF Settle
  <2>4. PICK q \in reqs : q.refresh
    BY <2>3 DEF RefreshEnds
  <2>5. q \in reqs'
    BY <2>3, <2>4
  <2> QED
    BY <2>4, <2>5
<1>3. CASE UNCHANGED refreshing
  <2>1. PICK r \in reqs : r.refresh
    BY <1>3 DEF RefreshEnds
  <2>2. CASE Calm
    BY <2>1, <2>2 DEF Calm
  <2>3. CASE AskedNow
    <3>1. reqs \subseteq reqs'
      BY <2>3 DEF AskedNow, Ask
    <3> QED
      BY <2>1, <3>1
  <2>4. CASE Answer
    <3>1. PICK t \in reqs : \E q :
            reqs' = (reqs \ {t}) \cup {q} /\ q.refresh = t.refresh
      BY <2>4, AnswerReqs
    <3> QED
      BY <2>1, <3>1
  <2> QED
    BY <1>2, <2>2, <2>3, <2>4, Kinds
<1> QED
  BY <1>1, <1>2, <1>3, NextRefreshing
-----------------------------------------------------------------------------
(* Versions.                                                               *)

\* The rows in the store are kept, dropped, or replaced by no rows at all.
Harmless ==
    /\ IsStore(store')
    /\ \/ store'.items = store.items
       \/ store'.items = None
       \/ store'.items.ver = 0

LEMMA SyncedItems ==
  ASSUME NEW d, NEW s, NEW a, IsStore(s)
  PROVE  IsStore(Synced(d, s, a)) /\ Synced(d, s, a).items = a
<1> DEFINE t == [s EXCEPT !.items = a, !.count = a.count]
<1>1. IsStore(t) /\ t.items = a
  <2>1. ASSUME NEW c PROVE LET u == [s EXCEPT !.items = a, !.count = c]
                           IN  IsStore(u) /\ u.items = a
    <3> DEFINE v == [s EXCEPT !.items = a]
    <3>1. IsStore(v) /\ v.items = a
      BY DEF IsStore
    <3>2. [s EXCEPT !.items = a, !.count = c] = [v EXCEPT !.count = c]
      OBVIOUS
    <3> HIDE DEF v
    <3>3. IsStore([v EXCEPT !.count = c]) /\ [v EXCEPT !.count = c].items = a
      BY <3>1 DEF IsStore
    <3> QED
      BY <3>2, <3>3
  <2> QED
    BY <2>1
<1>2. ASSUME NEW n
      PROVE  LET u == [t EXCEPT !.page = n] IN IsStore(u) /\ u.items = a
  <2> HIDE DEF t
  <2> QED
    BY <1>1 DEF IsStore
<1>3. \/ Synced(d, s, a) = t
      \/ \E n : Synced(d, s, a) = [t EXCEPT !.page = n]
  BY DEF Synced
<1> HIDE DEF t
<1> QED
  BY <1>1, <1>2, <1>3

LEMMA PutNobodysHarmless ==
  ASSUME IsStore(store), NEW of, PutNobodys(of)
  PROVE  Harmless
<1>1. IsStore(store') /\ store'.items = Nobodys(of)
  BY SyncedItems DEF PutNobodys
<1> QED
  BY <1>1 DEF Harmless, Nobodys

LEMMA TraverseHarmless ==
  ASSUME NEW d, NEW s, NEW p, IsStore(s)
  PROVE  IsStore(TraverseTo(d, s, p)) /\ TraverseTo(d, s, p).items = s.items
BY DEF TraverseTo, IsStore

LEMMA FilterHarmless ==
  ASSUME NEW d, NEW s, NEW f, IsStore(s)
  PROVE  IsStore(FilterBy(d, s, f)) /\ FilterBy(d, s, f).items = s.items
<1> DEFINE t == IF ResetsPage(d, s.filter, f) THEN TraverseTo(d, s, 0) ELSE s
<1>1. IsStore(t) /\ t.items = s.items
  BY TraverseHarmless
<1>2. FilterBy(d, s, f) = [t EXCEPT !.filter = f]
  BY DEF FilterBy
<1> HIDE DEF t
<1> QED
  BY <1>1, <1>2 DEF IsStore

LEMMA ReloadHarmless ==
  ASSUME IsStore(store), NEW refresh, Reload(refresh)
  PROVE  Harmless
<1>1. CASE UNCHANGED store
  BY <1>1 DEF Harmless, IsStore
<1>2. CASE PutNobodys("new")
  BY <1>2, PutNobodysHarmless
<1> QED
  BY <1>1, <1>2 DEF Reload

\* Only an answer that counts brings rows.
LEMMA NextStore ==
  ASSUME IsStore(store), [Next]_vars
  PROVE  \/ Harmless
         \/ \E r \in reqs :
              /\ r.answer # None /\ ~Failed(r) /\ Counts(r) /\ Settle(r)
              /\ IsStore(store') /\ store'.items = r.answer
              /\ UNCHANGED <<screen, syncId, srv>>
<1>1. CASE UNCHANGED store
  BY <1>1 DEF Harmless, IsStore
<1>2. CASE Mount \/ Rival \/ Draw \/ Tick \/ SocketClose \/ SocketOpen \/ Change \/ Answer
  BY <1>1, <1>2 DEF Mount, Rival, Draw, Tick, SocketClose, SocketOpen, Change, Answer
<1>3. CASE MountNew \/ Pick
  BY <1>1, <1>3, PutNobodysHarmless DEF MountNew, Pick
<1>4. CASE Unmount
  BY <1>1, <1>4 DEF Unmount, Harmless, IsStore
<1>5. CASE Rewind
  BY <1>5, TraverseHarmless DEF Rewind, Harmless
<1>6. CASE Turn
  BY <1>6, TraverseHarmless DEF Turn, Harmless
<1>7. CASE Filter
  BY <1>7, FilterHarmless DEF Filter, Harmless
<1>8. CASE SwitchOrg
  BY <1>1, <1>8 DEF SwitchOrg, Cleared, EmptyStore, Harmless, IsStore
<1>9. CASE Refresh
  BY <1>9, ReloadHarmless DEF Refresh
<1>10. CASE Event
  BY <1>1, <1>10, ReloadHarmless DEF Event
<1>11. CASE Deliver
  <2>1. CASE Restart
    BY <2>1 DEF Restart, EmptyStore, Harmless, IsStore
  <2>2. ASSUME NEW r \in reqs, r.answer # None, Settle(r), Take(r),
               UNCHANGED <<screen, syncId>>
        PROVE  \/ Harmless
               \/ /\ ~Failed(r) /\ Counts(r)
                  /\ IsStore(store') /\ store'.items = r.answer
    <3>1. CASE Counts(r) /\ ~Failed(r)
      BY <2>2, <3>1, SyncedItems DEF Take
    <3>2. CASE Counts(r) /\ Failed(r) /\ res.sync.blanks
      <4>1. IsStore(store') /\ store'.items = Nobodys(r.of)
        BY <2>2, <3>2, SyncedItems DEF Take
      <4> QED
        BY <4>1 DEF Harmless, Nobodys
    <3>3. CASE UNCHANGED store
      BY <3>3 DEF Harmless, IsStore
    <3> QED
      BY <2>2, <3>1, <3>2, <3>3 DEF Take
  <2>3. UNCHANGED srv
    BY <1>11 DEF Deliver
  <2>4. CASE ~Restart
    <3>1. PICK r \in reqs : r.answer # None /\ Settle(r) /\ Take(r)
                             /\ UNCHANGED <<screen, syncId>>
      BY <1>11, <2>4 DEF Deliver
    <3> QED
      BY <2>2, <2>3, <3>1
  <2> QED
    BY <2>1, <2>4
<1>12. CASE UNCHANGED vars
  BY <1>1, <1>12 DEF vars
<1> QED
  BY <1>2, <1>3, <1>4, <1>5, <1>6, <1>7, <1>8, <1>9, <1>10, <1>11, <1>12
     DEF Next, User, Runtime, Server

\* The server's version does not go down, nor does the resource change.
LEMMA NextServer ==
  ASSUME Versions, [Next]_vars
  PROVE  /\ srv' = [ver |-> srv'.ver, n |-> srv'.n]
         /\ srv'.ver \in Nat \ {0} /\ srv'.ver >= srv.ver
         /\ res' = res
<1>1. CASE UNCHANGED <<res, srv>>
  BY <1>1 DEF Versions
<1>2. CASE User
  BY <1>1, <1>2 DEF User, Mount, MountNew, Unmount, Pick, Rewind, Turn, Filter,
              SwitchOrg, Refresh, Rival, screen
<1>3. CASE Runtime
  BY <1>1, <1>3 DEF Runtime, Draw, Tick, Event, SocketClose, SocketOpen, screen
<1>4. CASE Change
  BY <1>4 DEF Change, Versions, screen
<1>5. CASE Answer
  BY <1>1, <1>5 DEF Answer, screen
<1>6. CASE Deliver
  BY <1>1, <1>6 DEF Deliver, Restart, screen
<1>7. CASE UNCHANGED vars
  BY <1>1, <1>7 DEF vars, screen
<1> QED
  BY <1>2, <1>3, <1>4, <1>5, <1>6, <1>7 DEF Next, Server

LEMMA NextVersions ==
  ReqsOK /\ UniqueIds /\ Versions /\ [Next]_vars => Versions'
<1> SUFFICES ASSUME ReqsOK, UniqueIds, Versions, [Next]_vars
             PROVE  Versions'
  OBVIOUS
<1>1. /\ srv' = [ver |-> srv'.ver, n |-> srv'.n]
      /\ srv'.ver \in Nat \ {0} /\ srv'.ver >= srv.ver /\ srv.ver \in Nat \ {0}
      /\ res' = res
  BY NextServer DEF Versions
<1>2. IsStore(store) /\ IsStore(store')
  BY NextStore DEF Versions, Harmless
\* Requests: each was there, is new and not answered, or is answered now.
<1>3. ASSUME NEW r \in reqs', Answered(r)
      PROVE  \/ r \in reqs
             \/ r.answer.ver = srv.ver
  <2>1. CASE Calm
    BY <2>1 DEF Calm
  <2>2. CASE AskedNow
    <3>1. PICK q : reqs' = reqs \cup {q} /\ q.answer = None
      BY <2>2, AskReqs DEF AskedNow
    <3> QED
      BY <1>3, <3>1 DEF Answered
  <2>3. CASE Answer
    <3>0. PICK t \in reqs : \E q, a :
            /\ reqs' = (reqs \ {t}) \cup {q} /\ q.answer = a
            /\ a = AnswerTo(t) \/ DOMAIN a = {"failed"}
      BY <2>3, AnswerReqs
    <3>1. PICK q, a :
            /\ reqs' = (reqs \ {t}) \cup {q} /\ q.answer = a
            /\ a = AnswerTo(t) \/ DOMAIN a = {"failed"}
      BY <3>0
    <3>2. CASE a = AnswerTo(t)
      BY <3>1, <3>2 DEF AnswerTo
    <3>3. CASE DOMAIN a = {"failed"}
      BY <1>3, <3>1, <3>3 DEF Answered, Failed
    <3> QED
      BY <3>1, <3>2, <3>3
  <2>4. CASE Deliver
    BY <2>4 DEF Deliver, Restart, Settle
  <2> QED
    BY <2>1, <2>2, <2>3, <2>4, Kinds
<1>4. \A r \in reqs' : Answered(r) => r.answer.ver \in 1..srv'.ver
  <2> SUFFICES ASSUME NEW r \in reqs', Answered(r)
               PROVE  r.answer.ver \in 1..srv'.ver
    OBVIOUS
  <2>1. CASE r \in reqs
    BY <1>1, <2>1 DEF Versions
  <2>2. CASE r.answer.ver = srv.ver
    BY <1>1, <2>2
  <2> QED
    BY <1>3, <2>1, <2>2
<1>5. store'.items # None => store'.items.ver \in 0..srv'.ver
  <2>1. CASE Harmless
    BY <1>1, <2>1 DEF Harmless, Versions
  <2>2. ASSUME NEW r \in reqs, Answered(r), store'.items = r.answer
        PROVE  store'.items.ver \in 0..srv'.ver
    BY <1>1, <2>2 DEF Versions
  <2> QED
    BY <1>2, <2>1, <2>2, NextStore DEF Answered
<1>6. ASSUME res.sync.guarded, store'.items # None,
             NEW r \in reqs', r.id = syncId', Answered(r)
      PROVE  store'.items.ver <= r.answer.ver
  <2>1. CASE store'.items.ver = 0
    BY <1>1, <1>4, <1>6, <2>1
  <2>2. CASE store'.items = store.items
    <3>1. CASE r.answer.ver = srv.ver
      BY <1>6, <2>2, <3>1 DEF Versions
    <3>2. CASE r \in reqs /\ r.answer.ver # srv.ver
      <4>1. r.id \in 1..MaxRequests
        BY <3>2 DEF ReqsOK, IsRequest
      <4>2. CASE syncId' = syncId
        BY <1>6, <2>2, <3>2, <4>2 DEF Versions
      <4>3. CASE Calm
        BY <1>6, <4>1, <4>2, <4>3, ConstantsAssumption DEF Calm
      <4>4. CASE AskedNow
        <5>1. PICK q : syncId' = q.id /\ \A t \in reqs : t.id # q.id
          BY <4>4, AskReqs DEF AskedNow
        <5> QED
          BY <1>6, <3>2, <5>1
      <4>5. CASE Answer
        BY <4>2, <4>5 DEF Answer
      <4>6. CASE Deliver
        <5>1. CASE Restart
          BY <1>6, <5>1 DEF Restart
        <5>2. CASE ~Restart
          BY <4>2, <4>6, <5>2 DEF Deliver
        <5> QED
          BY <5>1, <5>2
      <4> QED
        BY <4>3, <4>4, <4>5, <4>6, Kinds
    <3> QED
      BY <1>3, <1>6, <3>1, <3>2
  <2>3. ASSUME NEW t \in reqs, Counts(t), Settle(t), UNCHANGED <<screen, syncId, srv>>
        PROVE  store'.items.ver <= r.answer.ver
    <3>1. t.id = syncId /\ r \in reqs /\ r # t /\ syncId' = syncId
      BY <1>6, <2>3 DEF Counts, Settle
    <3> QED
      BY <1>6, <3>1 DEF UniqueIds
  <2> QED
    BY <1>2, <1>6, <2>1, <2>2, <2>3, NextStore DEF Harmless, Versions
<1> QED
  BY <1>1, <1>2, <1>4, <1>5, <1>6 DEF Versions, Answered, Failed

LEMMA StepNeverOlder ==
  ASSUME ReqsOK, Versions, [Next]_vars, res.sync.guarded,
         store.items # None, store'.items # None, store'.items.ver # 0
  PROVE  store'.items.ver >= store.items.ver
<1>1. store.items.ver \in Nat
  BY DEF Versions
<1>2. CASE Harmless
  BY <1>1, <1>2 DEF Harmless
<1>3. ASSUME NEW r \in reqs, Answered(r), Counts(r), store'.items = r.answer
      PROVE  store'.items.ver >= store.items.ver
  <2>1. r.id = syncId
    BY <1>3 DEF Counts
  <2>2. store.items.ver <= r.answer.ver /\ r.answer.ver \in Nat
    BY <1>3, <2>1 DEF Versions
  <2> QED
    BY <1>1, <1>3, <2>2
<1> QED
  BY <1>2, <1>3, NextStore DEF Answered, Versions
-----------------------------------------------------------------------------
LEMMA Invariance == Spec => []IInv
<1>1. IInv /\ [Next]_vars => IInv'
  BY NextReqs, NextRefreshEnds, NextVersions DEF IInv
<1> QED
  BY InitIInv, <1>1, PTL DEF Spec

\* The progress bar moves exactly while a request that shows it is in flight
\* (Loader.loading and done around every request of the actions).
THEOREM ProgressShown == Spec => []SpinsWhileAsking
BY Invariance, PTL DEF IInv

\* A refresh button that is disabled waits for a request of its own (refresh
\* in Main, resolved by every callback, a stale one too).
THEOREM RefreshComesBack == Spec => []RefreshEnds
BY Invariance, PTL DEF IInv

\* Where the actions test syncId, rows are never replaced by rows the server
\* had before them, in whatever order the answers come.
THEOREM RowsNeverOlder == Spec => NeverOlder
<1>1. IInv /\ [Next]_vars
        => [res.sync.guarded /\ store.items # None /\ store'.items # None
              /\ store'.items.ver # 0
              => store'.items.ver >= store.items.ver]_vars
  BY StepNeverOlder DEF IInv
<1> QED
  BY Invariance, <1>1, PTL DEF Spec, NeverOlder

-----------------------------------------------------------------------------
(* Lists.                                                                  *)

Wanted(of) == of \in Owners \cup {"all"}

\* The page on the screen is of something the resource is about.
ScreenOK ==
    /\ res \in Resources /\ console \in res.consoles /\ org \in Owners
    /\ \/ page = None
       \/ page = "new" /\ ~res.sync.guarded
       \/ page \in Subjects

\* Rows in the store are those of a page the server has.
LastPage(n) == IF n = res.store.pageCount THEN 0 ELSE n \div res.store.pageCount
RowsOK(items, count) ==
    /\ items.count = count /\ items.page \in Nat
    /\ res.store.paged => items.page <= LastPage(count)
    /\ \/ Wanted(items.of)
       \/ items.of = "new" /\ ~res.sync.guarded
       \/ items.of = None /\ res.sync.of = "pick"
StoreOK ==
    /\ IsStore(store) /\ store.count \in Nat /\ store.page \in Nat
    /\ store.items # None => RowsOK(store.items, store.count)

\* An answer is to the question of its request.
Answers(a, r) ==
    /\ a.of = r.of /\ a.filter = r.filter /\ a.count \in Nat
    /\ a.page = ServedPage(a.count, r.page)
AnswersOK ==
    \A r \in reqs :
        Wanted(r.of) /\ r.page \in Nat /\ (Answered(r) => Answers(r.answer, r))

\* The last request asks what the screen would ask for now; once it has been
\* answered no other one counts.
LastOK ==
    res.sync.of # "user" =>
        /\ page # None => \A r \in reqs : r.id = syncId =>
             r.of = page /\ r.filter = store.filter /\ r.page = store.page
        /\ kept => \A r \in reqs : r.id # syncId

ListInv ==
    /\ IInv /\ ScreenOK /\ srv.n \in Nat /\ kept \in BOOLEAN
    /\ StoreOK /\ AnswersOK /\ LastOK /\ FreshList

\* The number of pages is no less than what the server makes of the count.
LEMMA PagesEnough ==
  ASSUME NEW n \in Nat, NEW c \in Nat \ {0}
  PROVE  /\ (n + c - 1) \div c \in Nat /\ n \div c \in Nat
         /\ n \div c <= (n + c - 1) \div c
         /\ n \div c >= 1 => n >= c
         /\ n > c => (n + c - 1) \div c > 1
<1>1. (n + c - 1) \div c \in Nat
  <2>1. n + c - 1 \in Nat
    OBVIOUS
  <2> QED
    BY <2>1
<1>2. n \div c \in Nat
  OBVIOUS
<1>3. n \div c <= (n + c - 1) \div c
  OBVIOUS
<1>4. n \div c >= 1 => n >= c
  OBVIOUS
<1>5. n > c => (n + c - 1) \div c > 1
  OBVIOUS
<1> QED
  BY <1>1, <1>2, <1>3, <1>4, <1>5

LEMMA PageCount ==
  ASSUME ScreenOK
  PROVE  res.store.pageCount \in Nat \ {0}
BY ResourcesAssumption DEF ScreenOK

LEMMA TraversePage ==
  ASSUME ScreenOK, NEW s, IsStore(s), s.count \in Nat, NEW p \in Nat
  PROVE  LET t == TraverseTo(res.store, s, p)
         IN  /\ IsStore(t) /\ t.items = s.items /\ t.count = s.count
             /\ t.filter = s.filter /\ t.page \in Nat
<1> DEFINE n == AtMost(Pages(res.store, s), p)
<1>1. n \in Nat
  <2>1. Pages(res.store, s) \in Nat
    BY PageCount, PagesEnough DEF Pages
  <2> QED
    BY <2>1 DEF AtMost
<1>2. TraverseTo(res.store, s, p) = [s EXCEPT !.page = n]
  BY DEF TraverseTo
<1> HIDE DEF n
<1> QED
  BY <1>1, <1>2 DEF IsStore

LEMMA FilterPage ==
  ASSUME ScreenOK, NEW s, IsStore(s), s.count \in Nat, s.page \in Nat, NEW f
  PROVE  LET t == FilterBy(res.store, s, f)
         IN  /\ IsStore(t) /\ t.items = s.items /\ t.count = s.count
             /\ t.filter = f /\ t.page \in Nat
<1> DEFINE u == IF ResetsPage(res.store, s.filter, f) THEN TraverseTo(res.store, s, 0) ELSE s
<1>1. IsStore(u) /\ u.items = s.items /\ u.count = s.count /\ u.page \in Nat
  BY TraversePage
<1>2. FilterBy(res.store, s, f) = [u EXCEPT !.filter = f]
  BY DEF FilterBy
<1> HIDE DEF u
<1> QED
  BY <1>1, <1>2 DEF IsStore

\* The page an answer is of is the page the server would answer with for the
\* page the store then has.
LEMMA SyncedPage ==
  ASSUME ScreenOK, NEW s, IsStore(s), s.page \in Nat, NEW a, a.count \in Nat
  PROVE  LET t == Synced(res.store, s, a)
         IN  /\ IsStore(t) /\ t.items = a /\ t.count = a.count /\ t.filter = s.filter
             /\ t.page \in Nat
             /\ ServedPage(a.count, s.page) = ServedPage(t.count, t.page)
<1> DEFINE u == [s EXCEPT !.items = a, !.count = a.count]
           n == AtMost(Pages(res.store, u), s.page)
           c == res.store.pageCount
<1>1. IsStore(u) /\ u.items = a /\ u.count = a.count /\ u.filter = s.filter /\ u.page = s.page
  <2> DEFINE k == a.count
             v == [s EXCEPT !.items = a]
  <2>1. IsStore(v) /\ v.items = a /\ v.filter = s.filter /\ v.page = s.page
    BY DEF IsStore
  <2>2. u = [v EXCEPT !.count = k]
    OBVIOUS
  <2> HIDE DEF k, v
  <2>3. LET w == [v EXCEPT !.count = k]
        IN  IsStore(w) /\ w.items = a /\ w.count = k /\ w.filter = s.filter /\ w.page = s.page
    BY <2>1 DEF IsStore
  <2> QED
    BY <2>2, <2>3 DEF k
<1>2. c \in Nat \ {0}
  BY PageCount
<1>3. /\ Pages(res.store, u) \in Nat /\ a.count \div c \in Nat
      /\ a.count \div c <= Pages(res.store, u)
  BY <1>1, <1>2, PagesEnough DEF Pages
<1>4. Synced(res.store, s, a) = IF res.store.paged THEN [u EXCEPT !.page = n] ELSE u
  BY DEF Synced
<1> HIDE DEF u
<1>5. n \in Nat /\ AtMost(n, LastPage(a.count)) = AtMost(s.page, LastPage(a.count))
  BY <1>3 DEF AtMost, LastPage
<1> HIDE DEF n
<1>6. CASE res.store.paged
  <2>1. LET t == [u EXCEPT !.page = n]
        IN  /\ IsStore(t) /\ t.items = a /\ t.count = a.count /\ t.filter = s.filter
            /\ t.page = n
    BY <1>1 DEF IsStore
  <2>2. \A k, p : ServedPage(k, p) = AtMost(p, LastPage(k))
    BY <1>6 DEF ServedPage, LastPage
  <2>3. ServedPage(a.count, s.page) = ServedPage(a.count, n)
    BY <1>5, <2>2
  <2> QED
    BY <1>4, <1>5, <1>6, <2>1, <2>3
<1>7. CASE ~res.store.paged
  BY <1>1, <1>4, <1>7 DEF ServedPage
<1> QED
  BY <1>6, <1>7

(* What a step does to a list.                                             *)

\* It requests what the screen is of, with the page and filter it has now;
Asks ==
    \E of, st : \E quiet, refresh \in BOOLEAN :
        /\ Ask(of, st, quiet, refresh) /\ Wanted(of)
        /\ page' # None /\ res.sync.of # "user" => page' = of
        /\ store' = st
        /\ IsStore(st) /\ st.items = store.items /\ st.count = store.count
        /\ st.page \in Nat

\* it puts nobody's rows into a store no list is shown of;
Puts ==
    \E of :
        /\ PutNobodys(of)
        /\ page' = None \/ res.sync.of = "user"
        /\ \/ of = "new" /\ ~res.sync.guarded
           \/ of = None /\ res.sync.of = "pick"

\* or it leaves the list on the screen alone.
Idles ==
    /\ UNCHANGED reqs /\ syncId' \in {syncId, 0}
    /\ kept' = kept \/ kept' = FALSE
    /\ IsStore(store') /\ store'.count \in Nat /\ store'.page \in Nat
    /\ \/ store'.items = None
       \/ store'.items = store.items /\ store'.count = store.count
    /\ page' = None \/ res.sync.of = "user" \/ UNCHANGED <<page, store>>

LEMMA PageWanted ==
  ASSUME ScreenOK, page # None, page # "new" \/ res.sync.guarded
  PROVE  Wanted(page) /\ (res.sync.of = "org" => page = org) /\ (res.sync.of = "all" => page = "all")
<1>1. page \in Subjects
  BY DEF ScreenOK
<1> QED
  BY <1>1 DEF Subjects, Wanted, ScreenOK

LEMMA KnownWanted ==
  ASSUME ScreenOK, StoreOK
  PROVE  /\ Known \notin {None, "new"} => Wanted(Known)
         /\ Known \in {None, "new"} => res.sync.of = "user"
         /\ Known = "new" => ~res.sync.guarded
<1>1. CASE res.sync.of = "user"
  <2>1. Known = IF store.items = None THEN None ELSE store.items.of
    BY <1>1 DEF Known
  <2>2. store.items # None =>
          Wanted(store.items.of) \/ (store.items.of = "new" /\ ~res.sync.guarded)
    BY <1>1 DEF StoreOK, RowsOK
  <2>3. None # "new" /\ ~Wanted("new") /\ ~Wanted(None)
    BY ConstantsAssumption DEF Wanted
  <2> QED
    BY <1>1, <2>1, <2>2, <2>3
<1>2. CASE res.sync.of # "user"
  <2>1. org \in Owners /\ Known \in {org, "all"}
    BY <1>2 DEF Known, ScreenOK
  <2>2. org # None /\ org # "new" /\ "all" # None
    BY <2>1, ConstantsAssumption
  <2> QED
    BY <1>2, <2>1, <2>2 DEF Wanted
<1> QED
  BY <1>1, <1>2

\* A step that leaves the store and the requests alone.
LEMMA NothingIdles ==
  ASSUME StoreOK, UNCHANGED <<store, reqs, syncId, kept>>,
         page' = None \/ res.sync.of = "user" \/ page' = page
  PROVE  Idles
BY DEF Idles, StoreOK

LEMMA ReloadList ==
  ASSUME ScreenOK, StoreOK, NEW refresh \in BOOLEAN, Reload(refresh), page' = page,
         res.sync.of # "pick"
  PROVE  Asks \/ Puts \/ Idles
<1>1. CASE Known \notin {None, "new"}
  <2>1. Ask(Known, store, FALSE, refresh) /\ store' = store
    BY <1>1 DEF Reload
  <2>2. page # None /\ res.sync.of # "user" => page = Known
    <3>1. res.sync.of \in {"all", "org", "user", "pick"}
      BY ResourcesAssumption DEF ScreenOK
    <3>2. res.sync.of # "user" => res.sync.guarded
      BY ResourcesAssumption DEF ScreenOK
    <3> QED
      BY <3>1, <3>2, PageWanted DEF Known
  <2>3. Wanted(Known)
    BY <1>1, KnownWanted
  <2> QED
    BY <2>1, <2>2, <2>3 DEF Asks, StoreOK
<1>2. CASE Known \in {None, "new"} /\ res.sync.guarded
  <2>1. UNCHANGED store /\ NoRequest
    BY <1>2 DEF Reload
  <2> QED
    BY <2>1, NothingIdles DEF NoRequest, asking
<1>3. CASE Known \in {None, "new"} /\ ~res.sync.guarded
  <2>1. PutNobodys("new") /\ res.sync.of = "user"
    BY <1>3, KnownWanted DEF Reload
  <2> QED
    BY <1>3, <2>1 DEF Puts
<1> QED
  BY <1>1, <1>2, <1>3

\* No link leads before the first page.
LEMMA TargetsNat ==
  ASSUME ScreenOK, res.page # None, NEW l, l.page \in Nat, l.pages \in Nat, l.pages > 1
  PROVE  Targets(l) \subseteq Nat
<1> DEFINE start == AtLeast(0, l.page - res.page.before)
           end == AtMost(l.pages, start + res.page.all)
<1>1. res.page.before \in Nat /\ res.page.all \in Nat
  BY ResourcesAssumption DEF ScreenOK
<1>2. start \in Nat /\ end \in Int
  BY <1>1 DEF AtLeast, AtMost
<1>3. Targets(l) = (start..end - 1)
          \cup (IF l.page = 0 THEN {} ELSE {0, l.page - 1})
          \cup (IF l.page = l.pages - 1 THEN {}
                ELSE {l.pages - 1, AtMost(l.pages - 1, l.page + 1)})
  BY DEF Targets
<1> HIDE DEF start, end
<1> QED
  BY <1>2, <1>3 DEF AtMost

LinksOK ==
    /\ links = [page |-> links.page, pages |-> links.pages, due |-> links.due]
    /\ links.page \in Nat /\ links.pages \in Nat /\ links.due \in BOOLEAN

LEMMA ListKinds ==
  ASSUME ScreenOK, StoreOK, LinksOK, kept \in BOOLEAN, [Next]_vars
  PROVE  Asks \/ Puts \/ Idles \/ Answer \/ Deliver
<1>0. /\ ~res.sync.guarded =>
            /\ res.sync.of = "user" /\ res.page = None /\ ~res.filters
            /\ ~res.polls /\ ~res.sync.rewound
      /\ res.sync.of = "pick" => res.sync.events = {} /\ ~res.sync.button
      /\ Subjects \subseteq Owners \cup {"all"}
  BY ResourcesAssumption DEF ScreenOK, Subjects
<1>a. /\ IsStore(store) /\ store.count \in Nat /\ store.page \in Nat
  BY DEF StoreOK
<1>1. CASE Mount
  <2>1. PICK of \in Subjects : page' = of /\ Ask(of, store, FALSE, FALSE)
    BY <1>1 DEF Mount
  <2>2. store' = store
    BY <1>1 DEF Mount
  <2> QED
    BY <1>0, <1>a, <2>1, <2>2 DEF Asks, Wanted
<1>2. CASE MountNew
  <2>1. PutNobodys("new") /\ res.sync.of = "user" /\ ~res.sync.guarded
    BY <1>2 DEF MountNew
  <2> QED
    BY <2>1 DEF Puts
<1>3. CASE Unmount
  <2>1. page' = None /\ UNCHANGED <<reqs, syncId, kept>>
    BY <1>3 DEF Unmount, NoRequest, asking
  <2>2. CASE res.sync.guarded
    BY <1>3, <2>1, <2>2, NothingIdles DEF Unmount
  <2>3. CASE ~res.sync.guarded
    <3>1. store' = [store EXCEPT !.items = None]
      BY <1>3, <2>3 DEF Unmount
    <3>2. /\ IsStore(store') /\ store'.count = store.count
          /\ store'.page = store.page /\ store'.items = None
      BY <1>a, <3>1 DEF IsStore
    <3> QED
      BY <1>a, <2>1, <3>2 DEF Idles
  <2> QED
    BY <2>2, <2>3
<1>4. CASE Pick
  <2>1. CASE page' = None /\ PutNobodys(None)
    BY <1>4, <2>1 DEF Pick, Puts
  <2>2. CASE store' = store /\ \E of \in Owners : page' = of /\ Ask(of, store, FALSE, FALSE)
    <3>1. PICK of \in Owners : page' = of /\ Ask(of, store, FALSE, FALSE)
      BY <2>2
    <3> QED
      BY <1>a, <2>2, <3>1 DEF Asks, Wanted
  <2> QED
    BY <1>4, <2>1, <2>2 DEF Pick
<1>5. CASE Rewind
  <2> DEFINE st == TraverseTo(res.store, store, 0)
  <2>1. /\ store' = st /\ page' = None /\ res.sync.guarded
        /\ IF Known = None THEN NoRequest ELSE Ask(Known, st, FALSE, FALSE)
    BY <1>0, <1>5 DEF Rewind, screen
  <2>2. /\ IsStore(st) /\ st.items = store.items /\ st.count = store.count
        /\ st.page \in Nat
    BY <1>a, TraversePage
  <2> HIDE DEF st
  <2>3. CASE Known = None
    BY <1>a, <2>1, <2>2, <2>3 DEF NoRequest, asking, Idles
  <2>4. CASE Known # None
    <3>1. Wanted(Known)
      BY <2>1, <2>4, KnownWanted
    <3> QED
      BY <2>1, <2>2, <2>4, <3>1 DEF Asks
  <2> QED
    BY <2>3, <2>4
<1>6. CASE Turn
  <2>1. PICK p \in Targets(links) :
          LET st == TraverseTo(res.store, store, p)
              of == IF res.sync.of = "user" THEN Known ELSE page
          IN  /\ store' = st
              /\ IF of = None THEN NoRequest ELSE Ask(of, st, FALSE, FALSE)
    BY <1>6 DEF Turn
  <2> DEFINE st == TraverseTo(res.store, store, p)
             of == IF res.sync.of = "user" THEN Known ELSE page
  <2>2. page # None /\ page' = page /\ res.page # None /\ res.sync.guarded
    BY <1>0, <1>6 DEF Turn, screen
  <2>3. p \in Nat
    BY <1>6, TargetsNat DEF Turn, LinksOK
  <2>4. /\ IsStore(st) /\ st.items = store.items /\ st.count = store.count
        /\ st.page \in Nat
    BY <1>a, <2>3, TraversePage
  <2>5. of # None => Wanted(of)
    BY <2>2, PageWanted, KnownWanted
  <2>6. store' = st /\ IF of = None THEN NoRequest ELSE Ask(of, st, FALSE, FALSE)
    BY <2>1
  <2>7. /\ of = None => res.sync.of = "user"
        /\ res.sync.of # "user" => of = page
    BY <2>2
  <2> HIDE DEF st, of
  <2>8. CASE of = None
    BY <1>a, <2>4, <2>6, <2>7, <2>8 DEF NoRequest, asking, Idles
  <2>9. CASE of # None
    BY <2>2, <2>4, <2>5, <2>6, <2>7, <2>9 DEF Asks
  <2> QED
    BY <2>8, <2>9
<1>7. CASE Filter
  <2>1. PICK f : /\ store' = FilterBy(res.store, store, f)
                 /\ Ask(page, FilterBy(res.store, store, f), FALSE, FALSE)
    BY <1>7 DEF Filter
  <2>2. page # None /\ page' = page /\ res.sync.guarded
    BY <1>0, <1>7 DEF Filter, screen
  <2> DEFINE st == FilterBy(res.store, store, f)
  <2>3. /\ IsStore(st) /\ st.items = store.items /\ st.count = store.count
        /\ st.page \in Nat
    BY <1>a, FilterPage
  <2>4. Wanted(page)
    BY <2>2, PageWanted
  <2> QED
    BY <2>1, <2>2, <2>3, <2>4 DEF Asks
<1>8. CASE SwitchOrg
  <2>1. /\ store' = Cleared(res.store, store) /\ page' = None
        /\ kept' = (kept /\ ~res.store.clears) /\ UNCHANGED <<reqs, syncId>>
    BY <1>8 DEF SwitchOrg, asking
  <2>2. IsStore(EmptyStore) /\ EmptyStore.items = None /\ EmptyStore.count = 0
        /\ EmptyStore.page = 0
    BY DEF EmptyStore, IsStore
  <2>3. /\ IsStore(store') /\ store'.count \in Nat /\ store'.page \in Nat
        /\ store'.items = None \/ store' = store
    BY <1>a, <2>1, <2>2 DEF Cleared
  <2> QED
    BY <2>1, <2>3 DEF Idles
<1>9. CASE Refresh
  BY <1>0, <1>9, ReloadList DEF Refresh, screen
<1>10. CASE Rival
  BY <1>a, <1>10 DEF Rival, screen, Idles
<1>11. CASE Draw \/ SocketClose \/ SocketOpen \/ Change
  BY <1>11, NothingIdles DEF Draw, SocketClose, SocketOpen, Change, screen, asking
<1>12. CASE Tick
  <2>1. Ask(page, store, TRUE, FALSE) /\ store' = store /\ page' = page
    BY <1>12 DEF Tick, screen
  <2>2. Wanted(page)
    BY <1>0, <1>12, PageWanted DEF Tick
  <2> QED
    BY <1>a, <2>1, <2>2 DEF Asks
<1>13. CASE Event
  <2>1. page' = page
    BY <1>13 DEF Event, screen
  <2>2. CASE console \in res.sync.events
    BY <1>0, <1>13, <2>1, <2>2, ReloadList DEF Event
  <2>3. CASE console \notin res.sync.events
    BY <1>13, <2>1, <2>3, NothingIdles DEF Event, NoRequest, asking
  <2> QED
    BY <2>2, <2>3
<1>14. CASE UNCHANGED vars
  BY <1>14, NothingIdles DEF vars, screen, asking
<1> QED
  BY <1>1, <1>2, <1>3, <1>4, <1>5, <1>6, <1>7, <1>8, <1>9, <1>10, <1>11, <1>12, <1>13, <1>14
     DEF Next, User, Runtime, Server

\* The question a request asks is that of the store it was made with, and
\* stays the same when it is answered.
LEMMA AskQuestion ==
  ASSUME ReqsOK, NEW of, NEW st, NEW quiet \in BOOLEAN,
         NEW refresh \in BOOLEAN, Ask(of, st, quiet, refresh)
  PROVE  \E q : /\ q.answer = None /\ q.of = of /\ q.filter = st.filter /\ q.page = st.page
                /\ reqs' = reqs \cup {q} /\ syncId' = q.id
                /\ \A r \in reqs : r.id # q.id
<1> DEFINE q == [id |-> FreshId, of |-> of, filter |-> st.filter, page |-> st.page,
                 quiet |-> quiet, refresh |-> refresh, answer |-> None]
<1>1. \A r \in reqs : r.id # FreshId
  BY FreshIdIsFresh DEF Ask
<1>2. /\ q.id = FreshId /\ q.answer = None
      /\ q.of = of /\ q.filter = st.filter /\ q.page = st.page
  OBVIOUS
<1>3. reqs' = reqs \cup {q} /\ syncId' = FreshId
  BY DEF Ask
<1> HIDE DEF q
<1> QED
  BY <1>1, <1>2, <1>3

LEMMA AnswerQuestion ==
  ASSUME ReqsOK, Answer
  PROVE  \E r \in reqs : \E q :
           /\ reqs' = (reqs \ {r}) \cup {q} /\ q.id = r.id
           /\ q.of = r.of /\ q.filter = r.filter /\ q.page = r.page
           /\ q.answer = AnswerTo(r) \/ DOMAIN q.answer = {"failed"}
<1>1. PICK r \in reqs, out \in Outcomes :
        reqs' = (reqs \ {r}) \cup
                  {[r EXCEPT !.answer = IF out = "ok" THEN AnswerTo(r)
                                        ELSE [failed |-> out]]}
  BY DEF Answer
<1> DEFINE a == IF out = "ok" THEN AnswerTo(r) ELSE [failed |-> out]
           q == [r EXCEPT !.answer = a]
<1>2. IsRequest(r)
  BY DEF ReqsOK
<1>3. a = AnswerTo(r) \/ DOMAIN a = {"failed"}
  OBVIOUS
<1> HIDE DEF a
<1>4. /\ q.id = r.id /\ q.answer = a
      /\ q.of = r.of /\ q.filter = r.filter /\ q.page = r.page
  BY <1>2 DEF IsRequest
<1>5. reqs' = (reqs \ {r}) \cup {q}
  BY <1>1 DEF a
<1> HIDE DEF q
<1> QED
  BY <1>3, <1>4, <1>5

LEMMA NextScreen ==
  ASSUME ScreenOK, Versions, [Next]_vars
  PROVE  ScreenOK'
<1>0. res' = res
  BY NextServer
<1>1. CASE UNCHANGED <<page, org, console>>
  BY <1>0, <1>1 DEF ScreenOK, Subjects
<1>2. CASE page' = None /\ console' = console /\ org' \in Owners
  BY <1>0, <1>2 DEF ScreenOK
<1>3. CASE page' = "new" /\ ~res.sync.guarded /\ UNCHANGED <<org, console>>
  BY <1>0, <1>3 DEF ScreenOK
<1>4. CASE page' \in Subjects /\ UNCHANGED <<org, console>>
  BY <1>0, <1>4 DEF ScreenOK, Subjects
<1>5. CASE Mount
  BY <1>4, <1>5 DEF Mount
<1>6. CASE MountNew
  BY <1>3, <1>6 DEF MountNew
<1>7. CASE Unmount \/ SwitchOrg
  BY <1>2, <1>7 DEF Unmount, SwitchOrg, ScreenOK
<1>8. CASE Pick
  <2>1. Subjects = Owners
    BY <1>8 DEF Pick, Subjects
  <2> QED
    BY <1>2, <1>4, <1>8, <2>1 DEF Pick, ScreenOK
<1>9. CASE Rewind \/ Turn \/ Filter \/ Refresh \/ Rival \/ Runtime \/ Server
  BY <1>1, <1>9 DEF Rewind, Turn, Filter, Refresh, Rival, Runtime, Draw, Tick, Event,
                    SocketClose, SocketOpen, Server, Change, Answer, screen
<1>10. CASE Deliver
  BY <1>1, <1>2, <1>10 DEF Deliver, Restart, ScreenOK, screen
<1>11. CASE UNCHANGED vars
  BY <1>1, <1>11 DEF vars, screen
<1> QED
  BY <1>5, <1>6, <1>7, <1>8, <1>9, <1>10, <1>11 DEF Next, User

LEMMA NextRowCount ==
  ASSUME ScreenOK, srv.n \in Nat, [Next]_vars
  PROVE  srv'.n \in Nat
<1>1. CASE UNCHANGED srv
  BY <1>1
<1>2. CASE Change
  <2>1. PICK rc \in Rows : srv' = [ver |-> srv.ver + 1, n |-> Count(rc)]
    BY <1>2 DEF Change
  <2>2. rc[1] \in Nat /\ rc[2] \in Nat /\ res.store.pageCount \in Nat
    BY ConstantsAssumption, PageCount
  <2>3. rc[1] * res.store.pageCount \in Nat
    BY <2>2
  <2> QED
    BY <2>1, <2>2, <2>3 DEF Count
<1>3. CASE User \/ Runtime \/ Answer \/ Deliver
  BY <1>1, <1>3 DEF User, Mount, MountNew, Unmount, Pick, Rewind, Turn, Filter,
              SwitchOrg, Refresh, Rival, Runtime, Draw, Tick, Event, SocketClose,
              SocketOpen, Answer, Deliver
<1> QED
  BY <1>1, <1>2, <1>3 DEF Next, Server, vars

LEMMA AsksList ==
  ASSUME ListInv, Asks, res' = res
  PROVE  (kept \in BOOLEAN /\ StoreOK /\ AnswersOK /\ LastOK /\ FreshList)'
<1>1. PICK of, st : \E quiet, refresh \in BOOLEAN :
        /\ Ask(of, st, quiet, refresh) /\ Wanted(of)
        /\ page' # None /\ res.sync.of # "user" => page' = of
        /\ store' = st
        /\ IsStore(st) /\ st.items = store.items /\ st.count = store.count
        /\ st.page \in Nat
  BY DEF Asks
<1>2. PICK quiet \in BOOLEAN, refresh \in BOOLEAN : Ask(of, st, quiet, refresh)
  BY <1>1
<1>3. PICK q : /\ q.answer = None /\ q.of = of /\ q.filter = st.filter /\ q.page = st.page
               /\ reqs' = reqs \cup {q} /\ syncId' = q.id
               /\ \A r \in reqs : r.id # q.id
  BY <1>2, AskQuestion DEF ListInv, IInv
<1>4. kept' = FALSE
  BY <1>2 DEF Ask
<1>5. StoreOK'
  BY <1>1 DEF ListInv, StoreOK, RowsOK, LastPage, Wanted
<1>6. AnswersOK'
  <2> SUFFICES ASSUME NEW r \in reqs'
               PROVE  Wanted(r.of) /\ r.page \in Nat /\ (Answered(r) => Answers(r.answer, r)')
    BY DEF AnswersOK, Wanted, Answered, Failed
  <2>1. CASE r \in reqs
    BY <2>1 DEF ListInv, AnswersOK, Answers, ServedPage
  <2>2. CASE r = q
    BY <1>1, <1>3, <2>2 DEF Answered
  <2> QED
    BY <1>3, <2>1, <2>2
<1>7. LastOK'
  BY <1>1, <1>3, <1>4 DEF LastOK
<1>8. FreshList'
  BY <1>4 DEF FreshList
<1> QED
  BY <1>4, <1>5, <1>6, <1>7, <1>8

LEMMA IdlesList ==
  ASSUME ListInv, Idles, res' = res
  PROVE  (kept \in BOOLEAN /\ StoreOK /\ AnswersOK /\ LastOK /\ FreshList)'
<1>0. kept \in BOOLEAN
  BY DEF ListInv
<1>1. kept' \in BOOLEAN /\ (kept' => kept)
  <2>1. CASE kept' = kept
    BY <1>0, <2>1
  <2>2. CASE kept' = FALSE
    BY <2>2
  <2> QED
    BY <2>1, <2>2 DEF Idles
<1>2. StoreOK'
  <2>1. /\ IsStore(store') /\ store'.count \in Nat /\ store'.page \in Nat
        /\ \/ store'.items = None
           \/ store'.items = store.items /\ store'.count = store.count
    BY DEF Idles
  <2>2. store'.items # None => RowsOK(store'.items, store'.count)
    BY <2>1 DEF ListInv, StoreOK
  <2>3. store'.items # None => RowsOK(store.items, store.count)'
    BY <2>2 DEF RowsOK, LastPage, Wanted
  <2> QED
    BY <2>1, <2>3 DEF StoreOK
<1>3. AnswersOK'
  BY DEF Idles, ListInv, AnswersOK, Answers, ServedPage, Wanted, Answered, Failed
<1>4. \A r \in reqs' : r \in reqs /\ (r.id = syncId' => r.id = syncId)
  <2>1. \A r \in reqs : r.id # 0
    BY ConstantsAssumption DEF ListInv, IInv, ReqsOK, IsRequest
  <2> QED
    BY <2>1 DEF Idles
<1>5. page' = None \/ res.sync.of = "user" \/ UNCHANGED <<page, store>>
  BY DEF Idles
<1>6. LastOK'
  BY <1>1, <1>4, <1>5 DEF LastOK, ListInv
<1>7. FreshList'
  BY <1>1, <1>5 DEF FreshList, ListInv, Asked, ServedPage
<1> QED
  BY <1>1, <1>2, <1>3, <1>6, <1>7

LEMMA PutsList ==
  ASSUME ListInv, Puts, res' = res
  PROVE  (kept \in BOOLEAN /\ StoreOK /\ AnswersOK /\ LastOK /\ FreshList)'
<1>1. PICK of : /\ PutNobodys(of)
                /\ page' = None \/ res.sync.of = "user"
                /\ \/ of = "new" /\ ~res.sync.guarded
                   \/ of = None /\ res.sync.of = "pick"
  BY DEF Puts
<1>2. /\ Nobodys(of).count = 0 /\ Nobodys(of).page = 0 /\ Nobodys(of).of = of
  BY DEF Nobodys
<1>3. store' = Synced(res.store, store, Nobodys(of)) /\ kept' = TRUE /\ syncId' = 0
      /\ reqs' = reqs
  BY <1>1 DEF PutNobodys
<1>4. /\ IsStore(store') /\ store'.items = Nobodys(of) /\ store'.count = 0
      /\ store'.page \in Nat
  BY <1>2, <1>3, SyncedPage DEF ListInv, StoreOK
<1>5. StoreOK'
  <2>1. 0 <= LastPage(0)
    BY PageCount, PagesEnough DEF LastPage, ListInv
  <2> QED
    BY <1>1, <1>2, <1>4, <2>1 DEF StoreOK, RowsOK, LastPage
<1>6. AnswersOK'
  BY <1>3 DEF ListInv, AnswersOK, Answers, ServedPage, Wanted, Answered, Failed
<1>7. \A r \in reqs' : r.id # syncId'
  BY <1>3, ConstantsAssumption DEF ListInv, IInv, ReqsOK, IsRequest
<1>8. LastOK'
  BY <1>1, <1>7 DEF LastOK
<1>9. FreshList'
  BY <1>1 DEF FreshList
<1> QED
  BY <1>3, <1>5, <1>6, <1>8, <1>9

LEMMA AnswerList ==
  ASSUME ListInv, Answer, res' = res
  PROVE  (kept \in BOOLEAN /\ StoreOK /\ AnswersOK /\ LastOK /\ FreshList)'
<1>1. PICK t \in reqs : \E q :
        /\ reqs' = (reqs \ {t}) \cup {q} /\ q.id = t.id
        /\ q.of = t.of /\ q.filter = t.filter /\ q.page = t.page
        /\ q.answer = AnswerTo(t) \/ DOMAIN q.answer = {"failed"}
  BY AnswerQuestion DEF ListInv, IInv
<1>2. PICK q :
        /\ reqs' = (reqs \ {t}) \cup {q} /\ q.id = t.id
        /\ q.of = t.of /\ q.filter = t.filter /\ q.page = t.page
        /\ q.answer = AnswerTo(t) \/ DOMAIN q.answer = {"failed"}
  BY <1>1
<1>3. UNCHANGED <<page, org, store, kept, syncId>>
  BY DEF Answer, screen
<1>4. kept' \in BOOLEAN /\ StoreOK' /\ FreshList'
  BY <1>3 DEF ListInv, StoreOK, RowsOK, LastPage, Wanted, FreshList, Asked, ServedPage
<1>5. Answered(q) => Answers(q.answer, q)
  <2>1. CASE q.answer = AnswerTo(t)
    <3>1. Matching(t.filter) \in Nat
      BY DEF Matching, ListInv
    <3>2. /\ q.answer.of = t.of /\ q.answer.filter = t.filter
          /\ q.answer.count = Matching(t.filter)
          /\ q.answer.page = ServedPage(Matching(t.filter), t.page)
      BY <2>1 DEF AnswerTo
    <3> QED
      BY <1>2, <3>1, <3>2 DEF Answers
  <2>2. CASE DOMAIN q.answer = {"failed"}
    BY <2>2 DEF Answered, Failed
  <2> QED
    BY <1>2, <2>1, <2>2
<1>6. AnswersOK'
  <2> SUFFICES ASSUME NEW r \in reqs'
               PROVE  Wanted(r.of) /\ r.page \in Nat /\ (Answered(r) => Answers(r.answer, r)')
    BY DEF AnswersOK, Wanted, Answered, Failed
  <2>1. CASE r \in reqs
    BY <2>1 DEF ListInv, AnswersOK, Answers, ServedPage
  <2>2. CASE r = q
    BY <1>2, <1>5, <2>2 DEF ListInv, AnswersOK, Answers, ServedPage
  <2> QED
    BY <1>2, <2>1, <2>2
<1>7. LastOK'
  BY <1>2, <1>3 DEF LastOK, ListInv
<1> QED
  BY <1>4, <1>6, <1>7

LEMMA DeliverList ==
  ASSUME ListInv, Deliver, res' = res
  PROVE  (kept \in BOOLEAN /\ StoreOK /\ AnswersOK /\ LastOK /\ FreshList)'
<1>a. /\ ScreenOK /\ IsStore(store) /\ store.page \in Nat /\ UniqueIds
      /\ kept \in BOOLEAN
  BY DEF ListInv, StoreOK, IInv
<1>b. res.sync.of # "user" => res.sync.guarded
  BY <1>a, ResourcesAssumption DEF ScreenOK
<1>1. CASE Restart
  <2>1. /\ page' = None /\ store' = EmptyStore /\ kept' = FALSE /\ reqs' = {}
    BY <1>1 DEF Restart
  <2>2. StoreOK'
    BY <2>1 DEF StoreOK, EmptyStore, IsStore
  <2> QED
    BY <2>1, <2>2 DEF AnswersOK, LastOK, FreshList
<1>2. ASSUME NEW r \in reqs, r.answer # None, Settle(r), Take(r),
             UNCHANGED <<screen, syncId>>
      PROVE  (kept \in BOOLEAN /\ StoreOK /\ AnswersOK /\ LastOK /\ FreshList)'
  <2>1. /\ reqs' = reqs \ {r} /\ UNCHANGED <<page, org, syncId>>
    BY <1>2 DEF Settle, screen
  <2>2. AnswersOK'
    BY <2>1 DEF ListInv, AnswersOK, Answers, ServedPage, Wanted, Answered, Failed
  <2>3. Counts(r) /\ res.sync.of # "user" => r.id = syncId /\ ~kept
    BY <1>b DEF Counts, ListInv, LastOK
  <2>4. \A t \in reqs' : t \in reqs /\ t.id # r.id
    BY <1>a, <2>1 DEF UniqueIds
  <2>5. ASSUME NEW a, a.count \in Nat, a.page \in Nat,
               res.store.paged => a.page <= LastPage(a.count), Wanted(a.of),
               store' = Synced(res.store, store, a), Counts(r)
        PROVE  /\ StoreOK' /\ store'.items = a /\ store'.filter = store.filter
               /\ ServedPage(a.count, store.page) = ServedPage(store'.count, store'.page)
               /\ res.sync.of # "user" => \A t \in reqs' : t.id # syncId'
    <3>1. /\ IsStore(store') /\ store'.items = a /\ store'.count = a.count
          /\ store'.page \in Nat /\ store'.filter = store.filter
          /\ ServedPage(a.count, store.page) = ServedPage(store'.count, store'.page)
      BY <1>a, <2>5, SyncedPage
    <3>2. RowsOK(store'.items, store'.count)
      BY <2>5, <3>1 DEF RowsOK
    <3>3. RowsOK(store.items, store.count)'
      BY <3>2 DEF RowsOK, LastPage, Wanted
    <3>4. StoreOK'
      BY <2>5, <3>1, <3>3 DEF StoreOK
    <3>5. res.sync.of # "user" => \A t \in reqs' : t.id # syncId'
      BY <2>1, <2>3, <2>4, <2>5
    <3> QED
      BY <3>1, <3>4, <3>5
  <2>6. CASE Counts(r) /\ ~Failed(r)
    <3>1. store' = Synced(res.store, store, r.answer) /\ kept' = TRUE
      BY <1>2, <2>6 DEF Take
    <3>2. Answers(r.answer, r) /\ r.page \in Nat /\ Wanted(r.of)
      BY <1>2, <2>6 DEF ListInv, AnswersOK, Answered
    <3>3. /\ r.answer.page \in Nat
          /\ res.store.paged => r.answer.page <= LastPage(r.answer.count)
      <4>1. LastPage(r.answer.count) \in Nat
        BY <1>a, <3>2, PageCount, PagesEnough DEF LastPage, Answers
      <4>2. r.answer.page = IF res.store.paged
                            THEN AtMost(r.page, LastPage(r.answer.count)) ELSE 0
        BY <3>2 DEF Answers, ServedPage, LastPage
      <4> QED
        BY <3>2, <4>1, <4>2 DEF AtMost
    <3>4. /\ StoreOK' /\ store'.items = r.answer /\ store'.filter = store.filter
          /\ ServedPage(r.answer.count, store.page) = ServedPage(store'.count, store'.page)
          /\ res.sync.of # "user" => \A t \in reqs' : t.id # syncId'
      BY <2>5, <2>6, <3>1, <3>2, <3>3 DEF Answers
    <3>5. LastOK'
      BY <3>4 DEF LastOK
    <3>6. FreshList'
      <4> SUFFICES ASSUME page # None, res.sync.of # "user"
                   PROVE  (store.items # None /\ Asked(store.items))'
        BY <2>1 DEF FreshList
      <4>1. r.id = syncId
        BY <2>3, <2>6
      <4>2. r.of = page /\ r.filter = store.filter /\ r.page = store.page
        BY <4>1 DEF ListInv, LastOK
      <4>3. /\ r.answer.of = page' /\ r.answer.filter = store'.filter
            /\ r.answer.page = ServedPage(store'.count, store'.page)
        BY <2>1, <3>2, <3>4, <4>2 DEF Answers
      <4>4. ServedPage(store'.count, store'.page) = ServedPage(store.count, store.page)'
        BY DEF ServedPage
      <4> QED
        BY <1>2, <3>4, <4>3, <4>4 DEF Asked
    <3> QED
      BY <2>2, <3>1, <3>4, <3>5, <3>6
  <2>7. CASE Counts(r) /\ Failed(r) /\ res.sync.blanks
    <3>1. store' = Synced(res.store, store, Nobodys(r.of)) /\ kept' = kept
      BY <1>2, <2>7 DEF Take
    <3>2. /\ Nobodys(r.of).count = 0 /\ Nobodys(r.of).page = 0
          /\ Nobodys(r.of).of = r.of /\ Wanted(r.of)
      BY DEF Nobodys, ListInv, AnswersOK
    <3>3. 0 <= LastPage(0)
      BY <1>a, PageCount, PagesEnough DEF LastPage
    <3>4. /\ StoreOK'
          /\ res.sync.of # "user" => \A t \in reqs' : t.id # syncId'
      BY <2>5, <2>7, <3>1, <3>2, <3>3
    <3>5. LastOK' /\ FreshList'
      BY <2>3, <2>7, <3>1, <3>4 DEF LastOK, FreshList
    <3> QED
      BY <1>a, <2>2, <3>1, <3>4, <3>5
  <2>8. CASE UNCHANGED <<store, kept>>
    <3>1. StoreOK' /\ FreshList'
      BY <2>1, <2>8 DEF ListInv, StoreOK, RowsOK, LastPage, Wanted, FreshList, Asked, ServedPage
    <3>2. LastOK'
      BY <2>1, <2>8 DEF ListInv, LastOK
    <3> QED
      BY <1>a, <2>2, <2>8, <3>1, <3>2
  <2> QED
    BY <1>2, <2>6, <2>7, <2>8 DEF Take
<1> QED
  BY <1>1, <1>2 DEF Deliver

LEMMA NextList ==
  ASSUME ListInv, LinksOK, [Next]_vars
  PROVE  ListInv'
<1>1. IInv'
  BY NextReqs, NextRefreshEnds, NextVersions DEF IInv, ListInv
<1>2. ScreenOK' /\ srv'.n \in Nat /\ res' = res
  BY NextScreen, NextRowCount, NextServer DEF IInv, ListInv
<1>3. (kept \in BOOLEAN /\ StoreOK /\ AnswersOK /\ LastOK /\ FreshList)'
  BY <1>2, ListKinds, AsksList, PutsList, IdlesList, AnswerList, DeliverList DEF ListInv
<1> QED
  BY <1>1, <1>2, <1>3 DEF ListInv

(* The rest of the state.                                                  *)

RestOK ==
    /\ events \in Nat /\ events < srv.ver /\ srv.ver \in 1..MaxVersions
    /\ refreshing \in BOOLEAN /\ missed \in BOOLEAN /\ socket \in BOOLEAN
    /\ syncId \in 0..MaxRequests

LEMMA NextLinks ==
  ASSUME ListInv, LinksOK, [Next]_vars
  PROVE  LinksOK'
<1>0. store.page \in Nat /\ Pages(res.store, store) \in Nat
  BY PageCount, PagesEnough DEF ListInv, StoreOK, Pages
<1>1. CASE UNCHANGED links
  BY <1>1 DEF LinksOK
<1>2. ASSUME NEW due \in BOOLEAN, links' = Links(due) PROVE LinksOK'
  BY <1>0, <1>2 DEF Links, LinksOK
<1>3. CASE Announce
  <2>1. ASSUME NEW k \in Nat, NEW n \in Nat, NEW b \in BOOLEAN,
               links' = [page |-> k, pages |-> n, due |-> b]
        PROVE  LinksOK'
    BY <2>1 DEF LinksOK
  <2>2. links.page \in Nat /\ links.pages \in Nat
    BY DEF LinksOK
  <2>3. ASSUME NEW b
        PROVE  [links EXCEPT !.due = b] = [page |-> links.page, pages |-> links.pages, due |-> b]
    BY DEF LinksOK
  <2>4. CASE links' = [links EXCEPT !.due = TRUE]
    BY <2>1, <2>2, <2>3, <2>4
  <2> QED
    BY <1>1, <1>3, <2>4 DEF Announce
<1>4. CASE Mount
  BY <1>2, <1>4 DEF Mount, LinksOK
<1>5. CASE Draw
  BY <1>2, <1>5 DEF Draw
<1>6. CASE Filter \/ SwitchOrg
  BY <1>3, <1>6 DEF Filter, SwitchOrg
<1>7. CASE MountNew \/ Unmount \/ Pick \/ Rewind \/ Turn \/ Refresh \/ Rival
  BY <1>1, <1>7 DEF MountNew, Unmount, Pick, Rewind, Turn, Refresh, Rival
<1>8. CASE Tick \/ Event \/ SocketClose \/ SocketOpen \/ Server
  BY <1>1, <1>8 DEF Tick, Event, SocketClose, SocketOpen, Server, Change, Answer
<1>9. CASE Deliver
  <2>1. CASE Restart
    BY <2>1 DEF Restart, LinksOK
  <2>2. ASSUME NEW r, Take(r) PROVE LinksOK'
    BY <1>1, <1>3, <2>2 DEF Take
  <2> QED
    BY <1>9, <2>1, <2>2 DEF Deliver
<1>10. CASE UNCHANGED vars
  BY <1>1, <1>10 DEF vars
<1> QED
  BY <1>4, <1>5, <1>6, <1>7, <1>8, <1>9, <1>10 DEF Next, User, Runtime

LEMMA NextEvents ==
  ASSUME RestOK, Versions, [Next]_vars
  PROVE  events' \in Nat /\ events' < srv'.ver /\ srv'.ver \in 1..MaxVersions
<1>1. CASE UNCHANGED <<events, srv>>
  BY <1>1 DEF RestOK
<1>2. CASE events' = 0 /\ UNCHANGED srv
  BY <1>2 DEF RestOK
<1>3. CASE Change
  <2>1. srv'.ver = srv.ver + 1 /\ srv.ver < MaxVersions
    BY <1>3 DEF Change
  <2>2. events' = events + 1 \/ events' = events
    BY <1>3 DEF Change
  <2> QED
    BY <2>1, <2>2, ConstantsAssumption DEF RestOK
<1>4. CASE Event
  <2>1. events > 0 /\ events' = events - 1 /\ UNCHANGED srv
    BY <1>4 DEF Event
  <2> QED
    BY <2>1 DEF RestOK
<1>5. CASE User \/ Draw \/ Tick \/ SocketOpen \/ Answer
  BY <1>1, <1>5 DEF User, Mount, MountNew, Unmount, Pick, Rewind, Turn, Filter,
              SwitchOrg, Refresh, Rival, Draw, Tick, SocketOpen, Answer, wire
<1>6. CASE SocketClose
  BY <1>2, <1>6 DEF SocketClose
<1>7. CASE Deliver
  BY <1>1, <1>2, <1>7 DEF Deliver, Restart, wire
<1>8. CASE UNCHANGED vars
  BY <1>1, <1>8 DEF vars, wire
<1> QED
  BY <1>3, <1>4, <1>5, <1>6, <1>7, <1>8 DEF Next, Runtime, Server

LEMMA NextFlags ==
  ASSUME RestOK, [Next]_vars
  PROVE  refreshing' \in BOOLEAN /\ socket' \in BOOLEAN
<1>1. CASE UNCHANGED <<refreshing, socket>>
  BY <1>1 DEF RestOK
<1>2. CASE Refresh
  <2>1. refreshing' = (Known \notin {None, "new"}) /\ socket' = socket
    BY <1>2 DEF Refresh, wire
  <2> QED
    BY <2>1 DEF RestOK
<1>3. CASE SocketClose \/ SocketOpen
  <2>1. refreshing' = refreshing /\ (socket' = TRUE \/ socket' = FALSE)
    BY <1>3 DEF SocketClose, SocketOpen
  <2> QED
    BY <2>1 DEF RestOK
<1>4. CASE Deliver
  <2>1. CASE Restart
    BY <2>1 DEF Restart
  <2>2. ASSUME NEW r, Settle(r), UNCHANGED wire
        PROVE  refreshing' \in BOOLEAN /\ socket' \in BOOLEAN
    <3>1. refreshing' = (refreshing /\ ~r.refresh) /\ socket' = socket
      BY <2>2 DEF Settle, wire
    <3>2. (refreshing /\ ~r.refresh) \in BOOLEAN
      OBVIOUS
    <3> QED
      BY <3>1, <3>2 DEF RestOK
  <2> QED
    BY <1>4, <2>1, <2>2 DEF Deliver
<1>5. CASE Mount \/ MountNew \/ Unmount \/ Pick \/ Rewind \/ Turn \/ Filter \/ SwitchOrg \/ Rival
  BY <1>1, <1>5 DEF Mount, MountNew, Unmount, Pick, Rewind, Turn, Filter, SwitchOrg,
                    Rival, wire
<1>6. CASE Draw \/ Tick \/ Event \/ Server
  BY <1>1, <1>6 DEF Draw, Tick, Event, Server, Change, Answer, wire
<1>7. CASE UNCHANGED vars
  BY <1>1, <1>7 DEF vars, wire
<1> QED
  BY <1>2, <1>3, <1>4, <1>5, <1>6, <1>7 DEF Next, User, Runtime

LEMMA NextMissed ==
  ASSUME RestOK, [Next]_vars
  PROVE  missed' \in BOOLEAN
<1>1. CASE UNCHANGED missed
  BY <1>1 DEF RestOK
<1>2. CASE \E of, st, quiet, refresh : Ask(of, st, quiet, refresh)
  BY <1>2 DEF Ask
<1>3. CASE NoRequest \/ \E of : PutNobodys(of)
  BY <1>1, <1>3 DEF NoRequest, PutNobodys
<1>4. ASSUME NEW refresh, Reload(refresh) PROVE missed' \in BOOLEAN
  BY <1>2, <1>3, <1>4 DEF Reload
<1>5. CASE Mount \/ MountNew \/ Unmount \/ Pick \/ Rewind \/ Turn \/ Filter
  BY <1>2, <1>3, <1>5 DEF Mount, MountNew, Unmount, Pick, Rewind, Turn, Filter
<1>6. CASE Refresh \/ Tick \/ Event
  BY <1>2, <1>3, <1>4, <1>6 DEF Refresh, Tick, Event
<1>7. CASE SwitchOrg \/ Rival \/ Draw \/ SocketOpen \/ Answer
  BY <1>1, <1>7 DEF SwitchOrg, Rival, Draw, SocketOpen, Answer
<1>8. CASE SocketClose
  BY <1>8 DEF SocketClose
<1>9. CASE Change
  BY <1>1, <1>9 DEF Change
<1>10. CASE Deliver
  BY <1>1, <1>10 DEF Deliver, Restart
<1>11. CASE UNCHANGED vars
  BY <1>1, <1>11 DEF vars
<1> QED
  BY <1>5, <1>6, <1>7, <1>8, <1>9, <1>10, <1>11 DEF Next, User, Runtime, Server

LEMMA NextSyncId ==
  ASSUME RestOK, ReqsOK, UniqueIds, [Next]_vars
  PROVE  syncId' \in 0..MaxRequests
<1>1. CASE Calm
  BY <1>1, ConstantsAssumption DEF Calm, RestOK
<1>2. CASE AskedNow
  <2>1. FreshId \in 1..MaxRequests
    BY <1>2, FreshIdIsFresh DEF AskedNow, Ask
  <2> QED
    BY <1>2, <2>1, ConstantsAssumption DEF AskedNow, Ask
<1>3. CASE Answer \/ Deliver
  BY <1>3, ConstantsAssumption DEF Answer, Deliver, Restart, RestOK
<1> QED
  BY <1>1, <1>2, <1>3, Kinds

LEMMA InitList == Init => ListInv /\ LinksOK /\ RestOK
<1> SUFFICES ASSUME Init PROVE ListInv /\ LinksOK /\ RestOK
  OBVIOUS
<1>1. ScreenOK
  BY DEF Init, ScreenOK
<1>2. srv.ver = 1 /\ srv.n \in Nat
  <2>1. PICK rc \in Rows : srv = [ver |-> 1, n |-> Count(rc)]
    BY DEF Init
  <2>2. rc[1] \in Nat /\ rc[2] \in Nat /\ res.store.pageCount \in Nat
    BY <1>1, ConstantsAssumption, PageCount
  <2>3. rc[1] * res.store.pageCount \in Nat
    BY <2>2
  <2> QED
    BY <2>1, <2>2, <2>3 DEF Count
<1>3. StoreOK /\ AnswersOK /\ LastOK /\ FreshList /\ kept \in BOOLEAN
  BY DEF Init, StoreOK, EmptyStore, IsStore, AnswersOK, LastOK, FreshList
<1>4. LinksOK /\ RestOK
  <2>1. links = [page |-> 0, pages |-> 0, due |-> FALSE]
    BY DEF Init
  <2>2. LinksOK
    BY <2>1 DEF LinksOK
  <2>3. /\ events = 0 /\ refreshing = FALSE /\ missed = FALSE /\ socket = TRUE
        /\ syncId = 0
    BY DEF Init
  <2>4. /\ refreshing \in BOOLEAN /\ missed \in BOOLEAN /\ socket \in BOOLEAN
    BY <2>3
  <2>5. /\ events \in Nat /\ events < srv.ver /\ srv.ver \in 1..MaxVersions
        /\ syncId \in 0..MaxRequests
    BY <1>2, <2>3, ConstantsAssumption
  <2> QED
    BY <2>2, <2>4, <2>5 DEF RestOK
<1> QED
  BY <1>1, <1>2, <1>3, <1>4, InitIInv DEF ListInv

LEMMA ListInvariance == Spec => [](ListInv /\ LinksOK /\ RestOK)
<1>1. ASSUME ListInv, LinksOK, RestOK, [Next]_vars PROVE (ListInv /\ LinksOK /\ RestOK)'
  <2>1. ReqsOK /\ UniqueIds /\ Versions
    BY <1>1 DEF ListInv, IInv
  <2> QED
    BY <1>1, <2>1, NextList, NextLinks, NextEvents, NextFlags, NextMissed, NextSyncId DEF RestOK
<1>2. ListInv /\ LinksOK /\ RestOK /\ [Next]_vars => (ListInv /\ LinksOK /\ RestOK)'
  BY <1>1
<1> QED
  BY <1>2, InitList, PTL DEF Spec

\* The screen, the store, the requests and the links are well formed, and
\* only what the server can be asked for is asked: nobody's record, and the
\* blank one of a new user, are never requested (reload of the actions).
THEOREM TypeCorrect == Spec => []TypeOK
<1>1. ListInv /\ LinksOK /\ RestOK => TypeOK
  <2> SUFFICES ASSUME ListInv, LinksOK, RestOK PROVE TypeOK
    OBVIOUS
  <2>1. res \in Resources /\ console \in res.consoles /\ org \in Owners
        /\ page \in {None, "new"} \cup Subjects
    BY DEF ListInv, ScreenOK
  <2>2. store.page \in Nat /\ store.count \in Nat /\ kept \in BOOLEAN
    BY DEF ListInv, StoreOK
  <2>3. /\ \A r \in reqs : r.of \in Owners \cup {"all"}
        /\ Cardinality(reqs) <= MaxRequests
    BY DEF ListInv, AnswersOK, Wanted, IInv, ReqsOK
  <2>4. events \in 0..MaxVersions
    BY ConstantsAssumption DEF RestOK
  <2> QED
    BY <2>1, <2>2, <2>3, <2>4 DEF TypeOK, LinksOK, RestOK
<1> QED
  BY <1>1, ListInvariance, PTL

\* Once the last request is answered the list on the screen is of the
\* organization, the filter and the page the store would ask for now, in
\* whatever order answers came, links were followed, filters set and
\* organizations switched (syncId, and the request that every change of a
\* filter or page makes).
THEOREM ListIsFresh == Spec => []FreshList
<1>1. ListInv => FreshList
  BY DEF ListInv
<1> QED
  BY <1>1, ListInvariance, PTL

\* A list that has rows is not empty on the screen without a link to go to
\* them, though the server and the store count pages differently (GetAllPaged
\* and pages of the stores), for every number of rows of a page.
THEOREM NeverStranded == Spec => []NotStranded
<1>1. ASSUME ListInv, store.items # None, store.count > 0, RowsShown = 0
      PROVE  Pages(res.store, store) > 1
  <2> DEFINE c == res.store.pageCount
             n == store.count
             p == store.items.page
  <2>1. c \in Nat \ {0} /\ n \in Nat /\ p \in Nat /\ store.items.count = n
        /\ (res.store.paged => p <= LastPage(n))
    BY <1>1, PageCount DEF ListInv, StoreOK, RowsOK
  <2>2. res.store.paged
    BY <1>1, <2>1 DEF RowsShown
  <2>3. p * c \in Nat
    BY <2>1
  <2>4. n - p * c <= 0
    BY <1>1, <2>1, <2>2, <2>3 DEF RowsShown, AtLeast, AtMost
  <2>5. p # 0
    BY <1>1, <2>1, <2>4
  <2>6. n # c /\ n \div c >= 1
    <3>1. LastPage(n) >= 1
      <4>1. LastPage(n) \in Nat
        BY <2>1, PagesEnough DEF LastPage
      <4> QED
        BY <2>1, <2>2, <2>5, <4>1
    <3> QED
      BY <3>1 DEF LastPage
  <2>7. n > c
    BY <2>1, <2>6, PagesEnough
  <2> QED
    BY <2>1, <2>7, PagesEnough DEF Pages
<1>2. ListInv => NotStranded
  BY <1>1 DEF NotStranded, Settled
<1> QED
  BY <1>2, ListInvariance, PTL

=============================================================================
