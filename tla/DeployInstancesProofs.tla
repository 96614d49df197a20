------------------------ MODULE DeployInstancesProofs ------------------------
(***************************************************************************)
(* For any number of instances, any limit, any mix of calls and faults and *)
(* any duration of a cycle: the state of the deploy loop is well typed and *)
(* the limiter counts exactly the goroutines that hold a slot.             *)
(***************************************************************************)
EXTENDS DeployInstances, FiniteSetTheorems, TLAPS

\* A goroutine is at a stage of its kind, a hot plug only holds the lock, and
\* an instance without a goroutine is at no stage.
Staged ==
    \A i \in Inst :
        /\ op[i].kind \in Limited => op[i].at \in DOMAIN Flow[op[i].kind] \cup {"hold"}
        /\ op[i].kind = "plug" => op[i].at = "hold"
        /\ op[i].kind = "none" => op[i].at = "none"

\* The inductive invariant.  The types are not inductive alone: a goroutine
\* goes on to Flow[kind][at], which must be a stage; and the counter stays
\* natural because a goroutine that releases a slot has one.
IInv == TypeOK /\ Staged /\ LimiterExact

LEMMA Kinds ==
  Limited = {"create", "start", "stop", "restart", "cleanup", "destroy"}
BY DEF Limited, Flow

\* The stages of each goroutine lead to one another and end at "hold".
LEMMA FlowClosed ==
  ASSUME NEW k \in Limited, NEW s \in DOMAIN Flow[k]
  PROVE Flow[k][s] \in DOMAIN Flow[k] \cup {"hold"}
BY Kinds DEF Flow

LEMMA StagesOf ==
  ASSUME NEW k \in Limited
  PROVE DOMAIN Flow[k] \cup {"hold"} \subseteq Stages
<1>1. DOMAIN Flow[k] \subseteq UNION {DOMAIN Flow[j] : j \in Limited}
  OBVIOUS
<1> QED
  BY <1>1 DEF Stages

LEMMA EntryStaged ==
  ASSUME NEW k \in Limited
  PROVE Entry[k] \in DOMAIN Flow[k]
BY Kinds DEF Flow, Entry

\* Which goroutines reach which stage.
LEMMA StageOfKind ==
  ASSUME NEW k \in Limited
  PROVE /\ "hold" \notin DOMAIN Flow[k] /\ "none" \notin DOMAIN Flow[k]
        /\ "probe" \in DOMAIN Flow[k] => {"off", "pause"} \subseteq DOMAIN Flow[k]
        /\ DOMAIN Flow[k] \cap {"probe", "off"} # {} => "kill" \in DOMAIN Flow[k]
        /\ DOMAIN Flow[k] \cap {"commit", "disk", "service", "launch", "wait", "network"} # {}
             => "setstop" \in DOMAIN Flow[k]
        /\ k = "cleanup" => "pause" \in DOMAIN Flow[k]
        /\ k = "stop" => "off" \in DOMAIN Flow[k]
BY Kinds DEF Flow

LEMMA SlotsFinite == IsFiniteSet(Slots)
<1>1. Slots \subseteq Inst
  BY DEF Slots
<1> QED
  BY <1>1, Bounds, FS_Subset

LEMMA InitIInv == Init => IInv
<1> SUFFICES ASSUME Init PROVE IInv
  OBVIOUS
<1>1. TypeOK
  <2>1. RecordsOK
    BY DEF Init, RecordsOK, Record, States, VmStates
  <2>2. HostOK
    BY DEF Init, HostOK
  <2>3. LoopOK
    BY DEF Init, LoopOK, Sight, Blank, Gone, Record, States, VmStates
  <2>4. WorkOK
    BY DEF Init, WorkOK, Goroutines, Idle
  <2>5. HistoryOK
    BY Bounds DEF Init, HistoryOK
  <2> QED
    BY <2>1, <2>2, <2>3, <2>4, <2>5 DEF TypeOK
<1>2. "none" \notin Limited
  BY Kinds
<1>3. Staged
  BY <1>2 DEF Init, Staged, Idle
<1>4. Slots = {}
  BY <1>2 DEF Init, Slots, Idle
<1>5. LimiterExact
  BY <1>4, Bounds, FS_EmptySet DEF Init, LimiterExact
<1> QED
  BY <1>1, <1>3, <1>5 DEF IInv

-----------------------------------------------------------------------------
(* The goroutines.                                                           *)

\* An instance whose goroutine is between its start and its last sleep has a
\* slot and is at a stage of the goroutine's kind.
LEMMA Working ==
  ASSUME IInv, NEW i \in Inst, op[i].at \notin {"none", "hold"}
  PROVE  op[i].kind \in Limited /\ op[i].at \in DOMAIN Flow[op[i].kind]
BY DEF IInv, TypeOK, WorkOK, Goroutines, Staged

\* What every step inside a goroutine leaves true: the slot is kept.
Kept ==
    /\ op' \in [Inst -> Goroutines]
    /\ stale' \subseteq Inst /\ misled' \subseteq Inst
    /\ Staged'
    /\ Slots' = Slots

LEMMA GotoKept ==
  ASSUME IInv, NEW i \in Inst, op[i].kind \in Limited,
         NEW s \in DOMAIN Flow[op[i].kind] \cup {"hold"}, Goto(i, s),
         UNCHANGED misled
  PROVE  Kept
<1>1. op' = [op EXCEPT ![i].at = s] /\ op \in [Inst -> Goroutines]
  BY DEF Goto, IInv, TypeOK, WorkOK
<1>2. s \in Stages
  BY StagesOf
<1>3. op' \in [Inst -> Goroutines]
  BY <1>1, <1>2 DEF Goroutines
<1>4. op'[i].at = s /\ \A j \in Inst : op'[j].kind = op[j].kind
  BY <1>1 DEF Goroutines
<1>5. \A j \in Inst : j # i => op'[j] = op[j]
  BY <1>1
<1>6. "plug" \notin Limited /\ "none" \notin Limited
  BY Kinds
<1>7. Staged'
  BY <1>4, <1>5, <1>6 DEF Staged, IInv
<1>8. Slots' = Slots
  BY <1>4 DEF Slots
<1>9. stale' \subseteq Inst /\ misled' \subseteq Inst
  BY DEF Goto, IInv, TypeOK, WorkOK
<1> QED
  BY <1>3, <1>7, <1>8, <1>9 DEF Kept

LEMMA AdvanceKept ==
  ASSUME IInv, NEW i \in Inst, op[i].at \notin {"none", "hold"}, Advance(i),
         UNCHANGED misled
  PROVE  Kept
<1>1. op[i].kind \in Limited /\ op[i].at \in DOMAIN Flow[op[i].kind]
  BY Working
<1>2. Flow[op[i].kind][op[i].at] \in DOMAIN Flow[op[i].kind] \cup {"hold"}
  BY <1>1, FlowClosed
<1> QED
  BY <1>1, <1>2, GotoKept DEF Advance

\* Where an error leads is a stage of the goroutine, or its end.
LEMMA OnErrorStaged ==
  ASSUME IInv, NEW i \in Inst, op[i].at \notin {"none", "hold"}
  PROVE  OnError(i) \subseteq DOMAIN Flow[op[i].kind] \cup {"hold"}
BY Working, StageOfKind DEF OnError

\* A step that keeps the slots and touches neither the loop nor the history
\* preserves the invariant when the records and the host stay well typed.
LEMMA KeptIInv ==
  ASSUME IInv, Kept, limiter' = limiter, RecordsOK', HostOK', LoopOK', HistoryOK'
  PROVE  IInv'
<1>1. WorkOK'
  BY DEF IInv, TypeOK, WorkOK, Kept
<1>2. LimiterExact'
  BY DEF IInv, LimiterExact, Kept
<1> QED
  BY <1>1, <1>2 DEF IInv, TypeOK, Kept

LEMMA HostUnchanged == IInv /\ UNCHANGED host => HostOK'
BY DEF IInv, TypeOK, HostOK, host

LEMMA RecordsUnchanged == IInv /\ UNCHANGED records => RecordsOK'
BY DEF IInv, TypeOK, RecordsOK, records

LEMMA LoopUnchanged == IInv /\ UNCHANGED loop => LoopOK'
BY DEF IInv, TypeOK, LoopOK, loop

LEMMA HistoryUnchanged == IInv /\ UNCHANGED history => HistoryOK'
BY DEF IInv, TypeOK, HistoryOK, history

LEMMA WorkUnchanged ==
  ASSUME IInv, UNCHANGED <<work, hindsight>>
  PROVE  Kept /\ limiter' = limiter
<1>1. UNCHANGED <<op, limiter, stale, misled>>
  BY DEF work, hindsight
<1>2. Slots' = Slots
  BY <1>1 DEF Slots
<1>3. Staged'
  BY <1>1 DEF IInv, Staged
<1> QED
  BY <1>1, <1>2, <1>3 DEF IInv, TypeOK, WorkOK, Kept

LEMMA UpdateTyped ==
  ASSUME IInv, NEW i \in Inst, NEW rec \in Record, Update(i, rec)
  PROVE  db' \in [Inst -> Record]
BY DEF Update, IInv, TypeOK, RecordsOK

-----------------------------------------------------------------------------
(* The deploy loop.                                                          *)

\* A dying process takes its goroutines and its counter with it.
LEMMA DieIInv ==
  ASSUME IInv, Die, HistoryOK'
  PROVE  IInv'
<1>1. RecordsOK' /\ HostOK'
  BY RecordsUnchanged, HostUnchanged DEF Die
<1>2. LoopOK'
  BY DEF Die, LoopOK, Sight, Blank, Gone, Record, States, VmStates
<1>3. "none" \notin Limited
  BY Kinds
<1>4. op' = [i \in Inst |-> Idle] /\ limiter' = 0
  BY DEF Die
<1>5. WorkOK'
  BY <1>4 DEF Die, WorkOK, Goroutines, Idle, IInv, TypeOK
<1>6. Staged'
  BY <1>3, <1>4 DEF Staged, Idle
<1>7. Slots' = {}
  BY <1>3, <1>4 DEF Slots, Idle
<1>8. LimiterExact'
  BY <1>4, <1>7, Bounds, FS_EmptySet DEF LimiterExact
<1> QED
  BY <1>1, <1>2, <1>5, <1>6, <1>8 DEF IInv, TypeOK

\* A goroutine is started for an idle instance: its first stage is one of its
\* kind.
LEMMA GoroutineStaged ==
  ASSUME IInv, NEW i \in Inst, NEW k \in Limited \cup {"plug"}, Goroutine(i, k)
  PROVE  op' \in [Inst -> Goroutines] /\ Staged'
<1>1. k \in Limited => Entry[k] \in DOMAIN Flow[k] \cup {"hold"}
  BY EntryStaged
<1>2. k = "plug" => Entry[k] = "hold"
  BY DEF Entry
<1>3. "plug" \notin Limited /\ "none" \notin Limited
  BY Kinds
<1>4. Entry[k] \in Stages
  BY <1>1, <1>2, StagesOf DEF Stages
<1>5. snap[i].disk \in BOOLEAN
  BY DEF IInv, TypeOK, LoopOK, Sight
<1>6. op' = [op EXCEPT ![i] = [kind |-> k, at |-> Entry[k], disk |-> k = "destroy" /\ snap[i].disk]]
  BY DEF Goroutine
<1>7. op \in [Inst -> Goroutines]
  BY DEF IInv, TypeOK, WorkOK
<1>8. [kind |-> k, at |-> Entry[k], disk |-> k = "destroy" /\ snap[i].disk] \in Goroutines
  BY <1>4, <1>5 DEF Goroutines
<1>9. op' \in [Inst -> Goroutines]
  BY <1>6, <1>7, <1>8
<1>10. /\ op'[i].kind = k /\ op'[i].at = Entry[k]
       /\ \A j \in Inst : j # i => op'[j] = op[j]
  BY <1>6, <1>7
<1>11. Staged'
  BY <1>1, <1>2, <1>3, <1>10 DEF Staged, IInv
<1> QED
  BY <1>9, <1>11

\* A new slot is counted, below the limit.
LEMMA DispatchIInv ==
  ASSUME IInv, NEW i \in Inst, Dispatch(i)
  PROVE  IInv'
<1>1. /\ RecordsOK' /\ HostOK' /\ LoopOK' /\ HistoryOK'
  <2>1. LoopOK'
    BY DEF IInv, TypeOK, LoopOK, Dispatch
  <2> QED
    BY <2>1, RecordsUnchanged, HostUnchanged, HistoryUnchanged DEF Dispatch
<1>2. CASE UNCHANGED <<op, limiter, misled>>
  <2>1. UNCHANGED <<work, hindsight>>
    BY <1>2 DEF Dispatch, work, hindsight
  <2> QED
    BY <1>1, <2>1, WorkUnchanged, KeptIInv
<1>3. CASE ~UNCHANGED <<op, limiter, misled>>
  <2>1. PICK k \in Limited : /\ limiter < Limit /\ op[i] = Idle
                             /\ Goroutine(i, k) /\ limiter' = limiter + 1
                             /\ Misled(i)
    BY <1>3 DEF Dispatch
  <2>2. op' \in [Inst -> Goroutines] /\ Staged'
    BY <2>1, GoroutineStaged
  <2>3. stale' \subseteq Inst /\ misled' \subseteq Inst
    BY <2>1 DEF IInv, TypeOK, WorkOK, Dispatch, Misled
  <2>4. limiter \in Nat /\ limiter' \in Nat
    BY <2>1 DEF IInv, TypeOK, WorkOK
  <2>5. "none" \notin Limited
    BY Kinds
  <2>6. op'[i].kind = k /\ \A j \in Inst : j # i => op'[j] = op[j]
    BY <2>1 DEF Goroutine, IInv, TypeOK, WorkOK
  <2>7. i \notin Slots /\ Slots' = Slots \cup {i}
    BY <2>1, <2>5, <2>6 DEF Slots, Idle
  <2>8. Cardinality(Slots') = Cardinality(Slots) + 1
    BY <2>7, SlotsFinite, FS_AddElement
  <2>9. LimiterExact'
    BY <2>1, <2>4, <2>8, Bounds DEF LimiterExact, IInv
  <2> QED
    BY <1>1, <2>2, <2>3, <2>4, <2>9 DEF IInv, TypeOK, WorkOK
<1> QED
  BY <1>2, <1>3

\* The hot plug takes the lock and no slot.
LEMMA DispatchPlugIInv ==
  ASSUME IInv, NEW i \in Inst, DispatchPlug(i)
  PROVE  IInv'
<1>1. RecordsOK' /\ HostOK' /\ LoopOK' /\ HistoryOK'
  <2>1. LoopOK'
    BY DEF IInv, TypeOK, LoopOK, DispatchPlug
  <2> QED
    BY <2>1, RecordsUnchanged, HostUnchanged, HistoryUnchanged DEF DispatchPlug
<1>2. op[i] = Idle /\ Goroutine(i, "plug")
  BY DEF DispatchPlug
<1>3. op' \in [Inst -> Goroutines] /\ Staged'
  BY <1>2, GoroutineStaged
<1>4. op'[i].kind = "plug" /\ \A j \in Inst : j # i => op'[j] = op[j]
  BY <1>2 DEF Goroutine, IInv, TypeOK, WorkOK
<1>5. "plug" \notin Limited /\ "none" \notin Limited
  BY Kinds
<1>6. Slots' = Slots
  BY <1>2, <1>4, <1>5 DEF Slots, Idle
<1>7. Kept
  BY <1>3, <1>6 DEF Kept, DispatchPlug, IInv, TypeOK, WorkOK, hindsight
<1>8. limiter' = limiter
  BY DEF DispatchPlug
<1> QED
  BY <1>1, <1>7, <1>8, KeptIInv

LEMMA ReportIInv ==
  ASSUME IInv, NEW i \in Inst, Report(i)
  PROVE  IInv'
<1>1. db[i] \in Record /\ snap[i] \in Sight
  BY DEF IInv, TypeOK, RecordsOK, LoopOK
<1>2. snap[i].virt \in {"running", "stopped"}
  BY DEF Report
<1>3. /\ [db[i] EXCEPT !.state = "cleanup", !.vm = "stopped"] \in Record
      /\ [db[i] EXCEPT !.vm = snap[i].virt] \in Record
  BY <1>1, <1>2 DEF Record, States, VmStates
<1>4. db' \in [Inst -> Record]
  BY <1>3, UpdateTyped DEF Report
<1>5. RecordsOK'
  BY <1>4 DEF RecordsOK, Report, IInv, TypeOK
<1>6. snap' \in [Inst -> Sight]
  BY <1>1 DEF Report, IInv, TypeOK, LoopOK, Sight, Record, States
<1>7. LoopOK'
  BY <1>6 DEF LoopOK, Report, IInv, TypeOK
<1> QED
  BY <1>5, <1>7, HostUnchanged, HistoryUnchanged, WorkUnchanged, KeptIInv
     DEF Report

LEMMA LoopIInv ==
  ASSUME IInv, LoopStep
  PROVE  IInv'
<1>1. CASE Gather
  <2>1. LoopOK'
    BY <1>1 DEF Gather, IInv, TypeOK, LoopOK, Sight, Blank, Gone, Record,
                States, VmStates
  <2> QED
    BY <1>1, <2>1, RecordsUnchanged, HostUnchanged, HistoryUnchanged,
       WorkUnchanged, KeptIInv DEF Gather
<1>2. CASE Load
  <2>1. LoopOK'
    BY <1>2 DEF Load, IInv, TypeOK, LoopOK, RecordsOK, Sight
  <2> QED
    BY <1>2, <2>1, RecordsUnchanged, HostUnchanged, HistoryUnchanged,
       WorkUnchanged, KeptIInv DEF Load
<1>3. CASE Decide
  <2>1. LoopOK'
    BY <1>3 DEF Decide, IInv, TypeOK, LoopOK
  <2> QED
    BY <1>3, <2>1, RecordsUnchanged, HostUnchanged, HistoryUnchanged,
       WorkUnchanged, KeptIInv DEF Decide
<1>4. CASE Namespaces
  <2>1. LoopOK'
    BY <1>4 DEF Namespaces, IInv, TypeOK, LoopOK, Sight, Blank, Gone, Record,
                States, VmStates
  <2>2. HostOK'
    BY <1>4 DEF Namespaces, IInv, TypeOK, HostOK
  <2>3. UNCHANGED <<op, limiter, misled>> /\ stale' = {}
    BY <1>4 DEF Namespaces, work
  <2>4. Slots' = Slots
    BY <2>3 DEF Slots
  <2>5. Kept
    BY <2>3, <2>4 DEF Kept, IInv, TypeOK, WorkOK, Staged
  <2> QED
    BY <1>4, <2>1, <2>2, <2>3, <2>5, RecordsUnchanged, HistoryUnchanged,
       KeptIInv DEF Namespaces
<1>5. CASE Boot
  <2>1. LoopOK'
    BY <1>5 DEF Boot, IInv, TypeOK, LoopOK
  <2> QED
    BY <1>5, <2>1, RecordsUnchanged, HostUnchanged, HistoryUnchanged,
       WorkUnchanged, KeptIInv DEF Boot
<1>6. ASSUME NEW i \in Inst,
             \/ Query(i) \/ QueryGone(i) \/ Report(i) \/ Dispatch(i)
             \/ DispatchPlug(i) \/ DispatchNothing(i) \/ IgnoreDestroy(i)
             \/ PanicDestroy(i) \/ ForceOff(i) \/ ForceClear(i)
      PROVE  IInv'
  <2>1. CASE Query(i)
    <3>1. LoopOK'
      BY <2>1 DEF Query, Seen, IInv, TypeOK, LoopOK, Sight
    <3> QED
      BY <2>1, <3>1, RecordsUnchanged, HostUnchanged, HistoryUnchanged,
         WorkUnchanged, KeptIInv DEF Query
  <2>2. CASE QueryGone(i)
    BY <2>2, HistoryUnchanged, DieIInv DEF QueryGone
  <2>3. CASE Report(i)
    BY <2>3, ReportIInv
  <2>4. CASE Dispatch(i)
    BY <2>4, DispatchIInv
  <2>5. CASE DispatchPlug(i)
    BY <2>5, DispatchPlugIInv
  <2>6. CASE DispatchNothing(i)
    <3>1. LoopOK'
      BY <2>6 DEF DispatchNothing, IInv, TypeOK, LoopOK
    <3> QED
      BY <2>6, <3>1, RecordsUnchanged, HostUnchanged, HistoryUnchanged,
         WorkUnchanged, KeptIInv DEF DispatchNothing
  <2>7. CASE IgnoreDestroy(i)
    <3>1. LoopOK'
      BY <2>7 DEF IgnoreDestroy, IInv, TypeOK, LoopOK
    <3>2. db' \in [Inst -> Record]
      BY <2>7 DEF IgnoreDestroy, Update, IInv, TypeOK, RecordsOK, Record, States
    <3>3. RecordsOK'
      BY <2>7, <3>2 DEF IgnoreDestroy, IInv, TypeOK, RecordsOK
    <3> QED
      BY <2>7, <3>1, <3>3, HostUnchanged, HistoryUnchanged, WorkUnchanged,
         KeptIInv DEF IgnoreDestroy
  <2>8. CASE PanicDestroy(i)
    BY <2>8, HistoryUnchanged, DieIInv DEF PanicDestroy
  <2>9. CASE ForceOff(i)
    <3>1. LoopOK'
      BY <2>9 DEF ForceOff, IInv, TypeOK, LoopOK, Sight
    <3>2. HostOK'
      BY <2>9 DEF ForceOff, IInv, TypeOK, HostOK
    <3> QED
      BY <2>9, <3>1, <3>2, RecordsUnchanged, HistoryUnchanged, WorkUnchanged,
         KeptIInv DEF ForceOff
  <2>10. CASE ForceClear(i)
    <3>1. LoopOK'
      BY <2>10 DEF ForceClear, IInv, TypeOK, LoopOK, Sight
    <3>2. HostOK'
      BY <2>10 DEF ForceClear, IInv, TypeOK, HostOK
    <3> QED
      BY <2>10, <3>1, <3>2, RecordsUnchanged, HistoryUnchanged, WorkUnchanged,
         KeptIInv DEF ForceClear
  <2> QED
    BY <1>6, <2>1, <2>2, <2>3, <2>4, <2>5, <2>6, <2>7, <2>8, <2>9, <2>10
<1> QED
  BY <1>1, <1>2, <1>3, <1>4, <1>5, <1>6 DEF LoopStep

-----------------------------------------------------------------------------
(* The goroutines' steps.                                                    *)

\* At a stage that is neither the first nor the last, a step goes on, or
\* leaves for an error, or stays with the destroy: the slot is kept.
LEMMA StageKept ==
  ASSUME IInv, NEW i \in Inst, op[i].at \notin {"none", "hold"}, UNCHANGED misled,
         \/ Advance(i)
         \/ \E s \in OnError(i) : Goto(i, s)
         \/ op[i].at = "wait" /\ Goto(i, "setstop")
         \/ Goto(i, "hold")
         \/ op[i].at = "probe" /\ (Goto(i, "off") \/ Goto(i, "pause"))
         \/ op[i].kind = "cleanup" /\ Goto(i, "pause")
  PROVE  Kept
<1>1. op[i].kind \in Limited /\ op[i].at \in DOMAIN Flow[op[i].kind]
  BY Working
<1>2. CASE Advance(i)
  BY <1>2, AdvanceKept
<1>3. CASE \E s \in OnError(i) : Goto(i, s)
  BY <1>1, <1>3, OnErrorStaged, GotoKept
<1>7. CASE op[i].at = "wait" /\ Goto(i, "setstop")
  <2>1. "setstop" \in DOMAIN Flow[op[i].kind]
    BY <1>1, <1>7, StageOfKind
  <2> QED
    BY <1>1, <1>7, <2>1, GotoKept
<1>4. CASE Goto(i, "hold")
  BY <1>1, <1>4, GotoKept
<1>5. CASE op[i].at = "probe" /\ (Goto(i, "off") \/ Goto(i, "pause"))
  <2>1. "off" \in DOMAIN Flow[op[i].kind] /\ "pause" \in DOMAIN Flow[op[i].kind]
    BY <1>1, <1>5, StageOfKind
  <2> QED
    BY <1>1, <1>5, <2>1, GotoKept
<1>6. CASE op[i].kind = "cleanup" /\ Goto(i, "pause")
  <2>1. "pause" \in DOMAIN Flow[op[i].kind]
    BY <1>1, <1>6, StageOfKind
  <2> QED
    BY <1>1, <1>6, <2>1, GotoKept
<1> QED
  BY <1>2, <1>3, <1>4, <1>5, <1>6, <1>7

\* The slot of a limited goroutine is given back, a hot plug gives none.
LEMMA ReleaseIInv ==
  ASSUME IInv, NEW i \in Inst, Release(i)
  PROVE  IInv'
<1>1. RecordsOK' /\ HostOK' /\ LoopOK' /\ HistoryOK'
  BY RecordsUnchanged, HostUnchanged, LoopUnchanged, HistoryUnchanged DEF Release
<1>2. op' = [op EXCEPT ![i] = Idle] /\ op \in [Inst -> Goroutines]
  BY DEF Release, IInv, TypeOK, WorkOK
<1>3. "none" \notin Limited
  BY Kinds
<1>4. Idle \in Goroutines
  BY DEF Idle, Goroutines
<1>5. op' \in [Inst -> Goroutines]
  BY <1>2, <1>4
<1>6. op'[i] = Idle /\ \A j \in Inst : j # i => op'[j] = op[j]
  BY <1>2
<1>7. Staged'
  BY <1>3, <1>6 DEF Staged, Idle, IInv
<1>8. stale' \subseteq Inst /\ misled' \subseteq Inst
  BY DEF Release, IInv, TypeOK, WorkOK, hindsight
<1>9. LimiterExact'
  <2>1. CASE op[i].kind \in Limited
    <3>1. limiter' = limiter - 1
      BY <2>1 DEF Release
    <3>2. i \in Slots /\ Slots' = Slots \ {i}
      BY <2>1, <1>3, <1>6 DEF Slots, Idle
    <3>3. Cardinality(Slots') = Cardinality(Slots) - 1
      BY <3>2, SlotsFinite, FS_RemoveElement
    <3>4. Cardinality(Slots') \in Nat
      BY <3>2, SlotsFinite, FS_RemoveElement, FS_CardinalityType
    <3> QED
      BY <3>1, <3>3, <3>4, Bounds DEF LimiterExact, IInv
  <2>2. CASE op[i].kind \notin Limited
    <3>1. limiter' = limiter
      BY <2>2 DEF Release
    <3>2. Slots' = Slots
      BY <2>2, <1>3, <1>6 DEF Slots, Idle
    <3> QED
      BY <3>1, <3>2 DEF LimiterExact, IInv
  <2> QED
    BY <2>1, <2>2
<1>10. limiter' \in Nat
  BY <1>9, Bounds DEF LimiterExact
<1> QED
  BY <1>1, <1>5, <1>7, <1>8, <1>9, <1>10 DEF IInv, TypeOK, WorkOK

LEMMA OpIInv ==
  ASSUME IInv, NEW i \in Inst, OpStep(i)
  PROVE  IInv'
<1> USE RecordsUnchanged, HostUnchanged, LoopUnchanged, HistoryUnchanged, KeptIInv
<1>0. db[i] \in Record /\ unit[i] \in {"none", "inactive", "active"}
  BY DEF IInv, TypeOK, RecordsOK, HostOK
<1>1. /\ [db[i] EXCEPT !.vm = "starting"] \in Record
      /\ [db[i] EXCEPT !.vm = "stopped"] \in Record
      /\ [db[i] EXCEPT !.state = "stop"] \in Record
      /\ [db[i] EXCEPT !.state = "start"] \in Record
      /\ Gone \in Record
  BY <1>0 DEF Record, States, VmStates, Gone
<1>2. CASE Commit(i)
  <2>1. Kept
    BY <1>2, StageKept DEF Commit, At
  <2>2. RecordsOK'
    BY <1>1, <1>2, UpdateTyped DEF Commit, IInv, TypeOK, RecordsOK
  <2> QED
    BY <1>2, <2>1, <2>2 DEF Commit
<1>3. CASE Disk(i)
  <2>1. Kept
    BY <1>3, StageKept DEF Disk, At
  <2>2. RecordsOK'
    BY <1>3 DEF Disk, IInv, TypeOK, RecordsOK
  <2> QED
    BY <1>3, <2>1, <2>2 DEF Disk
<1>4. CASE Service(i)
  <2>1. Kept
    BY <1>4, StageKept DEF Service, At
  <2>2. RecordsOK' /\ HostOK'
    BY <1>0, <1>4 DEF Service, IInv, TypeOK, RecordsOK, HostOK
  <2> QED
    BY <1>4, <2>1, <2>2 DEF Service
<1>5. CASE Launch(i)
  <2>1. Kept
    BY <1>5, StageKept DEF Launch, At
  <2>2. db' \in [Inst -> Record]
    BY <1>1, <1>5, UpdateTyped DEF Launch, IInv, TypeOK, RecordsOK
  <2>3. RecordsOK' /\ HostOK'
    BY <1>5, <2>2 DEF Launch, IInv, TypeOK, RecordsOK, HostOK
  <2> QED
    BY <1>5, <2>1, <2>3 DEF Launch
<1>6. CASE Wait(i)
  <2>1. Kept
    BY <1>6, StageKept DEF Wait, At
  <2> QED
    BY <1>6, <2>1 DEF Wait
<1>7. CASE Network(i)
  <2>1. Kept
    BY <1>7, StageKept DEF Network, At
  <2>2. RecordsOK' /\ HostOK'
    BY <1>7 DEF Network, IInv, TypeOK, RecordsOK, HostOK
  <2> QED
    BY <1>7, <2>1, <2>2 DEF Network
<1>8. CASE OffSeen(i)
  <2>1. Kept
    BY <1>8, StageKept DEF OffSeen, At
  <2>2. RecordsOK'
    BY <1>1, <1>8, UpdateTyped DEF OffSeen, IInv, TypeOK, RecordsOK
  <2> QED
    BY <1>8, <2>1, <2>2 DEF OffSeen
<1>9. CASE OffForced(i)
  <2>1. Kept
    BY <1>9, StageKept DEF OffForced, At
  <2>2. HostOK'
    BY <1>0, <1>9 DEF OffForced, IInv, TypeOK, HostOK
  <2> QED
    BY <1>9, <2>1, <2>2 DEF OffForced
<1>10. CASE Clear(i)
  <2>1. Kept
    BY <1>10, StageKept DEF Clear, At
  <2>2. HostOK'
    BY <1>10 DEF Clear, IInv, TypeOK, HostOK
  <2> QED
    BY <1>10, <2>1, <2>2 DEF Clear
<1>11. CASE Pause(i)
  <2>1. Kept
    BY <1>11, StageKept DEF Pause, At
  <2> QED
    BY <1>11, <2>1 DEF Pause
<1>12. CASE SetStop(i)
  <2>1. Kept
    BY <1>12, StageKept DEF SetStop, At
  <2>2. RecordsOK'
    BY <1>1, <1>12, UpdateTyped DEF SetStop, IInv, TypeOK, RecordsOK
  <2> QED
    BY <1>12, <2>1, <2>2 DEF SetStop
<1>13. CASE SetStart(i)
  <2>1. Kept
    BY <1>13, StageKept DEF SetStart, At
  <2>2. RecordsOK'
    BY <1>1, <1>13, UpdateTyped DEF SetStart, IInv, TypeOK, RecordsOK
  <2> QED
    BY <1>13, <2>1, <2>2 DEF SetStart
<1>14. CASE Get(i)
  <2>1. Kept
    BY <1>14, StageKept DEF Get, At
  <2> QED
    BY <1>14, <2>1 DEF Get
<1>15. CASE Probe(i)
  <2>1. Kept
    BY <1>15, StageKept DEF Probe, At
  <2> QED
    BY <1>15, <2>1 DEF Probe
<1>16. CASE Disks(i)
  <2>1. Kept
    BY <1>16, StageKept DEF Disks, At
  <2>2. RecordsOK'
    BY <1>16 DEF Disks, IInv, TypeOK, RecordsOK
  <2> QED
    BY <1>16, <2>1, <2>2 DEF Disks
<1>17. CASE Files(i)
  <2>1. Kept
    BY <1>17, StageKept DEF Files, At
  <2>2. HostOK'
    BY <1>17 DEF Files, IInv, TypeOK, HostOK
  <2> QED
    BY <1>17, <2>1, <2>2 DEF Files
<1>18. CASE FreeAddr(i)
  <2>1. Kept
    BY <1>18, StageKept DEF FreeAddr, At
  <2>2. RecordsOK'
    BY <1>18 DEF FreeAddr, IInv, TypeOK, RecordsOK
  <2> QED
    BY <1>18, <2>1, <2>2 DEF FreeAddr
<1>19. CASE DeleteRecord(i)
  <2>1. Kept
    BY <1>19, StageKept DEF DeleteRecord, At
  <2>2. RecordsOK'
    BY <1>1, <1>19 DEF DeleteRecord, IInv, TypeOK, RecordsOK
  <2> QED
    BY <1>19, <2>1, <2>2 DEF DeleteRecord
<1>20. CASE Release(i)
  BY <1>20, ReleaseIInv
<1>21. CASE Kill(i)
  <2>1. Kept
    BY <1>21, StageKept DEF Kill, At
  <2>2. HostOK'
    BY <1>21 DEF Kill, IInv, TypeOK, HostOK
  <2> QED
    BY <1>21, <2>1, <2>2 DEF Kill
<1>22. CASE Unwire(i)
  <2>1. Kept
    BY <1>22, StageKept DEF Unwire, At
  <2>2. HostOK'
    BY <1>22 DEF Unwire, IInv, TypeOK, HostOK
  <2> QED
    BY <1>22, <2>1, <2>2 DEF Unwire
<1> QED
  BY <1>2, <1>3, <1>4, <1>5, <1>6, <1>7, <1>8, <1>9, <1>10, <1>11, <1>12,
     <1>13, <1>14, <1>15, <1>16, <1>17, <1>18, <1>19, <1>20, <1>21, <1>22
     DEF OpStep

-----------------------------------------------------------------------------
(* Users, guests and faults.                                                 *)

LEMMA SetStopErrorIInv ==
  ASSUME IInv, NEW i \in Inst, SetStopError(i)
  PROVE  IInv'
<1>1. RecordsOK' /\ HostOK' /\ LoopOK'
  BY RecordsUnchanged, HostUnchanged, LoopUnchanged DEF SetStopError
<1>2. HistoryOK'
  BY Bounds DEF SetStopError, Fault, IInv, TypeOK, HistoryOK
<1>3. op[i].kind \in Limited /\ op[i].at = "setstop"
  BY Working DEF SetStopError, At
<1>4. CASE op[i].kind = "cleanup"
  <2>1. Kept
    BY <1>3, <1>4, StageKept DEF SetStopError
  <2> QED
    BY <1>1, <1>2, <2>1, KeptIInv DEF SetStopError
<1>5. CASE op[i].kind # "cleanup"
  <2>1. op' = [op EXCEPT ![i].kind = "stop", ![i].at = "off"]
    BY <1>5 DEF SetStopError
  <2>2. op \in [Inst -> Goroutines]
    BY DEF IInv, TypeOK, WorkOK
  <2>3. "stop" \in Limited /\ "plug" \notin Limited /\ "none" \notin Limited
    BY Kinds
  <2>4. "off" \in DOMAIN Flow["stop"]
    BY <2>3, StageOfKind
  <2>5. "off" \in Stages
    BY <2>3, <2>4, StagesOf
  <2>6. op' \in [Inst -> Goroutines]
    BY <2>1, <2>2, <2>3, <2>5 DEF Goroutines
  <2>7. /\ op'[i].kind = "stop" /\ op'[i].at = "off"
        /\ \A j \in Inst : j # i => op'[j] = op[j]
    BY <2>1, <2>2 DEF Goroutines
  <2>8. Staged'
    BY <2>3, <2>4, <2>7 DEF Staged, IInv
  <2>9. Slots' = Slots
    BY <1>3, <2>3, <2>7 DEF Slots
  <2>10. Kept
    BY <1>5, <2>6, <2>8, <2>9 DEF SetStopError, Kept, IInv, TypeOK, WorkOK
  <2> QED
    BY <1>1, <1>2, <2>10, KeptIInv DEF SetStopError
<1> QED
  BY <1>4, <1>5

LEMMA EnvironmentIInv ==
  ASSUME IInv, Environment
  PROVE  IInv'
<1> USE RecordsUnchanged, HostUnchanged, LoopUnchanged, WorkUnchanged, KeptIInv
<1>1. CASE Crash
  <2>1. HistoryOK'
    BY <1>1, Bounds DEF Crash, Fault, IInv, TypeOK, HistoryOK
  <2> QED
    BY <1>1, <2>1, DieIInv DEF Crash
<1>10. CASE LoadBlind
  <2>1. LoopOK'
    BY <1>10 DEF LoadBlind, IInv, TypeOK, LoopOK, Sight
  <2>2. HistoryOK'
    BY <1>10, Bounds DEF LoadBlind, Fault, IInv, TypeOK, HistoryOK
  <2> QED
    BY <1>10, <2>1, <2>2 DEF LoadBlind
<1>11. CASE Abort
  <2>1. LoopOK'
    BY <1>11 DEF Abort, LoopOK, Sight, Blank, Gone, Record, States, VmStates
  <2>2. HistoryOK'
    BY <1>11, Bounds DEF Abort, Fault, IInv, TypeOK, HistoryOK
  <2>3. UNCHANGED <<op, limiter, misled>> /\ stale' = {}
    BY <1>11 DEF Abort, work
  <2>4. Slots' = Slots
    BY <2>3 DEF Slots
  <2>5. Kept
    BY <2>3, <2>4 DEF Kept, IInv, TypeOK, WorkOK, Staged
  <2> QED
    BY <1>11, <2>1, <2>2, <2>3, <2>5 DEF Abort
<1>2. ASSUME NEW i \in Inst, NEW s \in States, SetState(i, s)
      PROVE  IInv'
  <2>1. RecordsOK'
    BY <1>2 DEF SetState, IInv, TypeOK, RecordsOK, Record
  <2>2. HistoryOK'
    BY <1>2, Bounds DEF SetState, Call, IInv, TypeOK, HistoryOK
  <2> QED
    BY <1>2, <2>1, <2>2 DEF SetState
<1>3. ASSUME NEW i \in Inst, Delete(i)
      PROVE  IInv'
  <2>1. RecordsOK'
    BY <1>3 DEF Delete, IInv, TypeOK, RecordsOK, Record, States
  <2>2. HistoryOK'
    BY <1>3, Bounds DEF Delete, Call, IInv, TypeOK, HistoryOK
  <2> QED
    BY <1>3, <2>1, <2>2 DEF Delete
<1>4. ASSUME NEW i \in Inst, Put(i)
      PROVE  IInv'
  <2>1. HistoryOK'
    BY <1>4, Bounds DEF Put, Call, IInv, TypeOK, HistoryOK, RecordsOK, Record
  <2> QED
    BY <1>4, <2>1 DEF Put
<1>12. ASSUME NEW i \in Inst, PutCommit(i)
      PROVE  IInv'
  <2>1. PICK p \in BOOLEAN : Update(i, [db[i] EXCEPT !.state = put[i], !.protect = p])
    BY <1>12 DEF PutCommit
  <2>2. put[i] \in States /\ db[i] \in Record
    BY <1>12 DEF PutCommit, IInv, TypeOK, HistoryOK, RecordsOK
  <2>3. [db[i] EXCEPT !.state = put[i], !.protect = p] \in Record
    BY <2>2 DEF Record
  <2>4. db' \in [Inst -> Record]
    BY <2>1, <2>3, UpdateTyped
  <2>5. RecordsOK'
    BY <1>12, <2>4 DEF PutCommit, IInv, TypeOK, RecordsOK
  <2>6. HistoryOK'
    BY <1>12 DEF PutCommit, IInv, TypeOK, HistoryOK
  <2> QED
    BY <1>12, <2>5, <2>6 DEF PutCommit
<1>5. ASSUME NEW i \in Inst, ForceDelete(i)
      PROVE  IInv'
  <2>1. RecordsOK'
    BY <1>5 DEF ForceDelete, IInv, TypeOK, RecordsOK, Record, Gone, States, VmStates
  <2>2. HistoryOK'
    BY <1>5, Bounds DEF ForceDelete, Call, IInv, TypeOK, HistoryOK
  <2> QED
    BY <1>5, <2>1, <2>2 DEF ForceDelete
<1>6. ASSUME NEW i \in Inst, Halt(i)
      PROVE  IInv'
  <2>1. HostOK'
    BY <1>6 DEF Halt, IInv, TypeOK, HostOK
  <2> QED
    BY <1>6, <2>1, HistoryUnchanged DEF Halt
<1>7. ASSUME NEW i \in Inst, Exit(i)
      PROVE  IInv'
  <2>1. HostOK'
    BY <1>7 DEF Exit, IInv, TypeOK, HostOK
  <2>2. HistoryOK'
    BY <1>7, Bounds DEF Exit, Fault, IInv, TypeOK, HistoryOK
  <2> QED
    BY <1>7, <2>1, <2>2 DEF Exit
<1>8. ASSUME NEW i \in Inst, Error(i)
      PROVE  IInv'
  <2>1. op[i].at \notin {"none", "hold"}
    BY <1>8, Kinds, StageOfKind DEF Error, IInv, Staged
  <2>2. Kept
    BY <1>8, <2>1, StageKept DEF Error
  <2>3. HistoryOK'
    BY <1>8, Bounds DEF Error, Fault, IInv, TypeOK, HistoryOK
  <2> QED
    BY <1>8, <2>2, <2>3 DEF Error
<1>9. ASSUME NEW i \in Inst, SetStopError(i)
      PROVE  IInv'
  BY <1>9, SetStopErrorIInv
<1>13. ASSUME NEW i \in Inst, DeleteCheck(i)
       PROVE  IInv'
  <2>1. HistoryOK'
    BY <1>13, Bounds DEF DeleteCheck, Call, IInv, TypeOK, HistoryOK
  <2> QED
    BY <1>13, <2>1 DEF DeleteCheck
<1>14. ASSUME NEW i \in Inst, DeleteCommit(i)
       PROVE  IInv'
  <2>1. [db[i] EXCEPT !.state = "destroy"] \in Record
    BY DEF IInv, TypeOK, RecordsOK, Record, States
  <2>2. db' \in [Inst -> Record]
    BY <1>14, <2>1, UpdateTyped DEF DeleteCommit
  <2>3. RecordsOK'
    BY <1>14, <2>2 DEF DeleteCommit, IInv, TypeOK, RecordsOK
  <2>4. HistoryOK'
    BY <1>14 DEF DeleteCommit, IInv, TypeOK, HistoryOK
  <2> QED
    BY <1>14, <2>3, <2>4 DEF DeleteCommit
<1>15. ASSUME NEW i \in Inst, QueryFails(i)
       PROVE  IInv'
  <2>1. LoopOK'
    BY <1>15 DEF QueryFails, IInv, TypeOK, LoopOK, Sight
  <2>2. HistoryOK'
    BY <1>15, Bounds DEF QueryFails, Fault, IInv, TypeOK, HistoryOK
  <2> QED
    BY <1>15, <2>1, <2>2 DEF QueryFails
<1>16. ASSUME NEW i \in Inst, ForceFails(i)
       PROVE  IInv'
  <2>1. LoopOK'
    BY <1>16 DEF ForceFails, IInv, TypeOK, LoopOK, Sight
  <2>2. UNCHANGED <<op, limiter, misled>> /\ stale' \subseteq Inst
    BY <1>16 DEF ForceFails, work, IInv, TypeOK, WorkOK
  <2>3. Slots' = Slots
    BY <2>2 DEF Slots
  <2>4. Kept
    BY <2>2, <2>3 DEF Kept, IInv, TypeOK, WorkOK, Staged
  <2> QED
    BY <1>16, <2>1, <2>2, <2>4, HistoryUnchanged DEF ForceFails
<1> QED
  BY <1>1, <1>2, <1>3, <1>4, <1>5, <1>6, <1>7, <1>8, <1>9,
     <1>10, <1>11, <1>12, <1>13, <1>14, <1>15, <1>16 DEF Environment

LEMMA NextIInv == IInv /\ [Next]_vars => IInv'
<1> SUFFICES ASSUME IInv, [Next]_vars PROVE IInv'
  OBVIOUS
<1>1. CASE UNCHANGED vars
  BY <1>1, RecordsUnchanged, HostUnchanged, LoopUnchanged, HistoryUnchanged,
     WorkUnchanged, KeptIInv DEF vars
<1>2. CASE LoopStep
  BY <1>2, LoopIInv
<1>3. CASE Environment
  BY <1>3, EnvironmentIInv
<1>4. CASE \E i \in Inst : OpStep(i)
  BY <1>4, OpIInv
<1> QED
  BY <1>1, <1>2, <1>3, <1>4 DEF Next
-----------------------------------------------------------------------------
\* In every reachable state of the deploy loop the types, the stages of the
\* goroutines and the account of the limiter are in order.
THEOREM Invariance == Spec => []IInv
<1>1. Init => IInv
  BY InitIInv
<1>2. IInv /\ [Next]_vars => IInv'
  BY NextIInv
<1> QED
  BY <1>1, <1>2, PTL DEF Spec

\* The state of the loop, of its goroutines and of what they drive is well
\* typed; in particular limiter.Release never meets a counter of zero.
THEOREM TypeCorrect == Spec => []TypeOK
<1>1. IInv => TypeOK
  BY DEF IInv
<1> QED
  BY <1>1, Invariance, PTL

\* The limiter's counter is the number of goroutines that hold a slot, and at
\* most the limit: no error path, early return, power off after a failed boot
\* or hot plug leaks a slot or gives one back twice.
THEOREM LimiterIsExact == Spec => []LimiterExact
<1>1. IInv => LimiterExact
  BY DEF IInv
<1> QED
  BY <1>1, Invariance, PTL
=============================================================================
