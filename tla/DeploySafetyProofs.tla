------------------------- MODULE DeploySafetyProofs -------------------------
(***************************************************************************)
(* What the goroutines of the deploy loop may rely on.                     *)
(*                                                                         *)
(* A goroutine is started on what a snapshot said of its instance, and the *)
(* snapshot may be seconds old.  BaseInv is what holds all the same: every *)
(* step of DeployInstances is a step of VmLifecycle or a stutter.  The     *)
(* rest is about the instances that were not misled: the snapshot that was *)
(* decided on was not outdated by an earlier goroutine.  HostInv is about  *)
(* their units, CleanInv about what a removed record leaves behind,        *)
(* IntactInv about what a running VM uses.                                 *)
(***************************************************************************)
EXTENDS DeployInstancesProofs

\* No goroutine has changed anything of i since the cycle began: there is
\* none at work, and none has ended its work meanwhile.
Untouched(i) ==
    /\ i \notin stale
    /\ op[i].kind \in {"none", "plug"} \/ op[i].at = "hold"

\* The snapshot is still true of the disk and the unit of an untouched
\* instance; a guest may have halted since.
Looked(i) ==
    Untouched(i) =>
        /\ runner \in {"load", "query", "deploy"} =>
             (snap[i].disk <=> disk[i] = "available")
        /\ runner \in {"query", "deploy"} /\ snap[i].virt \in {"nil", "cut", "stopped"} =>
             unit[i] # "active"

\* What a goroutine that was not misled finds of the unit on its way to a boot.
Halted(i) ==
    /\ op[i].at \in {"commit", "disk", "service", "launch"} => unit[i] # "active"
    /\ op[i].kind = "restart" /\ op[i].at \in {"clear", "pause"} => unit[i] # "active"

\* The records are read after the disks: until then the snapshot has none.
Unread(i) == runner = "load" => snap[i].rec = Gone

HostGood(i) == Looked(i) /\ Unread(i) /\ (i \notin misled => Halted(i))

HostInv == \A i \in Inst : HostGood(i)

-----------------------------------------------------------------------------
(* How goroutines move.                                                      *)

\* Who reaches each stage, and where it goes on from there.
LEMMA Routes ==
  ASSUME NEW k \in Limited, NEW s \in DOMAIN Flow[k]
  PROVE  /\ s = "commit" => k = "create" /\ Flow[k][s] = "disk"
         /\ s = "disk" => k = "create" /\ Flow[k][s] = "service"
         /\ s \in {"service", "launch", "wait", "network"}
              => k \in {"create", "start", "restart"}
         /\ s = "service" => Flow[k][s] = "launch"
         /\ s = "launch" => Flow[k][s] = "wait"
         /\ s = "wait" => Flow[k][s] = "network"
         /\ s = "network" => Flow[k][s] \in {"setstart", "hold"}
         /\ s = "off" => k \in {"stop", "restart", "destroy"}
                         /\ Flow[k][s] \in {"clear", "pause"}
         /\ s = "clear" /\ k = "destroy" => Flow[k][s] = "disks"
         /\ s = "clear" /\ k # "destroy" => Flow[k][s] = "pause"
         /\ s = "pause" => \/ k = "stop" /\ Flow[k][s] = "hold"
                           \/ k = "restart" /\ Flow[k][s] = "service"
                           \/ k = "cleanup" /\ Flow[k][s] = "setstop"
                           \/ k = "destroy" /\ Flow[k][s] = "clear"
         /\ s = "kill" => k \in {"stop", "restart", "destroy"} /\ Flow[k][s] = "unwire"
         /\ s = "unwire" => k \in {"stop", "restart", "destroy"} /\ Flow[k][s] = "hold"
         /\ s = "setstop" => k # "destroy" /\ Flow[k][s] = "hold"
         /\ s = "setstart" => k = "restart" /\ Flow[k][s] = "hold"
         /\ s \in {"get", "probe", "disks", "files", "release", "delete"}
              => k = "destroy"
         /\ s = "get" => Flow[k][s] = "probe"
         /\ s = "probe" => Flow[k][s] = "off"
         /\ s = "disks" => Flow[k][s] = "files"
         /\ s = "files" => Flow[k][s] = "release"
         /\ s = "release" => Flow[k][s] = "delete"
         /\ s = "delete" => Flow[k][s] = "hold"
BY Kinds DEF Flow

\* A goroutine of i moves to stage s; if that ends its work the loop, unless
\* it is between two cycles, will not find i untouched in this cycle.
Moved(i, s) ==
    /\ op'[i].at = s /\ op'[i].kind = op[i].kind /\ op'[i].disk = op[i].disk
    /\ op[i].kind \in Limited
    /\ runner # "idle" => ~Untouched(i)'

LEMMA GotoMoved ==
  ASSUME IInv, NEW i \in Inst, NEW s, op[i].kind \in Limited, Goto(i, s)
  PROVE  Moved(i, s)
<1>1. op' = [op EXCEPT ![i].at = s] /\ op \in [Inst -> Goroutines]
  BY DEF Goto, IInv, TypeOK, WorkOK
<1>2. op'[i].at = s /\ op'[i].kind = op[i].kind /\ op'[i].disk = op[i].disk
  BY <1>1 DEF Goroutines
<1>3. "plug" \notin Limited /\ "none" \notin Limited
  BY Kinds
<1>4. ASSUME runner # "idle" PROVE ~Untouched(i)'
  <2>1. s = "hold" => i \in stale'
    BY <1>4 DEF Goto
  <2> QED
    BY <1>2, <1>3, <2>1 DEF Untouched
<1> QED
  BY <1>2, <1>4 DEF Moved

LEMMA AdvanceMoved ==
  ASSUME IInv, NEW i \in Inst, op[i].at \notin {"none", "hold"}, Advance(i)
  PROVE  /\ Moved(i, Flow[op[i].kind][op[i].at])
         /\ op[i].kind \in Limited /\ op[i].at \in DOMAIN Flow[op[i].kind]
BY Working, GotoMoved DEF Advance

\* All that an action may change of j is as before.
Same(j) ==
    /\ op'[j] = op[j]
    /\ (j \in stale' <=> j \in stale) /\ (j \in misled' <=> j \in misled)
    /\ db'[j] = db[j] /\ addr'[j] = addr[j] /\ disk'[j] = disk[j]
    /\ unit'[j] = unit[j]
    /\ runner' = runner /\ snap'[j] = snap[j] /\ (j \in todo' <=> j \in todo)
    /\ (j \in doomed' <=> j \in doomed) /\ put'[j] = put[j]

LEMMA GotoSame ==
  ASSUME IInv, NEW i \in Inst, NEW j \in Inst, j # i, NEW s, Goto(i, s)
  PROVE  op'[j] = op[j] /\ (j \in stale' <=> j \in stale)
BY DEF Goto, IInv, TypeOK, WorkOK

\* A goroutine works for its own instance only.
LEMMA OpSame ==
  ASSUME IInv, NEW i \in Inst, OpStep(i), NEW j \in Inst, j # i
  PROVE  Same(j)
<1> USE DEF Same, records, host, loop, hindsight, history, Advance, Update
<1>1. db \in [Inst -> Record] /\ addr \in [Inst -> BOOLEAN] /\ op \in [Inst -> Goroutines]
      /\ disk \in [Inst -> {"none", "available", "destroy"}]
      /\ unit \in [Inst -> {"none", "inactive", "active"}]
  BY DEF IInv, TypeOK, RecordsOK, HostOK, WorkOK
<1>2. CASE Commit(i) \/ SetStop(i) \/ SetStart(i) \/ OffSeen(i) \/ DeleteRecord(i)
  BY <1>1, <1>2, GotoSame DEF Commit, SetStop, SetStart, OffSeen, DeleteRecord
<1>3. CASE Disk(i) \/ Disks(i)
  BY <1>1, <1>3, GotoSame DEF Disk, Disks
<1>4. CASE Service(i) \/ Launch(i) \/ Network(i)
  BY <1>1, <1>4, GotoSame DEF Service, Launch, Network
<1>5. CASE Wait(i) \/ Pause(i) \/ Get(i) \/ Probe(i)
  BY <1>1, <1>5, GotoSame DEF Wait, Pause, Get, Probe
<1>6. CASE OffForced(i) \/ Clear(i) \/ Files(i) \/ Kill(i) \/ Unwire(i)
  BY <1>1, <1>6, GotoSame DEF OffForced, Clear, Files, Kill, Unwire
<1>7. CASE FreeAddr(i)
  BY <1>1, <1>7, GotoSame DEF FreeAddr
<1>8. CASE Release(i)
  BY <1>1, <1>8 DEF Release
<1> QED
  BY <1>2, <1>3, <1>4, <1>5, <1>6, <1>7, <1>8 DEF OpStep

-----------------------------------------------------------------------------
(* What holds however old the snapshot was.                                  *)

\* The disk is written before the unit and never forgotten, the address
\* reserved before the boot and kept while the VM runs.
Supplied(i) ==
    /\ unit[i] # "none" \/ snap[i].virt # "nil" => disk[i] # "none"
    /\ op[i].at \in {"service", "launch"} \/ op[i].kind \in {"start", "restart"} =>
         disk[i] # "none"
    /\ op[i].at = "launch" => unit[i] # "none"
    /\ op[i].at \in {"launch", "wait", "network"} \/ unit[i] = "active" => addr[i]

\* A destroy goes on to the disk when the VM is off, to the addresses when its
\* files are gone and to the record when its addresses are free.
Torn(i) ==
    /\ op[i].kind = "destroy" /\ op[i].at \in {"pause", "clear", "disks", "files"} =>
         unit[i] # "active"
    /\ op[i].at \in {"release", "delete"} => unit[i] = "none"
    /\ op[i].at = "delete" => ~addr[i]

BaseGood(i) == Supplied(i) /\ Torn(i)

BaseInv == \A i \in Inst : BaseGood(i)

LEMMA SameBase ==
  ASSUME NEW j, BaseGood(j), Same(j)
  PROVE  BaseGood(j)'
BY DEF BaseGood, Supplied, Torn, Same

\* Every step of a goroutine but its last moves it from a stage to a stage.
LEMMA OpMoved ==
  ASSUME IInv, NEW i \in Inst, OpStep(i), ~Release(i)
  PROVE  /\ op[i].at \notin {"none", "hold"} /\ UNCHANGED loop
         /\ op[i].kind \in Limited /\ op[i].at \in DOMAIN Flow[op[i].kind]
         /\ \E s \in Stages : Moved(i, s)
<1>1. op[i].at \notin {"none", "hold"} /\ UNCHANGED loop
  BY DEF OpStep, Commit, Disk, Service, Launch, Wait, Network, OffSeen, OffForced,
         Kill, Unwire, Clear, Pause, SetStop, SetStart, Get, Probe, Disks, Files,
         FreeAddr, DeleteRecord, At
<1>2. /\ op[i].kind \in Limited /\ op[i].at \in DOMAIN Flow[op[i].kind]
      /\ DOMAIN Flow[op[i].kind] \cup {"hold"} \subseteq Stages
      /\ Flow[op[i].kind][op[i].at] \in DOMAIN Flow[op[i].kind] \cup {"hold"}
  BY <1>1, Working, StagesOf, FlowClosed
<1>3. Advance(i) \/ \E s \in {"hold", "setstop", "off", "pause"} : Goto(i, s)
  BY DEF OpStep, Commit, Disk, Service, Launch, Wait, Network, OffSeen, OffForced,
         Kill, Unwire, Clear, Pause, SetStop, SetStart, Get, Probe, Disks, Files,
         FreeAddr, DeleteRecord
<1>4. {"hold", "setstop", "off", "pause"} \subseteq Stages
  BY Kinds DEF Stages, Flow
<1>5. \E s \in Stages : Goto(i, s)
  BY <1>2, <1>3, <1>4 DEF Advance
<1> QED
  BY <1>1, <1>2, <1>5, GotoMoved

\* A step of i's goroutine, where it goes and what it leaves of the disk, the
\* address and the unit.
LEMMA OpBaseGood ==
  ASSUME IInv, NEW i \in Inst, BaseGood(i), OpStep(i)
  PROVE  BaseGood(i)'
<1> USE DEF At
<1>1. /\ unit \in [Inst -> {"none", "inactive", "active"}]
      /\ addr \in [Inst -> BOOLEAN]
      /\ disk \in [Inst -> {"none", "available", "destroy"}]
      /\ Supplied(i) /\ Torn(i)
  BY DEF IInv, TypeOK, HostOK, RecordsOK, BaseGood
<1>2. ASSUME Advance(i), op[i].at \notin {"none", "hold"}
      PROVE  /\ Moved(i, Flow[op[i].kind][op[i].at])
             /\ op[i].kind \in Limited /\ op[i].at \in DOMAIN Flow[op[i].kind]
  BY <1>2, AdvanceMoved
<1>3. ASSUME NEW s, Goto(i, s), op[i].at \notin {"none", "hold"}
      PROVE  op'[i].at = s /\ op'[i].kind = op[i].kind
  BY <1>3, Working, GotoMoved DEF Moved
<1>4. snap' = snap
  BY OpMoved DEF loop, Release
<1>5. CASE Disk(i)
  <2>1. /\ op'[i].at = "service" /\ op'[i].kind = "create" /\ op[i].at = "disk"
        /\ UNCHANGED <<addr, unit>> /\ disk'[i] # "none"
    BY <1>1, <1>2, <1>5, Routes DEF Disk, Moved, host
  <2> QED
    BY <1>1, <1>4, <2>1 DEF BaseGood, Supplied, Torn
<1>6. CASE Service(i)
  <2>1. /\ op'[i].at = "launch" /\ op'[i].kind = op[i].kind
        /\ UNCHANGED disk /\ addr'[i] /\ op[i].at = "service"
        /\ unit'[i] # "none"
    BY <1>1, <1>2, <1>6, Routes DEF Service, Moved
  <2> QED
    BY <1>1, <1>4, <2>1 DEF BaseGood, Supplied, Torn
<1>7. CASE Launch(i)
  <2>1. /\ op'[i].at = "wait" /\ op'[i].kind = op[i].kind
        /\ UNCHANGED <<disk, addr>> /\ op[i].at = "launch"
    BY <1>1, <1>2, <1>7, Routes DEF Launch, Moved
  <2> QED
    BY <1>1, <1>4, <2>1 DEF BaseGood, Supplied, Torn
<1>8. CASE Disks(i)
  <2>1. /\ op'[i].at = "files" /\ op'[i].kind = "destroy" /\ op[i].at = "disks"
        /\ op[i].kind = "destroy"
        /\ UNCHANGED <<addr, unit>> /\ disk'[i] \in {disk[i], "destroy"}
    BY <1>1, <1>2, <1>8, Routes DEF Disks, Moved, host
  <2> QED
    BY <1>1, <1>4, <2>1 DEF BaseGood, Supplied, Torn
<1>9. CASE FreeAddr(i)
  <2>1. /\ op'[i].kind = "destroy" /\ op[i].at = "release"
        /\ UNCHANGED <<disk, unit>> /\ unit[i] = "none"
        /\ op'[i].at = "hold" \/ (op'[i].at = "delete" /\ ~addr'[i])
    BY <1>1, <1>2, <1>3, <1>9, Routes, Working DEF FreeAddr, Moved, host, Torn
  <2> QED
    BY <1>1, <1>4, <2>1 DEF BaseGood, Supplied, Torn
<1>10. CASE Network(i)
  <2>1. /\ op'[i].at \in {"setstart", "hold"} /\ op'[i].kind = op[i].kind
        /\ UNCHANGED <<disk, unit>> /\ addr'[i]
    BY <1>1, <1>2, <1>10, Routes DEF Network, Moved
  <2> QED
    BY <1>1, <1>4, <2>1 DEF BaseGood, Supplied, Torn
<1>11. CASE Wait(i)
  <2>1. /\ op'[i].at \in {"network", "setstop"} /\ op'[i].kind = op[i].kind
        /\ UNCHANGED <<disk, addr, unit>> /\ op[i].at = "wait"
    BY <1>1, <1>2, <1>3, <1>11, Routes DEF Wait, Moved, host, records
  <2> QED
    BY <1>1, <1>4, <2>1 DEF BaseGood, Supplied, Torn
<1>12. CASE Pause(i)
  <2>1. /\ op'[i].kind = op[i].kind /\ op[i].at = "pause"
        /\ \/ op[i].kind = "destroy" /\ op'[i].at = "clear"
           \/ op[i].kind # "destroy" /\ op'[i].at \in {"hold", "setstop"}
           \/ op[i].kind = "restart" /\ op'[i].at = "service"
        /\ UNCHANGED <<disk, addr, unit>>
    BY <1>1, <1>2, <1>12, Routes DEF Pause, Moved, host, records
  <2> QED
    BY <1>1, <1>4, <2>1 DEF BaseGood, Supplied, Torn
<1>13. CASE OffSeen(i) \/ OffForced(i) \/ Kill(i)
  <2>1. /\ op'[i].kind = op[i].kind /\ op'[i].at \in {"clear", "pause", "unwire"}
        /\ UNCHANGED <<disk, addr>>
        /\ unit'[i] # "active" /\ (unit'[i] = "none" <=> unit[i] = "none")
    BY <1>1, <1>2, <1>13, Routes DEF OffSeen, OffForced, Kill, Moved, host, records
  <2> QED
    BY <1>1, <1>4, <2>1 DEF BaseGood, Supplied, Torn
<1>14. CASE Clear(i)
  <2>1. /\ op'[i].kind = op[i].kind /\ op'[i].at \in {"disks", "pause"}
        /\ op[i].at = "clear" /\ UNCHANGED <<disk, addr, unit>>
    BY <1>1, <1>2, <1>14, Routes DEF Clear, Moved, records
  <2> QED
    BY <1>1, <1>4, <2>1 DEF BaseGood, Supplied, Torn
<1>15. CASE Files(i)
  <2>1. /\ op'[i].kind = op[i].kind /\ op'[i].at = "release"
        /\ op[i].kind = "destroy"
        /\ UNCHANGED <<disk, addr>> /\ unit'[i] = "none"
    BY <1>1, <1>2, <1>15, Routes DEF Files, Moved, records
  <2> QED
    BY <1>1, <1>4, <2>1 DEF BaseGood, Supplied, Torn
<1>16. CASE Probe(i)
  <2>1. /\ op'[i].kind = op[i].kind /\ UNCHANGED <<disk, addr, unit>>
        /\ op'[i].at = "off" \/ (op'[i].at = "pause" /\ unit[i] # "active")
    BY <1>3, <1>16 DEF Probe, host, records
  <2> QED
    BY <1>1, <1>4, <2>1 DEF BaseGood, Supplied, Torn
<1>17. CASE Commit(i) \/ SetStop(i) \/ SetStart(i) \/ Unwire(i) \/ Get(i)
  <2>1. op'[i].kind = op[i].kind /\ op'[i].at \in {"disk", "hold", "probe"}
    BY <1>2, <1>3, <1>17, Routes DEF Commit, SetStop, SetStart, Unwire, Get, Moved
  <2>2. UNCHANGED <<disk, addr, unit>>
    BY <1>17 DEF Commit, SetStop, SetStart, Unwire, Get, host, records
  <2> QED
    BY <1>1, <1>4, <2>1, <2>2 DEF BaseGood, Supplied, Torn
<1>18. CASE DeleteRecord(i)
  <2>1. op'[i].kind = op[i].kind /\ op'[i].at = "hold" /\ UNCHANGED <<disk, addr, unit>>
    BY <1>2, <1>18, Routes DEF DeleteRecord, Moved, host
  <2> QED
    BY <1>1, <1>4, <2>1 DEF BaseGood, Supplied, Torn
<1>19. CASE Release(i)
  <2>1. op'[i].at = "none" /\ op'[i].kind = "none" /\ UNCHANGED <<disk, addr, unit>>
    BY <1>19 DEF Release, Idle, IInv, TypeOK, WorkOK, host, records
  <2> QED
    BY <1>1, <1>4, <2>1 DEF BaseGood, Supplied, Torn
<1> QED
  BY <1>5, <1>6, <1>7, <1>8, <1>9, <1>10, <1>11, <1>12, <1>13, <1>14, <1>15, <1>16,
     <1>17, <1>18, <1>19 DEF OpStep

LEMMA OpBase ==
  ASSUME IInv, BaseInv, NEW i \in Inst, OpStep(i)
  PROVE  BaseInv'
<1>1. BaseGood(i)'
  BY OpBaseGood DEF BaseInv
<1>2. ASSUME NEW j \in Inst, j # i PROVE BaseGood(j)'
  BY <1>2, OpSame, SameBase DEF BaseInv
<1> QED
  BY <1>1, <1>2 DEF BaseInv

LEMMA InitBase == Init => BaseInv
BY DEF Init, BaseInv, BaseGood, Supplied, Torn, Idle, Blank

LEMMA DieBase ==
  ASSUME BaseInv, Die
  PROVE  BaseInv'
BY DEF Die, BaseInv, BaseGood, Supplied, Torn, Idle, Blank, records, host

\* What the loop starts finds a disk where it needs one: it saw a unit.
LEMMA GoroutineBase ==
  ASSUME IInv, NEW i \in Inst, BaseGood(i),
         NEW k \in Wanted(i), k \in Limited \cup {"plug"}, Goroutine(i, k),
         UNCHANGED <<records, host, runner, snap>>
  PROVE  BaseGood(i)'
<1>1. op' = [op EXCEPT ![i] = [kind |-> k, at |-> Entry[k],
                               disk |-> k = "destroy" /\ snap[i].disk]]
      /\ op \in [Inst -> Goroutines]
  BY DEF Goroutine, IInv, TypeOK, WorkOK
<1>2. op'[i].kind = k /\ op'[i].at = Entry[k]
  BY <1>1
<1>3. k \in {"start", "restart"} => snap[i].virt # "nil"
  BY DEF Wanted
<1>4. /\ Entry[k] \notin {"launch", "wait", "network", "release", "delete",
                          "pause", "disks", "files"}
      /\ Entry[k] = "service" => k = "start"
      /\ Entry[k] = "clear" => k = "cleanup"
  BY Kinds DEF Entry
<1> QED
  BY <1>2, <1>3, <1>4 DEF BaseGood, Supplied, Torn, records, host

LEMMA LoopBase ==
  ASSUME IInv, BaseInv, LoopStep
  PROVE  BaseInv'
<1> USE DEF records, host, loop, work, history
<1>0. /\ \A j \in Inst : BaseGood(j)
      /\ snap \in [Inst -> Sight] /\ unit \in [Inst -> {"none", "inactive", "active"}]
  BY DEF BaseInv, IInv, TypeOK, LoopOK, HostOK
<1>1. CASE Gather \/ Namespaces
  <2>1. \A j \in Inst : snap'[j].virt = "nil"
    <3>1. \A x, y \in BOOLEAN : [Blank EXCEPT !.ns = x, !.disk = y].virt = "nil"
      BY DEF Blank
    <3>2. Gather => \A j \in Inst : \E x, y \in BOOLEAN : snap'[j] = [Blank EXCEPT !.ns = x, !.disk = y]
      BY DEF Gather
    <3>3. Namespaces => \A j \in Inst : snap'[j].virt = "nil"
      BY DEF Namespaces, Blank
    <3> QED
      BY <1>1, <3>1, <3>2, <3>3
  <2>2. UNCHANGED <<records, unit, op>>
    BY <1>1 DEF Gather, Namespaces
  <2> QED
    BY <1>0, <2>1, <2>2 DEF BaseInv, BaseGood, Supplied, Torn
<1>2. CASE Boot \/ Decide
  BY <1>0, <1>2 DEF Boot, Decide, BaseInv, BaseGood, Supplied, Torn
<1>3. CASE Load
  <2>1. \A j \in Inst : snap'[j].virt = IF unit[j] = "none" THEN "nil" ELSE "listed"
    BY <1>0, <1>3 DEF Load, Sight
  <2>2. UNCHANGED <<records, host, work>>
    BY <1>3 DEF Load
  <2> QED
    BY <1>0, <2>1, <2>2 DEF BaseInv, BaseGood, Supplied, Torn
<1>4. ASSUME NEW i \in Inst, QueryGone(i) \/ PanicDestroy(i)
      PROVE  BaseInv'
  BY <1>4, DieBase DEF QueryGone, PanicDestroy
<1>5. ASSUME NEW i \in Inst,
             Query(i) \/ Report(i) \/ ForceOff(i) \/ ForceClear(i)
      PROVE  BaseInv'
  <2>1. \A j \in Inst : snap'[j].virt = "nil" \/ snap[j].virt # "nil"
                        \/ snap'[j].virt = snap[j].virt
    BY <1>0, <1>5 DEF Query, Report, ForceOff, ForceClear, Sight
  <2>2. UNCHANGED <<addr, disk, op>>
    BY <1>5 DEF Query, Report, ForceOff, ForceClear
  <2>3. \A j \in Inst : /\ unit'[j] = "none" <=> unit[j] = "none"
                        /\ unit'[j] = "active" => unit[j] = "active"
    BY <1>0, <1>5 DEF Query, Report, ForceOff, ForceClear
  <2> QED
    BY <1>0, <2>1, <2>2, <2>3 DEF BaseInv, BaseGood, Supplied, Torn
<1>6. ASSUME NEW i \in Inst,
             Dispatch(i) \/ DispatchPlug(i) \/ DispatchNothing(i) \/ IgnoreDestroy(i)
      PROVE  BaseInv'
  <2>1. UNCHANGED <<addr, disk, host, runner, snap>>
    BY <1>6 DEF Dispatch, DispatchPlug, DispatchNothing, IgnoreDestroy
  <2>2. \/ op' = op
        \/ /\ UNCHANGED db
           /\ \E k \in Wanted(i) : /\ k \in Limited \cup {"plug"} /\ Goroutine(i, k)
    BY <1>6 DEF Dispatch, DispatchPlug, DispatchNothing, IgnoreDestroy
  <2>3. CASE op' = op
    BY <1>0, <2>1, <2>3 DEF BaseInv, BaseGood, Supplied, Torn
  <2>4. ASSUME NEW k \in Wanted(i), k \in Limited \cup {"plug"}, Goroutine(i, k), UNCHANGED db
        PROVE  BaseInv'
    <3>1. BaseGood(i)'
      BY <1>0, <2>1, <2>4, GoroutineBase
    <3>2. ASSUME NEW j \in Inst, j # i PROVE BaseGood(j)'
      <4>1. op'[j] = op[j]
        BY <2>4, <3>2 DEF Goroutine, IInv, TypeOK, WorkOK
      <4> QED
        BY <1>0, <2>1, <4>1 DEF BaseGood, Supplied, Torn
    <3> QED
      BY <3>1, <3>2 DEF BaseInv
  <2> QED
    BY <2>2, <2>3, <2>4
<1> QED
  BY <1>1, <1>2, <1>3, <1>4, <1>5, <1>6 DEF LoopStep

\* A failing call of a goroutine, or a failing SetState, leads to no boot.
LEMMA FailedMoved ==
  ASSUME IInv, NEW i \in Inst, Error(i) \/ SetStopError(i)
  PROVE  /\ UNCHANGED <<records, host, loop, doomed, put, misled>>
         /\ op[i].kind \in Limited /\ op[i].at \notin {"none", "hold"}
         /\ op'[i].kind \in {op[i].kind, "stop"}
         /\ op'[i].at \in {"hold", "pause", "setstop", "kill", "off"}
         /\ op'[i].at = "pause" => op'[i].kind = "cleanup"
         /\ op'[i].at = "off" => op'[i].kind = "stop"
         /\ runner # "idle" => ~Untouched(i)'
         /\ \A j \in Inst : j # i => op'[j] = op[j] /\ (j \in stale' <=> j \in stale)
<1>1. UNCHANGED <<records, host, loop, doomed, put, misled>>
  BY DEF Error, SetStopError
<1>2. op[i].at \notin {"none", "hold"} /\ op[i].kind \in Limited
  BY Working, Kinds, StageOfKind DEF Error, SetStopError, At, IInv, Staged
<1>3. ASSUME NEW s \in {"hold", "pause", "setstop", "kill"}, Goto(i, s),
             s = "pause" => op[i].kind = "cleanup"
      PROVE  /\ op'[i].kind = op[i].kind /\ op'[i].at = s
             /\ runner # "idle" => ~Untouched(i)'
             /\ \A j \in Inst : j # i => op'[j] = op[j] /\ (j \in stale' <=> j \in stale)
  BY <1>2, <1>3, GotoMoved, GotoSame DEF Moved
<1>4. CASE Error(i)
  <2>1. \E s \in {"hold", "pause", "setstop", "kill"} :
           Goto(i, s) /\ (s = "pause" => op[i].kind = "cleanup")
    BY <1>4 DEF Error, OnError
  <2> QED
    BY <1>1, <1>2, <1>3, <2>1
<1>5. CASE SetStopError(i) /\ op[i].kind = "cleanup"
  <2>1. Goto(i, "hold")
    BY <1>5 DEF SetStopError
  <2> QED
    BY <1>1, <1>2, <1>3, <2>1
<1>6. CASE SetStopError(i) /\ op[i].kind # "cleanup"
  <2>1. op' = [op EXCEPT ![i].kind = "stop", ![i].at = "off"] /\ stale' = stale
        /\ op \in [Inst -> Goroutines]
    BY <1>6 DEF SetStopError, IInv, TypeOK, WorkOK
  <2>2. /\ op'[i].kind = "stop" /\ op'[i].at = "off"
        /\ \A j \in Inst : j # i => op'[j] = op[j]
    BY <2>1 DEF Goroutines
  <2> QED
    BY <1>1, <1>2, <2>1, <2>2 DEF Untouched
<1> QED
  BY <1>4, <1>5, <1>6

\* A guest that halts, by itself or because it was asked to.
LEMMA HaltedUnit ==
  ASSUME IInv, NEW i \in Inst, Halt(i) \/ Exit(i)
  PROVE  /\ UNCHANGED <<records, loop, work, hindsight, doomed, put>>
         /\ unit[i] = "active" /\ unit'[i] = "inactive"
         /\ \A j \in Inst : j # i => unit'[j] = unit[j]
BY DEF Halt, Exit, IInv, TypeOK, HostOK, history

\* Without a forced delete nobody but a goroutine frees an address.
LEMMA EnvironmentBase ==
  ASSUME IInv, BaseInv, Environment, "force" \notin Calls
  PROVE  BaseInv'
<1> USE DEF records, host, loop, work, history
<1>0. /\ \A j \in Inst : BaseGood(j)
      /\ snap \in [Inst -> Sight]
  BY DEF BaseInv, IInv, TypeOK, LoopOK
<1>1. CASE Crash
  BY <1>1, DieBase DEF Crash
<1>2. CASE LoadBlind
  <2>1. \A j \in Inst : snap'[j].virt = IF unit[j] = "none" THEN "nil" ELSE "listed"
    BY <1>0, <1>2 DEF LoadBlind, Sight
  <2>2. UNCHANGED <<records, host, work>>
    BY <1>2 DEF LoadBlind
  <2> QED
    BY <1>0, <2>1, <2>2 DEF BaseInv, BaseGood, Supplied, Torn
<1>3. CASE Abort
  BY <1>0, <1>3 DEF Abort, BaseInv, BaseGood, Supplied, Torn, Blank
<1>4. ASSUME NEW i \in Inst,
             \/ \E s \in States : SetState(i, s)
             \/ Delete(i) \/ DeleteCheck(i) \/ DeleteCommit(i) \/ Put(i) \/ PutCommit(i)
      PROVE  BaseInv'
  <2>1. UNCHANGED <<addr, disk, host, loop, work>>
    BY <1>4 DEF SetState, Delete, DeleteCheck, DeleteCommit, Put, PutCommit
  <2> QED
    BY <1>0, <2>1 DEF BaseInv, BaseGood, Supplied, Torn
<1>5. ASSUME NEW i \in Inst, ForceDelete(i)
      PROVE  BaseInv'
  BY <1>5 DEF ForceDelete, Call
<1>6. ASSUME NEW i \in Inst, Halt(i) \/ Exit(i)
      PROVE  BaseInv'
  <2>1. \A j \in Inst : /\ unit'[j] = "none" <=> unit[j] = "none"
                        /\ unit'[j] = "active" => unit[j] = "active"
    BY <1>6, HaltedUnit
  <2>2. UNCHANGED <<records, loop, work>>
    BY <1>6, HaltedUnit
  <2> QED
    BY <1>0, <2>1, <2>2 DEF BaseInv, BaseGood, Supplied, Torn
<1>7. ASSUME NEW i \in Inst, Error(i) \/ SetStopError(i)
      PROVE  BaseInv'
  <2>1. BaseGood(i)'
    BY <1>0, <1>7, FailedMoved DEF BaseGood, Supplied, Torn
  <2>2. ASSUME NEW j \in Inst, j # i PROVE BaseGood(j)'
    BY <1>0, <1>7, <2>2, FailedMoved DEF BaseGood, Supplied, Torn
  <2> QED
    BY <2>1, <2>2 DEF BaseInv
<1>8. ASSUME NEW i \in Inst, QueryFails(i) \/ ForceFails(i)
      PROVE  BaseInv'
  <2>1. \A j \in Inst : snap'[j].virt = "nil" \/ snap[j].virt # "nil"
                        \/ snap'[j].virt = snap[j].virt
    BY <1>0, <1>8 DEF QueryFails, ForceFails, Sight
  <2>2. UNCHANGED <<records, unit, op>>
    BY <1>8 DEF QueryFails, ForceFails
  <2> QED
    BY <1>0, <2>1, <2>2 DEF BaseInv, BaseGood, Supplied, Torn
<1> QED
  BY <1>1, <1>2, <1>3, <1>4, <1>5, <1>6, <1>7, <1>8 DEF Environment

\* However old a snapshot was when it was acted on, a VM has had a root disk
\* before its unit, has an address while it runs, and a destroy takes its
\* files, its addresses and its record in this order.
THEOREM BaseInvariance ==
  ASSUME "force" \notin Calls
  PROVE  Spec => []BaseInv
<1>1. Init => BaseInv
  BY InitBase
<1>2. IInv /\ BaseInv /\ [Next]_vars => BaseInv'
  <2> SUFFICES ASSUME IInv, BaseInv, [Next]_vars PROVE BaseInv'
    OBVIOUS
  <2>1. CASE UNCHANGED vars
    BY <2>1 DEF vars, records, host, loop, work, BaseInv, BaseGood, Supplied, Torn
  <2>2. CASE Next
    BY <2>2, LoopBase, EnvironmentBase, OpBase DEF Next
  <2> QED
    BY <2>1, <2>2
<1> QED
  BY <1>1, <1>2, Invariance, PTL DEF Spec

-----------------------------------------------------------------------------
(* The unit and the snapshot.                                                *)

LEMMA SameHost ==
  ASSUME NEW j, HostGood(j), Same(j)
  PROVE  HostGood(j)'
BY DEF HostGood, Looked, Halted, Unread, Untouched, Same

\* On its way to a boot a goroutine that was not misled meets a unit that does
\* not run: the snapshot saw so, or the goroutine switched it off itself.
LEMMA OpHalted ==
  ASSUME IInv, NEW i \in Inst, Halted(i), OpStep(i), ~Release(i)
  PROVE  Halted(i)'
<1> USE DEF At
<1>1. unit \in [Inst -> {"none", "inactive", "active"}] /\ Halted(i)
  BY DEF IInv, TypeOK, HostOK
<1>2. ASSUME Advance(i), op[i].at \notin {"none", "hold"}
      PROVE  /\ Moved(i, Flow[op[i].kind][op[i].at])
             /\ op[i].kind \in Limited /\ op[i].at \in DOMAIN Flow[op[i].kind]
  BY <1>2, AdvanceMoved
<1>3. ASSUME NEW s, Goto(i, s), op[i].at \notin {"none", "hold"}
      PROVE  op'[i].at = s /\ op'[i].kind = op[i].kind
  BY <1>3, Working, GotoMoved DEF Moved
<1>4. CASE Commit(i) \/ Disk(i) \/ Service(i)
  <2>1. op'[i].at \in {"disk", "service", "launch"} /\ (unit'[i] = "active" => unit[i] = "active")
        /\ op[i].at \in {"commit", "disk", "service"}
    BY <1>1, <1>2, <1>4, Routes DEF Commit, Disk, Service, Moved, host
  <2> QED
    BY <1>1, <2>1 DEF Halted
<1>5. CASE OffSeen(i) \/ OffForced(i) \/ Kill(i)
  <2>1. unit'[i] # "active"
    BY <1>1, <1>5 DEF OffSeen, OffForced, Kill, host
  <2> QED
    BY <2>1 DEF Halted
<1>6. CASE Clear(i) \/ Pause(i)
  <2>1. /\ UNCHANGED unit /\ op[i].at \in {"clear", "pause"} /\ op'[i].kind = op[i].kind
        /\ \/ op[i].kind = "restart" /\ op'[i].at \in {"pause", "service"}
           \/ op[i].kind # "restart" /\ op'[i].at \in {"pause", "disks", "hold", "setstop", "clear"}
    BY <1>2, <1>6, Routes DEF Clear, Pause, Moved, host
  <2> QED
    BY <1>1, <2>1 DEF Halted
<1>7. CASE Launch(i) \/ Wait(i) \/ Network(i) \/ SetStop(i) \/ SetStart(i) \/ Unwire(i)
  <2>1. op'[i].at \in {"wait", "network", "setstop", "setstart", "hold"}
    BY <1>2, <1>3, <1>7, Routes DEF Launch, Wait, Network, SetStop, SetStart, Unwire, Moved
  <2> QED
    BY <2>1 DEF Halted
<1>8. CASE \/ Get(i) \/ Probe(i) \/ Disks(i) \/ Files(i) \/ FreeAddr(i) \/ DeleteRecord(i)
  <2>1. op'[i].kind = "destroy"
    BY <1>2, <1>3, <1>8, Routes, Working
       DEF Get, Probe, Disks, Files, FreeAddr, DeleteRecord, Moved
  <2>2. op'[i].at \notin {"commit", "disk", "service", "launch"}
    BY <1>2, <1>3, <1>8, Routes DEF Get, Probe, Disks, Files, FreeAddr, DeleteRecord, Moved
  <2> QED
    BY <2>1, <2>2 DEF Halted
<1> QED
  BY <1>4, <1>5, <1>6, <1>7, <1>8 DEF OpStep

\* Only the loop starts goroutines.
LEMMA OpMisled ==
  ASSUME NEW i \in Inst, OpStep(i)
  PROVE  misled' = misled
BY DEF OpStep, Commit, Disk, Service, Launch, Wait, Network, OffSeen, OffForced, Kill,
       Unwire, Clear, Pause, SetStop, SetStart, Get, Probe, Disks, Files, FreeAddr,
       DeleteRecord, Release, hindsight

LEMMA OpHost ==
  ASSUME IInv, HostInv, NEW i \in Inst, OpStep(i)
  PROVE  HostInv'
<1>1. HostGood(i)
  BY DEF HostInv
<1>2. ASSUME Release(i) PROVE HostGood(i)'
  <2>1. op' = [op EXCEPT ![i] = Idle] /\ op \in [Inst -> Goroutines] /\ op[i].at = "hold"
    BY <1>2 DEF Release, At, IInv, TypeOK, WorkOK
  <2>2. op'[i].kind = "none" /\ op'[i].at = "none" /\ stale' = stale /\ misled' = misled
    BY <1>2, <2>1 DEF Idle, Release, hindsight
  <2> QED
    BY <1>1, <1>2, <2>1, <2>2
       DEF HostGood, Looked, Halted, Unread, Untouched, Release, loop, host, records
<1>3. ASSUME ~Release(i) PROVE HostGood(i)'
  <2>1. UNCHANGED loop /\ \E s \in Stages : Moved(i, s)
    BY <1>3, OpMoved
  <2>2. Looked(i)' /\ Unread(i)'
    BY <1>1, <2>1 DEF Moved, Looked, Unread, HostGood, loop
  <2>3. misled' = misled
    BY OpMisled
  <2> QED
    BY <1>1, <1>3, <2>2, <2>3, OpHalted DEF HostGood
<1>4. HostGood(i)'
  BY <1>2, <1>3
<1>5. ASSUME NEW j \in Inst, j # i PROVE HostGood(j)'
  BY <1>5, OpSame, SameHost DEF HostInv
<1> QED
  BY <1>4, <1>5 DEF HostInv

LEMMA InitHost == Init => HostInv
BY DEF Init, HostInv, HostGood, Looked, Halted, Unread, Idle

\* A dead process has no goroutine and no snapshot.
LEMMA DieHost ==
  ASSUME Die
  PROVE  HostInv'
BY DEF Die, HostInv, HostGood, Looked, Halted, Unread, Idle

\* A goroutine is started for an instance that was idle: unless it is misled,
\* what the snapshot says of its unit is true.
LEMMA GoroutineHost ==
  ASSUME IInv, NEW i \in Inst, HostGood(i), Turn(i), op[i] = Idle,
         NEW k \in Wanted(i), k \in Limited \cup {"plug"}, Goroutine(i, k),
         k = "plug" \/ Misled(i), k = "plug" => UNCHANGED misled,
         UNCHANGED <<records, host, runner, snap, stale>>
  PROVE  HostGood(i)'
<1>1. op' = [op EXCEPT ![i] = [kind |-> k, at |-> Entry[k],
                               disk |-> k = "destroy" /\ snap[i].disk]]
      /\ op \in [Inst -> Goroutines]
  BY DEF Goroutine, IInv, TypeOK, WorkOK
<1>2. op'[i].kind = k /\ op'[i].at = Entry[k]
  BY <1>1
<1>3. /\ k = "create" => snap[i].virt = "nil"
      /\ k = "start" => snap[i].virt = "stopped"
  BY DEF Wanted
<1>4. /\ k = "create" => Entry[k] = "commit"
      /\ k = "start" => Entry[k] = "service"
      /\ k \in {"stop", "restart"} => Entry[k] = "off"
      /\ k = "cleanup" => Entry[k] = "clear"
      /\ k = "destroy" => Entry[k] = "get"
      /\ k = "plug" => Entry[k] = "hold"
  BY DEF Entry
<1>5. i \notin stale => /\ runner = "deploy"
                        /\ snap[i].virt \in {"nil", "stopped"} => unit[i] # "active"
                        /\ snap[i].disk <=> disk[i] = "available"
  BY DEF HostGood, Looked, Untouched, Idle, Turn
<1>6. i \notin stale => Halted(i)'
  BY <1>2, <1>3, <1>4, <1>5, Kinds DEF Halted, host
<1>7. i \in stale /\ k # "plug" => i \in misled'
  BY DEF Misled
<1>8. k = "plug" => Halted(i)'
  BY <1>2, <1>4 DEF Halted
<1>9. Looked(i)' /\ Unread(i)'
  BY <1>2, Kinds DEF HostGood, Looked, Unread, Untouched, Idle, records, host, Turn
<1> QED
  BY <1>6, <1>7, <1>8, <1>9 DEF HostGood

LEMMA LoopHost ==
  ASSUME IInv, HostInv, LoopStep
  PROVE  HostInv'
<1> USE DEF records, host, loop, work, hindsight, history
<1>0. \A j \in Inst : HostGood(j)
  BY DEF HostInv
<1>1. CASE Gather
  BY <1>0, <1>1 DEF Gather, HostInv, HostGood, Looked, Halted, Unread, Untouched, Blank
<1>2. CASE Load
  <2>1. \A j \in Inst : /\ snap'[j].disk = snap[j].disk
                        /\ snap'[j].virt = IF unit[j] = "none" THEN "nil" ELSE "listed"
    BY <1>2 DEF Load, IInv, TypeOK, LoopOK, Sight
  <2>2. runner = "load" /\ runner' = "query" /\ UNCHANGED <<records, host, work, hindsight>>
    BY <1>2 DEF Load
  <2> QED
    BY <1>0, <2>1, <2>2 DEF HostInv, HostGood, Looked, Halted, Unread, Untouched
<1>3. CASE Decide
  BY <1>0, <1>3 DEF Decide, HostInv, HostGood, Looked, Halted, Unread, Untouched
<1>4. CASE Namespaces
  BY <1>0, <1>4 DEF Namespaces, HostInv, HostGood, Looked, Halted, Unread
<1>5. CASE Boot
  BY <1>0, <1>5 DEF Boot, HostInv, HostGood, Looked, Halted, Unread
<1>6. ASSUME NEW i \in Inst, Query(i)
      PROVE  HostInv'
  <2>1. snap' = [snap EXCEPT ![i].virt = Seen(i)] /\ snap \in [Inst -> Sight]
    BY <1>6 DEF Query, IInv, TypeOK, LoopOK
  <2>2. /\ snap'[i].virt = Seen(i) /\ snap'[i].disk = snap[i].disk
        /\ snap[i].virt = "listed" /\ runner = "query"
        /\ \A j \in Inst : j # i => snap'[j] = snap[j]
    BY <1>6, <2>1 DEF Query, Sight
  <2>3. HostGood(i)'
    BY <1>0, <1>6, <2>2 DEF Query, Seen, HostGood, Looked, Halted, Unread, Untouched
  <2>4. ASSUME NEW j \in Inst, j # i PROVE HostGood(j)'
    BY <1>0, <1>6, <2>2, <2>4 DEF Query, HostGood, Looked, Halted, Unread, Untouched
  <2> QED
    BY <2>3, <2>4 DEF HostInv
<1>7. ASSUME NEW i \in Inst, QueryGone(i) \/ PanicDestroy(i)
      PROVE  HostInv'
  BY <1>7, DieHost DEF QueryGone, PanicDestroy
<1>8. ASSUME NEW i \in Inst, Report(i)
      PROVE  HostInv'
  <2>1. runner = "query" /\ snap \in [Inst -> Sight]
        /\ (snap' = [snap EXCEPT ![i].rec.state = "cleanup"] \/ snap' = snap)
    BY <1>8 DEF Report, IInv, TypeOK, LoopOK
  <2>2. \A j \in Inst : snap'[j].virt = snap[j].virt /\ snap'[j].disk = snap[j].disk
    BY <2>1 DEF Sight
  <2> QED
    BY <1>0, <1>8, <2>1, <2>2 DEF Report, HostInv, HostGood, Looked, Halted, Unread, Untouched
<1>9. ASSUME NEW i \in Inst, ForceOff(i) \/ ForceClear(i)
      PROVE  HostInv'
  <2>1. /\ runner = "query" /\ runner' = runner /\ UNCHANGED <<records, work, hindsight>>
        /\ \A j \in Inst : j # i => snap'[j] = snap[j] /\ unit'[j] = unit[j]
        /\ snap'[i].disk = snap[i].disk
        /\ \/ unit'[i] # "active"
           \/ unit'[i] = unit[i] /\ snap[i].virt = "cut"
    BY <1>9 DEF ForceOff, ForceClear, IInv, TypeOK, LoopOK, HostOK, Sight
  <2>2. unit'[i] = "active" => unit[i] = "active"
    BY <1>9 DEF ForceOff, ForceClear, IInv, TypeOK, HostOK
  <2>3. HostGood(i)'
    BY <1>0, <2>1, <2>2 DEF HostGood, Looked, Halted, Unread, Untouched
  <2>4. ASSUME NEW j \in Inst, j # i PROVE HostGood(j)'
    BY <1>0, <2>1, <2>4 DEF HostGood, Looked, Halted, Unread, Untouched
  <2> QED
    BY <2>3, <2>4 DEF HostInv
<1>10. ASSUME NEW i \in Inst,
              \/ DispatchNothing(i) \/ IgnoreDestroy(i)
              \/ Dispatch(i) /\ UNCHANGED <<op, misled>>
       PROVE  HostInv'
  BY <1>0, <1>10 DEF DispatchNothing, IgnoreDestroy, Dispatch, HostInv, HostGood,
                     Looked, Halted, Unread, Untouched
<1>11. ASSUME NEW i \in Inst, NEW k \in Wanted(i), k \in Limited \cup {"plug"},
              Dispatch(i) \/ DispatchPlug(i), op[i] = Idle, Goroutine(i, k),
              k = "plug" \/ Misled(i), k = "plug" => UNCHANGED misled
       PROVE  HostInv'
  <2>1. UNCHANGED <<records, host, runner, snap, stale>> /\ Turn(i)
    BY <1>11 DEF Dispatch, DispatchPlug
  <2>2. HostGood(i)'
    BY <1>0, <1>11, <2>1, GoroutineHost
  <2>3. ASSUME NEW j \in Inst, j # i PROVE HostGood(j)'
    <3>1. op'[j] = op[j] /\ (j \in misled => j \in misled')
      BY <1>11, <2>3 DEF Goroutine, Misled, IInv, TypeOK, WorkOK
    <3> QED
      BY <1>0, <2>1, <3>1 DEF HostGood, Looked, Halted, Unread, Untouched
  <2> QED
    BY <2>2, <2>3 DEF HostInv
<1>12. ASSUME NEW i \in Inst, Dispatch(i) \/ DispatchPlug(i)
       PROVE  HostInv'
  <2>1. \/ Dispatch(i) /\ UNCHANGED <<op, misled>>
        \/ \E k \in Wanted(i) : /\ k \in Limited \cup {"plug"}
                                /\ op[i] = Idle /\ Goroutine(i, k)
                                /\ k = "plug" \/ Misled(i)
                                /\ k = "plug" => UNCHANGED misled
    <3>1. Dispatch(i) => \/ UNCHANGED <<op, misled>>
                         \/ \E k \in Wanted(i) \cap Limited :
                               op[i] = Idle /\ Goroutine(i, k) /\ Misled(i)
      BY DEF Dispatch
    <3>2. "plug" \notin Limited
      BY Kinds
    <3> QED
      BY <1>12, <3>1, <3>2 DEF DispatchPlug
  <2> QED
    BY <1>10, <1>11, <1>12, <2>1
<1> QED
  BY <1>1, <1>2, <1>3, <1>4, <1>5, <1>6, <1>7, <1>8, <1>9, <1>10, <1>12 DEF LoopStep

\* Users do not touch the host; a guest that halts makes nothing untrue; a
\* unit that was not looked at, and may run, makes the snapshot stale.
LEMMA EnvironmentHost ==
  ASSUME IInv, HostInv, Environment
  PROVE  HostInv'
<1> USE DEF records, host, loop, work, hindsight, history
<1>0. \A j \in Inst : HostGood(j)
  BY DEF HostInv
<1>1. CASE Crash
  BY <1>1, DieHost DEF Crash
<1>2. CASE LoadBlind
  BY <1>0, <1>2 DEF LoadBlind, HostInv, HostGood, Looked, Halted, Unread, Untouched,
                    IInv, TypeOK, LoopOK, Sight
<1>3. CASE Abort
  BY <1>0, <1>3 DEF Abort, HostInv, HostGood, Looked, Halted, Unread
<1>4. ASSUME NEW i \in Inst,
             \/ \E s \in States : SetState(i, s)
             \/ Delete(i) \/ DeleteCheck(i) \/ DeleteCommit(i)
             \/ Put(i) \/ PutCommit(i) \/ ForceDelete(i)
      PROVE  HostInv'
  <2>1. UNCHANGED <<disk, host, loop, work, hindsight>>
    BY <1>4 DEF SetState, Delete, DeleteCheck, DeleteCommit, Put, PutCommit, ForceDelete
  <2> QED
    BY <1>0, <2>1 DEF HostInv, HostGood, Looked, Halted, Unread, Untouched
<1>5. ASSUME NEW i \in Inst, Halt(i) \/ Exit(i)
      PROVE  HostInv'
  <2>1. /\ unit'[i] = "inactive" /\ \A j \in Inst : j # i => unit'[j] = unit[j]
        /\ UNCHANGED <<records, loop, work, hindsight>>
    BY <1>5, HaltedUnit
  <2>2. HostGood(i)'
    BY <1>0, <2>1 DEF HostGood, Looked, Halted, Unread, Untouched
  <2>3. ASSUME NEW j \in Inst, j # i PROVE HostGood(j)'
    BY <1>0, <2>1, <2>3 DEF HostGood, Looked, Halted, Unread, Untouched
  <2> QED
    BY <2>2, <2>3 DEF HostInv
<1>6. ASSUME NEW i \in Inst, Error(i) \/ SetStopError(i)
      PROVE  HostInv'
  <2>1. HostGood(i)'
    BY <1>0, <1>6, FailedMoved DEF HostGood, Looked, Halted, Unread
  <2>2. ASSUME NEW j \in Inst, j # i PROVE HostGood(j)'
    BY <1>0, <1>6, <2>2, FailedMoved DEF HostGood, Looked, Halted, Unread, Untouched
  <2> QED
    BY <2>1, <2>2 DEF HostInv
<1>7. ASSUME NEW i \in Inst, QueryFails(i) \/ ForceFails(i)
      PROVE  HostInv'
  <2>1. /\ runner = "query" /\ runner' = runner /\ UNCHANGED <<records, host, op, misled>>
        /\ \A j \in Inst : /\ j # i => snap'[j] = snap[j]
                           /\ snap'[j].disk = snap[j].disk
                           /\ j \in stale => j \in stale'
        /\ \/ snap'[i].virt = "lost" \/ i \in stale'
           \/ snap[i].virt = "cut"
    BY <1>7 DEF QueryFails, ForceFails, IInv, TypeOK, LoopOK, Sight
  <2>2. HostGood(i)'
    BY <1>0, <2>1 DEF HostGood, Looked, Halted, Unread, Untouched
  <2>3. ASSUME NEW j \in Inst, j # i PROVE HostGood(j)'
    BY <1>0, <2>1, <2>3 DEF HostGood, Looked, Halted, Unread, Untouched
  <2> QED
    BY <2>2, <2>3 DEF HostInv
<1> QED
  BY <1>1, <1>2, <1>3, <1>4, <1>5, <1>6, <1>7 DEF Environment

LEMMA NextHost == IInv /\ HostInv /\ [Next]_vars => HostInv'
<1> SUFFICES ASSUME IInv, HostInv, [Next]_vars PROVE HostInv'
  OBVIOUS
<1>1. CASE UNCHANGED vars
  BY <1>1 DEF vars, records, host, loop, work, hindsight, history, HostInv, HostGood,
              Looked, Halted, Unread, Untouched
<1>2. CASE Next
  BY <1>2, LoopHost, EnvironmentHost, OpHost DEF Next
<1> QED
  BY <1>1, <1>2

\* The snapshot is true of the unit and the disk of every instance that no
\* goroutine has touched since, and a goroutine that was started on a true one
\* finds its unit switched off at every stage before the boot.
THEOREM HostInvariance == Spec => []HostInv
<1>1. Init => HostInv
  BY InitHost
<1>2. IInv /\ HostInv /\ [Next]_vars => HostInv'
  BY NextHost
<1> QED
  BY <1>1, <1>2, Invariance, PTL DEF Spec

\* Whatever users and faults do, however long a cycle lasts and however often
\* the process dies, a goroutine of deploy.Instances boots a VM that runs only
\* if it was started on a snapshot that an earlier goroutine had outdated, or
\* that had left out a unit which could not be looked at.
THEOREM NeverBootedTwice == Spec => []NoDoubleBoot
<1>1. HostInv => NoDoubleBoot
  BY DEF HostInv, HostGood, Halted, NoDoubleBoot, Informed
<1> QED
  BY <1>1, HostInvariance, PTL

-----------------------------------------------------------------------------
(* The record is removed last.                                               *)

\* The record of an instance that is acted on is there, and the loop acts on
\* instances of the snapshot only.
Known(i) ==
    /\ runner \in {"query", "deploy"} /\ snap[i].rec.exists /\ Untouched(i) => db[i].exists
    /\ op[i].kind \in Limited /\ op[i].at # "hold" => db[i].exists
    /\ runner = "deploy" /\ i \in todo => snap[i].rec.exists

\* A destroy has the root disk in its list if there is one to destroy, and
\* has been through it before the files' turn comes.
Marked(i) ==
    op[i].kind = "destroy" =>
        /\ op[i].at \in {"get", "probe", "off", "pause", "clear", "disks"} =>
             (op[i].disk <=> disk[i] = "available")
        /\ op[i].at \in {"files", "release", "delete"} => disk[i] # "available"

\* RemovedClean of one instance.
Clean(i) == ~db[i].exists => unit[i] = "none" /\ ~addr[i] /\ disk[i] # "available"

CleanGood(i) == Clean(i) /\ Known(i) /\ Marked(i)

CleanInv == \A i \in Informed : CleanGood(i)

LEMMA SameClean ==
  ASSUME NEW j, CleanGood(j), Same(j)
  PROVE  CleanGood(j)'
BY DEF CleanGood, Clean, Known, Marked, Untouched, Same

\* No step but the last takes the record away.
LEMMA OpExists ==
  ASSUME IInv, NEW i \in Inst, OpStep(i), ~DeleteRecord(i)
  PROVE  db'[i].exists = db[i].exists
<1>1. db \in [Inst -> Record]
  BY DEF IInv, TypeOK, RecordsOK
<1>2. UNCHANGED db \/ \E rec \in {[db[i] EXCEPT !.vm = "starting"],
             [db[i] EXCEPT !.vm = "stopped"], [db[i] EXCEPT !.state = "stop"],
             [db[i] EXCEPT !.state = "start"]} : Update(i, rec)
  BY DEF OpStep, Commit, Disk, Service, Launch, Wait, Network, OffSeen,
         OffForced, Kill, Unwire, Clear, Pause, SetStop, SetStart, Get, Probe, Disks,
         Files, FreeAddr, Release, records
<1> QED
  BY <1>1, <1>2 DEF Update, Record

\* The steps of a destroy up to the deletion of the record.
LEMMA OpMarked ==
  ASSUME IInv, NEW i \in Inst, CleanGood(i), OpStep(i), ~Release(i)
  PROVE  Marked(i)'
<1> USE DEF At, records
<1>1. PICK t \in Stages : Moved(i, t)
  BY OpMoved
<1>2. SUFFICES ASSUME op[i].kind = "destroy" PROVE Marked(i)'
  BY <1>1 DEF Moved, Marked
<1>3. /\ disk \in [Inst -> {"none", "available", "destroy"}]
      /\ Marked(i)
  BY DEF IInv, TypeOK, RecordsOK, CleanGood
<1>4. ASSUME Advance(i), op[i].at \notin {"none", "hold"}
      PROVE  Moved(i, Flow["destroy"][op[i].at]) /\ op[i].at \in DOMAIN Flow["destroy"]
  BY <1>2, <1>4, AdvanceMoved
<1>5. ASSUME NEW s, Goto(i, s)
      PROVE  Moved(i, s)
  BY <1>1, <1>5, GotoMoved DEF Moved
<1>6. "destroy" \in Limited
  BY Kinds
<1>7. CASE OffSeen(i) \/ OffForced(i) \/ Clear(i) \/ Pause(i)
  <2>1. UNCHANGED disk /\ Advance(i) /\ op[i].at \in {"off", "clear", "pause"}
    BY <1>7 DEF OffSeen, OffForced, Clear, Pause
  <2>2. op'[i].at \in {"clear", "pause", "disks"} \/ op'[i].at = "hold"
    BY <1>4, <1>6, <2>1, Routes DEF Moved
  <2> QED
    BY <1>1, <1>2, <1>3, <2>1, <2>2 DEF Moved, Marked
<1>8. CASE Get(i) \/ Probe(i)
  <2>1. UNCHANGED disk /\ op[i].at \in {"get", "probe"}
    BY <1>8 DEF Get, Probe
  <2>2. op'[i].at \in {"probe", "off", "pause", "hold"}
    BY <1>4, <1>5, <1>6, <1>8, Routes DEF Moved, Get, Probe
  <2> QED
    BY <1>1, <1>2, <1>3, <2>1, <2>2 DEF Moved, Marked
<1>9. CASE Disks(i)
  <2>1. op'[i].at = "files" /\ disk'[i] # "available"
    BY <1>2, <1>3, <1>4, <1>6, <1>9, Routes DEF Disks, Moved, Marked
  <2> QED
    BY <2>1 DEF Marked
<1>10. CASE Files(i)
  <2>1. op'[i].at = "release" /\ UNCHANGED disk /\ op[i].at = "files"
    BY <1>4, <1>6, <1>10, Routes DEF Files, Moved
  <2> QED
    BY <1>2, <1>3, <2>1 DEF Marked
<1>11. CASE FreeAddr(i)
  <2>1. UNCHANGED disk /\ op[i].at = "release"
    BY <1>11 DEF FreeAddr
  <2>2. op'[i].at \in {"hold", "delete"}
    BY <1>4, <1>5, <1>6, <1>11, Routes DEF FreeAddr, Moved
  <2> QED
    BY <1>2, <1>3, <2>1, <2>2 DEF Marked
<1>12. CASE DeleteRecord(i)
  <2>1. op'[i].at = "hold"
    BY <1>4, <1>6, <1>12, Routes DEF DeleteRecord, Moved
  <2> QED
    BY <2>1 DEF Marked
<1>13. CASE \/ Commit(i) \/ Disk(i) \/ Service(i) \/ Launch(i) \/ Wait(i)
            \/ Network(i) \/ SetStop(i) \/ SetStart(i)
  <2>1. op[i].at \in {"commit", "disk", "service", "launch", "wait", "network",
                      "setstop", "setstart"}
    BY <1>13 DEF Commit, Disk, Service, Launch, Wait, Network, SetStop, SetStart
  <2>2. FALSE
    BY <1>2, <1>6, <2>1, Working, Routes
  <2> QED
    BY <2>2
<1>14. CASE Kill(i) \/ Unwire(i)
  <2>1. op'[i].at \in {"unwire", "hold"}
    BY <1>4, <1>6, <1>14, Routes DEF Kill, Unwire, Moved
  <2> QED
    BY <2>1 DEF Marked
<1> QED
  BY <1>7, <1>8, <1>9, <1>10, <1>11, <1>12, <1>13, <1>14 DEF OpStep

LEMMA OpCleanGood ==
  ASSUME IInv, BaseInv, NEW i \in Inst, CleanGood(i), OpStep(i)
  PROVE  CleanGood(i)'
<1>1. CleanGood(i)
  OBVIOUS
<1>2. CASE Release(i)
  <2>1. op' = [op EXCEPT ![i] = Idle] /\ op \in [Inst -> Goroutines] /\ stale' = stale
    BY <1>2 DEF Release, hindsight, IInv, TypeOK, WorkOK
  <2>2. op'[i].kind = "none" /\ (Untouched(i)' => Untouched(i)) /\ "none" \notin Limited
    BY <1>2, <2>1, Kinds DEF Idle, Untouched, Release, At
  <2> QED
    BY <1>1, <1>2, <2>2 DEF CleanGood, Clean, Known, Marked, Release, loop, host, records
<1>3. CASE DeleteRecord(i)
  <2>1. /\ op[i].at = "delete" /\ Torn(i) /\ Marked(i)
        /\ op[i].kind \in Limited /\ op[i].at \in DOMAIN Flow[op[i].kind]
    BY <1>1, <1>3, Working DEF DeleteRecord, At, BaseInv, BaseGood, CleanGood
  <2>2. op[i].kind = "destroy" /\ Flow[op[i].kind][op[i].at] = "hold"
    BY <2>1, Routes
  <2>3. Moved(i, "hold")
    BY <1>3, <2>1, <2>2, AdvanceMoved DEF DeleteRecord
  <2>4. UNCHANGED <<addr, disk, host, loop>>
    BY <1>3 DEF DeleteRecord
  <2>5. Clean(i)'
    BY <2>1, <2>2, <2>4 DEF Torn, Marked, Clean, host
  <2>6. Known(i)'
    BY <1>1, <2>3, <2>4 DEF Known, CleanGood, Moved, loop
  <2> QED
    BY <2>3, <2>5, <2>6 DEF CleanGood, Marked, Moved
<1>4. CASE ~Release(i) /\ ~DeleteRecord(i)
  <2>1. op[i].kind \in Limited /\ op[i].at # "hold" /\ UNCHANGED loop
    BY <1>4, OpMoved
  <2>2. PICK s \in Stages : Moved(i, s)
    BY <1>4, OpMoved
  <2>3. db'[i].exists
    BY <1>1, <1>4, <2>1, OpExists DEF CleanGood, Known
  <2>5. Clean(i)' /\ Known(i)'
    BY <1>1, <2>1, <2>3 DEF Clean, Known, CleanGood, loop
  <2> QED
    BY <1>1, <1>4, <2>5, OpMarked DEF CleanGood
<1> QED
  BY <1>2, <1>3, <1>4

LEMMA OpClean ==
  ASSUME IInv, BaseInv, CleanInv, NEW i \in Inst, OpStep(i)
  PROVE  CleanInv'
<1>1. misled' = misled
  BY OpMisled
<1>2. i \in Informed => CleanGood(i)'
  BY OpCleanGood DEF CleanInv
<1>3. ASSUME NEW j \in Informed, j # i PROVE CleanGood(j)'
  BY <1>3, OpSame, SameClean DEF CleanInv, Informed
<1> QED
  BY <1>1, <1>2, <1>3 DEF CleanInv, Informed

LEMMA InitClean == Init => CleanInv
BY Kinds DEF Init, CleanInv, Informed, CleanGood, Clean, Known, Marked, Idle, Blank, Gone

LEMMA DieClean ==
  ASSUME CleanInv, Die
  PROVE  CleanInv'
BY Kinds DEF Die, CleanInv, Informed, CleanGood, Clean, Known, Marked, Idle, records, host

\* What the loop starts is decided on a record that is there, and a destroy
\* is given the root disk that is there.
LEMMA GoroutineClean ==
  ASSUME IInv, NEW i \in Inst, HostGood(i), CleanGood(i), Turn(i), op[i] = Idle,
         NEW k \in Limited \cup {"plug"}, k = "plug" \/ i \notin stale,
         Goroutine(i, k), todo' = todo \ {i},
         UNCHANGED <<records, host, runner, snap, stale>>
  PROVE  CleanGood(i)'
<1>1. op' = [op EXCEPT ![i] = [kind |-> k, at |-> Entry[k],
                               disk |-> k = "destroy" /\ snap[i].disk]]
      /\ op \in [Inst -> Goroutines]
  BY DEF Goroutine, IInv, TypeOK, WorkOK
<1>2. /\ op'[i].kind = k /\ op'[i].at = Entry[k]
      /\ k = "destroy" => (op'[i].disk <=> snap[i].disk)
  <2> DEFINE listed == k = "destroy" /\ snap[i].disk
  <2>1. op'[i] = [kind |-> k, at |-> Entry[k], disk |-> listed]
    BY <1>1
  <2> HIDE DEF listed
  <2>2. op'[i].kind = k /\ op'[i].at = Entry[k] /\ op'[i].disk = listed
    BY <2>1
  <2>3. op'[i].disk <=> listed
    BY <2>2, Zenon
  <2>4. k = "destroy" => (listed <=> snap[i].disk)
    BY DEF listed
  <2> QED
    BY <2>2, <2>3, <2>4
<1>3. runner = "deploy" /\ i \in todo
  BY DEF Turn
<1>4. i \notin stale => Untouched(i) /\ (snap[i].disk <=> disk[i] = "available")
  BY <1>3 DEF HostGood, Looked, Untouched, Idle
<1>5. /\ k = "destroy" => Entry[k] = "get"
      /\ k = "plug" => Entry[k] = "hold"
  BY DEF Entry
<1>6. "plug" \notin Limited
  BY Kinds
<1>7. i \notin stale => db[i].exists
  BY <1>3, <1>4 DEF CleanGood, Known
<1>8. snap[i].rec.exists /\ (Untouched(i)' => i \notin stale)
  BY <1>3 DEF CleanGood, Known, Untouched
<1>9. Clean(i)' /\ Known(i)'
  BY <1>2, <1>3, <1>5, <1>6, <1>7, <1>8 DEF CleanGood, Clean, Known, records, host
<1>10. Marked(i)'
  BY <1>2, <1>4, <1>5 DEF Marked, records
<1> QED
  BY <1>9, <1>10 DEF CleanGood

LEMMA LoopClean ==
  ASSUME IInv, HostInv, CleanInv, LoopStep
  PROVE  CleanInv'
<1> USE DEF records, host, loop, work, hindsight, history
<1>0. /\ \A j \in Informed : CleanGood(j)
      /\ db \in [Inst -> Record] /\ snap \in [Inst -> Sight]
  BY DEF CleanInv, IInv, TypeOK, RecordsOK, LoopOK
<1>1. CASE Gather \/ Namespaces \/ Boot
  BY <1>0, <1>1 DEF Gather, Namespaces, Boot, CleanInv, Informed, CleanGood, Clean,
                    Known, Marked, Untouched
<1>2. CASE Load
  <2>1. \A j \in Inst : snap'[j].rec = db[j]
    BY <1>0, <1>2 DEF Load, Sight
  <2>2. runner' = "query" /\ UNCHANGED <<records, host, work, hindsight>>
    BY <1>2 DEF Load
  <2> QED
    BY <1>0, <2>1, <2>2 DEF CleanInv, Informed, CleanGood, Clean, Known, Marked, Untouched
<1>3. CASE Decide
  BY <1>0, <1>3 DEF Decide, CleanInv, Informed, CleanGood, Clean, Known, Marked, Untouched
<1>4. ASSUME NEW i \in Inst, QueryGone(i) \/ PanicDestroy(i)
      PROVE  CleanInv'
  BY <1>4, DieClean DEF QueryGone, PanicDestroy
<1>5. ASSUME NEW i \in Inst, Query(i)
      PROVE  CleanInv'
  <2>1. \A j \in Inst : snap'[j].rec = snap[j].rec
    BY <1>0, <1>5 DEF Query, Sight
  <2>2. UNCHANGED <<records, host, runner, todo, work, hindsight>>
    BY <1>5 DEF Query
  <2> QED
    BY <1>0, <2>1, <2>2 DEF CleanInv, Informed, CleanGood, Clean, Known, Marked, Untouched
<1>6. ASSUME NEW i \in Inst, Report(i) \/ IgnoreDestroy(i)
      PROVE  CleanInv'
  <2>1. \A j \in Inst : db'[j].exists = db[j].exists
    BY <1>0, <1>6 DEF Report, IgnoreDestroy, Update, Record
  <2>2. \A j \in Inst : snap'[j].rec.exists = snap[j].rec.exists
    <3>1. snap' = [snap EXCEPT ![i].rec.state = "cleanup"] \/ snap' = snap
      BY <1>6 DEF Report, IgnoreDestroy
    <3>2. [snap[i].rec EXCEPT !.state = "cleanup"].exists = snap[i].rec.exists
      BY <1>0 DEF Sight, Record
    <3> QED
      BY <1>0, <3>1, <3>2 DEF Sight
  <2>3. UNCHANGED <<addr, disk, host, runner, work, hindsight>> /\ todo' \subseteq todo
    BY <1>6 DEF Report, IgnoreDestroy
  <2> QED
    BY <1>0, <2>1, <2>2, <2>3 DEF CleanInv, Informed, CleanGood, Clean, Known, Marked, Untouched
<1>7. ASSUME NEW i \in Inst, Dispatch(i) \/ DispatchPlug(i) \/ DispatchNothing(i)
      PROVE  CleanInv'
  <2>1. UNCHANGED <<records, host, runner, snap, stale>> /\ Turn(i) /\ todo' = todo \ {i}
    BY <1>7 DEF Dispatch, DispatchPlug, DispatchNothing
  <2>2. \/ UNCHANGED <<op, misled>>
        \/ \E k \in Limited \cup {"plug"} :
              /\ op[i] = Idle /\ Goroutine(i, k)
              /\ (k = "plug" /\ misled' = misled) \/ Misled(i)
    BY <1>7 DEF Dispatch, DispatchPlug, DispatchNothing
  <2>3. CASE UNCHANGED <<op, misled>>
    BY <1>0, <2>1, <2>3 DEF CleanInv, Informed, CleanGood, Clean, Known, Marked, Untouched
  <2>4. ASSUME NEW k \in Limited \cup {"plug"}, op[i] = Idle, Goroutine(i, k),
               (k = "plug" /\ misled' = misled) \/ Misled(i)
        PROVE  CleanInv'
    <3>1. Informed' \subseteq Informed
      BY <2>4 DEF Informed, Misled
    <3>2. i \in Informed' => CleanGood(i)'
      <4>1. i \in Informed' => k = "plug" \/ i \notin stale
        BY <2>4 DEF Informed, Misled
      <4> QED
        BY <1>0, <2>1, <2>4, <3>1, <4>1, GoroutineClean DEF HostInv
    <3>3. ASSUME NEW j \in Informed', j # i PROVE CleanGood(j)'
      <4>1. op'[j] = op[j] /\ j \in Informed
        BY <2>4, <3>1, <3>3 DEF Goroutine, IInv, TypeOK, WorkOK, Informed
      <4> QED
        BY <1>0, <2>1, <4>1 DEF CleanGood, Clean, Known, Marked, Untouched
    <3> QED
      BY <3>2, <3>3 DEF CleanInv
  <2> QED
    BY <2>2, <2>3, <2>4
<1>8. ASSUME NEW i \in Inst, ForceOff(i) \/ ForceClear(i)
      PROVE  CleanInv'
  <2>1. \A j \in Inst : /\ snap'[j].rec = snap[j].rec
                        /\ unit'[j] = "none" <=> unit[j] = "none"
    BY <1>0, <1>8 DEF ForceOff, ForceClear, Sight, IInv, TypeOK, HostOK
  <2>2. UNCHANGED <<records, runner, work, hindsight>> /\ todo' \subseteq todo
    BY <1>8 DEF ForceOff, ForceClear
  <2> QED
    BY <1>0, <2>1, <2>2 DEF CleanInv, Informed, CleanGood, Clean, Known, Marked, Untouched
<1> QED
  BY <1>1, <1>2, <1>3, <1>4, <1>5, <1>6, <1>7, <1>8 DEF LoopStep

\* Without a forced delete only a goroutine deletes a record.
LEMMA EnvironmentClean ==
  ASSUME IInv, HostInv, CleanInv, Environment, "force" \notin Calls
  PROVE  CleanInv'
<1> USE DEF records, host, loop, work, hindsight, history
<1>0. /\ \A j \in Informed : CleanGood(j)
      /\ \A j \in Inst : Unread(j)
      /\ db \in [Inst -> Record] /\ snap \in [Inst -> Sight]
  BY DEF CleanInv, HostInv, HostGood, IInv, TypeOK, RecordsOK, LoopOK
<1>1. CASE Crash
  BY <1>1, DieClean DEF Crash
<1>2. CASE LoadBlind
  <2>1. \A j \in Inst : snap'[j].rec = Gone
    BY <1>0, <1>2 DEF LoadBlind, Sight, Unread
  <2>2. runner' = "query" /\ UNCHANGED <<records, host, work, hindsight>>
    BY <1>2 DEF LoadBlind
  <2> QED
    BY <1>0, <2>1, <2>2 DEF CleanInv, Informed, CleanGood, Clean, Known, Marked, Untouched, Gone
<1>3. CASE Abort
  BY <1>0, <1>3 DEF Abort, CleanInv, Informed, CleanGood, Clean, Known, Marked
<1>4. ASSUME NEW i \in Inst,
             \/ \E s \in States : SetState(i, s)
             \/ Delete(i) \/ DeleteCheck(i) \/ DeleteCommit(i) \/ Put(i) \/ PutCommit(i)
      PROVE  CleanInv'
  <2>1. UNCHANGED <<addr, disk, host, loop, work, hindsight>>
    BY <1>4 DEF SetState, Delete, DeleteCheck, DeleteCommit, Put, PutCommit
  <2>2. \A j \in Inst : db'[j].exists = db[j].exists
    BY <1>0, <1>4 DEF SetState, Delete, DeleteCheck, DeleteCommit, Put, PutCommit, Update, Record
  <2> QED
    BY <1>0, <2>1, <2>2 DEF CleanInv, Informed, CleanGood, Clean, Known, Marked, Untouched
<1>5. ASSUME NEW i \in Inst, ForceDelete(i)
      PROVE  CleanInv'
  BY <1>5 DEF ForceDelete, Call
<1>6. ASSUME NEW i \in Inst, Halt(i) \/ Exit(i)
      PROVE  CleanInv'
  <2>1. /\ UNCHANGED <<records, loop, work, hindsight>>
        /\ \A j \in Inst : unit'[j] = "none" <=> unit[j] = "none"
    BY <1>6, HaltedUnit
  <2> QED
    BY <1>0, <2>1 DEF CleanInv, Informed, CleanGood, Clean, Known, Marked, Untouched
<1>7. ASSUME NEW i \in Inst, Error(i) \/ SetStopError(i)
      PROVE  CleanInv'
  <2>1. i \in Informed => CleanGood(i)'
    BY <1>0, <1>7, FailedMoved DEF CleanGood, Clean, Known, Marked
  <2>2. ASSUME NEW j \in Informed, j # i PROVE CleanGood(j)'
    BY <1>0, <1>7, <2>2, FailedMoved DEF CleanGood, Clean, Known, Marked, Untouched, Informed
  <2>3. misled' = misled
    BY <1>7, FailedMoved
  <2> QED
    BY <2>1, <2>2, <2>3 DEF CleanInv, Informed
<1>8. ASSUME NEW i \in Inst, QueryFails(i) \/ ForceFails(i)
      PROVE  CleanInv'
  <2>1. \A j \in Inst : snap'[j].rec = snap[j].rec /\ (j \in stale => j \in stale')
    BY <1>0, <1>8 DEF QueryFails, ForceFails, Sight
  <2>2. UNCHANGED <<records, host, runner, op, misled>> /\ todo' \subseteq todo
    BY <1>8 DEF QueryFails, ForceFails
  <2> QED
    BY <1>0, <2>1, <2>2 DEF CleanInv, Informed, CleanGood, Clean, Known, Marked, Untouched
<1> QED
  BY <1>1, <1>2, <1>3, <1>4, <1>5, <1>6, <1>7, <1>8 DEF Environment

LEMMA NextClean ==
  ASSUME "force" \notin Calls
  PROVE  IInv /\ BaseInv /\ HostInv /\ CleanInv /\ [Next]_vars => CleanInv'
<1> SUFFICES ASSUME IInv, BaseInv, HostInv, CleanInv, [Next]_vars PROVE CleanInv'
  OBVIOUS
<1>1. CASE UNCHANGED vars
  BY <1>1 DEF vars, records, host, loop, work, hindsight, history, CleanInv, Informed,
              CleanGood, Clean, Known, Marked, Untouched
<1>2. CASE Next
  BY <1>2, LoopClean, EnvironmentClean, OpClean DEF Next
<1> QED
  BY <1>1, <1>2

\* A record is removed last, when there is no unit file, no address and no
\* root disk in use, and nothing of the instance comes back afterwards: no
\* goroutine is started for a record that is gone, whatever was overwritten,
\* failed or crashed on the way, unless the snapshot was outdated when it was
\* acted on.  A forced delete is the other exception: it is for hosts that are
\* lost, and removes the record at once.
THEOREM RemovedLast ==
  ASSUME "force" \notin Calls
  PROVE  Spec => []RemovedClean
<1>1. Init => CleanInv
  BY InitClean
<1>2. IInv /\ BaseInv /\ HostInv /\ CleanInv /\ [Next]_vars => CleanInv'
  BY NextClean
<1>3. CleanInv => RemovedClean
  BY DEF CleanInv, CleanGood, Clean, RemovedClean
<1> QED
  BY <1>1, <1>2, <1>3, Invariance, BaseInvariance, HostInvariance, PTL DEF Spec

-----------------------------------------------------------------------------
(* A running VM keeps what it uses.                                          *)

Boots == {"start", "restart"}

\* A request to delete an instance is final when users leave it alone
\* afterwards, nobody uses delete protection (whose update writes back the
\* state it read) and nobody forces a deletion.
Unrevoked == Calls \cap {"protect", "revoke", "force"} = {}

\* From the decision to destroy it on, nothing boots the instance again.
Final(i) ==
    /\ db[i].state = "destroy" => i \in doomed
    /\ snap[i].rec.state = "destroy" => i \in doomed
    /\ ~db[i].protect /\ ~snap[i].rec.protect /\ put[i] \in {"none", "delete"}
    /\ runner \in {"query", "deploy"} /\ Untouched(i) /\ snap[i].rec.state = "destroy"
         => db[i].state \notin Boots
    /\ op[i].kind = "destroy" \/ disk[i] = "destroy" =>
         /\ i \in doomed
         /\ db[i].state \notin Boots /\ snap[i].rec.state \notin Boots
    /\ disk[i] = "destroy" => op[i].kind \notin {"create", "start", "restart"}

\* RunningIntact of one instance, but for the address (Supplied).
Intact(i) == unit[i] = "active" => disk[i] = "available"

IntactGood(i) == Intact(i) /\ Final(i)

IntactInv == \A i \in Informed : IntactGood(i)

LEMMA SameIntact ==
  ASSUME NEW j, IntactGood(j), Same(j)
  PROVE  IntactGood(j)'
BY DEF IntactGood, Intact, Final, Untouched, Same

\* What a goroutine's step does to the record and the disk.
LEMMA OpEffect ==
  ASSUME IInv, NEW i \in Inst, OpStep(i)
  PROVE  /\ \/ db'[i].state = db[i].state
            \/ db'[i].state = "stop"
            \/ db'[i].state = "start" /\ op[i].kind = "restart"
         /\ db'[i].protect => db[i].protect
         /\ \/ disk'[i] = disk[i]
            \/ disk[i] = "none" /\ disk'[i] = "available"
            \/ disk'[i] = "destroy" /\ op[i].kind = "destroy" /\ op[i].at = "disks"
         /\ UNCHANGED loop /\ UNCHANGED history
<1> USE DEF records, At
<1>1. /\ db \in [Inst -> Record]
      /\ disk \in [Inst -> {"none", "available", "destroy"}]
  BY DEF IInv, TypeOK, RecordsOK
<1>2. CASE Commit(i) \/ OffSeen(i) \/ SetStop(i) \/ Launch(i) \/ DeleteRecord(i)
  BY <1>1, <1>2 DEF Commit, OffSeen, SetStop, Launch, DeleteRecord, Update, Record, Gone
<1>3. CASE SetStart(i)
  <2>1. op[i].kind = "restart"
    BY <1>3, Working, Routes DEF SetStart
  <2> QED
    BY <1>1, <1>3, <2>1 DEF SetStart, Update, Record
<1>4. CASE Disk(i)
  BY <1>1, <1>4 DEF Disk
<1>5. CASE Disks(i)
  <2>1. op[i].kind = "destroy" /\ op[i].at = "disks"
    BY <1>5, Working, Routes DEF Disks
  <2> QED
    BY <1>1, <1>5, <2>1 DEF Disks
<1>6. CASE \/ Service(i) \/ Wait(i) \/ Network(i) \/ OffForced(i) \/ Clear(i)
           \/ Kill(i) \/ Unwire(i) \/ Pause(i) \/ Get(i) \/ Probe(i) \/ Files(i) \/ FreeAddr(i) \/ Release(i)
  BY <1>6 DEF Service, Wait, Network, OffForced, Clear, Kill, Unwire, Pause, Get, Probe,
              Files, FreeAddr, Release
<1> QED
  BY <1>2, <1>3, <1>4, <1>5, <1>6 DEF OpStep

LEMMA OpFinal ==
  ASSUME IInv, NEW i \in Inst, IntactGood(i), OpStep(i)
  PROVE  Final(i)'
<1>1. Final(i)
  BY DEF IntactGood
<1>2. CASE Release(i)
  <2>1. op' = [op EXCEPT ![i] = Idle] /\ op \in [Inst -> Goroutines]
    BY <1>2 DEF Release, IInv, TypeOK, WorkOK
  <2>2. op'[i].kind = "none" /\ (Untouched(i)' => Untouched(i))
    BY <1>2, <2>1 DEF Idle, Untouched, Release, At, hindsight
  <2>3. UNCHANGED <<records, loop, history>>
    BY <1>2 DEF Release
  <2> QED
    BY <1>1, <2>2, <2>3 DEF Final, records, loop, history
<1>3. CASE ~Release(i)
  <2>1. PICK s \in Stages : Moved(i, s)
    BY <1>3, OpMoved
  <2>2. op'[i].kind = op[i].kind /\ (runner # "idle" => ~Untouched(i)')
    BY <2>1 DEF Moved
  <2>3. UNCHANGED <<runner, snap, doomed, put>>
    BY OpEffect DEF loop, history
  <2> QED
    BY <1>1, <2>2, <2>3, OpEffect DEF Final, Boots
<1> QED
  BY <1>2, <1>3

\* A VM is switched on with the disk that its unit was made with, and a
\* destroy marks the disk of a VM that is off.
LEMMA OpDisk ==
  ASSUME IInv, NEW i \in Inst, BaseGood(i), IntactGood(i), OpStep(i)
  PROVE  Intact(i)'
<1> USE DEF At
<1>1. /\ unit \in [Inst -> {"none", "inactive", "active"}]
      /\ disk \in [Inst -> {"none", "available", "destroy"}]
      /\ Intact(i) /\ Final(i) /\ Supplied(i) /\ Torn(i)
  BY DEF IInv, TypeOK, HostOK, RecordsOK, IntactGood, BaseGood
<1>2. CASE Disk(i)
  <2>1. /\ UNCHANGED unit
        /\ disk'[i] = IF disk[i] = "none" THEN "available" ELSE disk[i]
    BY <1>1, <1>2 DEF Disk, host
  <2> QED
    BY <1>1, <2>1 DEF Intact
<1>3. CASE Launch(i)
  <2>1. UNCHANGED disk /\ op[i].at = "launch" /\ op[i].kind \in {"create", "start", "restart"}
    BY <1>3, Working, Routes DEF Launch
  <2>2. disk[i] = "available"
    BY <1>1, <2>1 DEF Supplied, Final
  <2> QED
    BY <2>1, <2>2 DEF Intact
<1>4. CASE Disks(i)
  <2>1. op[i].kind = "destroy" /\ op[i].at = "disks" /\ UNCHANGED unit
    BY <1>4, Working, Routes DEF Disks, host
  <2> QED
    BY <1>1, <2>1 DEF Intact, Torn
<1>5. CASE Service(i) \/ OffForced(i) \/ Kill(i) \/ Files(i)
  <2>1. UNCHANGED disk /\ (unit'[i] = "active" => unit[i] = "active")
    BY <1>1, <1>5 DEF Service, OffForced, Kill, Files, records
  <2> QED
    BY <1>1, <2>1 DEF Intact
<1>6. CASE \/ Commit(i) \/ Wait(i) \/ Network(i) \/ OffSeen(i) \/ Unwire(i) \/ Clear(i)
           \/ Pause(i) \/ SetStop(i) \/ SetStart(i) \/ Get(i) \/ Probe(i) \/ FreeAddr(i)
           \/ DeleteRecord(i) \/ Release(i)
  <2>1. UNCHANGED <<disk, unit>>
    BY <1>6 DEF Commit, Wait, Network, OffSeen, Unwire, Clear, Pause, SetStop, SetStart,
                Get, Probe, FreeAddr, DeleteRecord, Release, records, host
  <2> QED
    BY <1>1, <2>1 DEF Intact
<1> QED
  BY <1>2, <1>3, <1>4, <1>5, <1>6 DEF OpStep

LEMMA OpIntact ==
  ASSUME IInv, BaseInv, IntactInv, NEW i \in Inst, OpStep(i)
  PROVE  IntactInv'
<1>1. misled' = misled
  BY OpMisled
<1>2. i \in Informed => IntactGood(i)'
  BY OpFinal, OpDisk DEF IntactInv, Informed, IntactGood, BaseInv
<1>3. ASSUME NEW j \in Informed, j # i PROVE IntactGood(j)'
  BY <1>3, OpSame, SameIntact DEF IntactInv, Informed
<1> QED
  BY <1>1, <1>2, <1>3 DEF IntactInv, Informed

LEMMA InitIntact == Init => IntactInv
<1> SUFFICES ASSUME Init, NEW i \in Inst PROVE IntactGood(i)
  BY DEF IntactInv, Informed
<1>1. db[i].state \in {"start", "stop"} /\ ~db[i].protect
  BY DEF Init
<1>2. snap[i].rec.state = "stop" /\ ~snap[i].rec.protect
  BY DEF Init, Blank, Gone
<1>3. op[i].kind = "none" /\ op[i].at = "none" /\ put[i] = "none" /\ runner = "idle"
  BY DEF Init, Idle
<1>4. disk[i] = "none" /\ unit[i] = "none"
  BY DEF Init
<1> QED
  BY <1>1, <1>2, <1>3, <1>4 DEF IntactGood, Intact, Final

LEMMA DieIntact ==
  ASSUME IntactInv, Die, UNCHANGED <<doomed, put>>
  PROVE  IntactInv'
BY DEF Die, IntactInv, Informed, IntactGood, Intact, Final, Idle, Blank, Gone, Boots,
       records, host

\* What the loop starts obeys the request that was last seen: a boot never
\* follows a destroy.
LEMMA GoroutineIntact ==
  ASSUME IInv, NEW i \in Inst, IntactGood(i), Turn(i), op[i] = Idle,
         NEW k \in Wanted(i), k \in Limited \cup {"plug"}, k = "plug" \/ i \notin stale,
         Goroutine(i, k), UNCHANGED <<records, host, runner, snap, stale, doomed, put>>
  PROVE  IntactGood(i)'
<1>1. op' = [op EXCEPT ![i] = [kind |-> k, at |-> Entry[k],
                               disk |-> k = "destroy" /\ snap[i].disk]]
      /\ op \in [Inst -> Goroutines]
  BY DEF Goroutine, IInv, TypeOK, WorkOK
<1>2. op'[i].kind = k
  BY <1>1
<1>3. /\ runner = "deploy"
      /\ i \notin stale => Untouched(i)
      /\ Untouched(i)' => i \notin stale
  BY DEF Untouched, Idle, Turn
<1>4. /\ k = "destroy" => snap[i].rec.state = "destroy"
      /\ k \in {"create", "start"} => snap[i].rec.state = "start"
      /\ k = "restart" => snap[i].rec.state = "restart"
  BY DEF Wanted
<1>5. Intact(i)'
  BY DEF IntactGood, Intact, records, host
<1>6. Final(i)'
  BY <1>2, <1>3, <1>4 DEF IntactGood, Final, Boots, records
<1> QED
  BY <1>5, <1>6 DEF IntactGood

LEMMA LoopIntact ==
  ASSUME IInv, HostInv, IntactInv, LoopStep
  PROVE  IntactInv'
<1> USE DEF records, host, loop, work, hindsight, history
<1>0. /\ \A j \in Informed : IntactGood(j)
      /\ \A j \in Inst : Unread(j)
      /\ db \in [Inst -> Record] /\ snap \in [Inst -> Sight]
  BY DEF IntactInv, HostInv, HostGood, IInv, TypeOK, RecordsOK, LoopOK
<1>1. CASE Gather \/ Namespaces
  <2>1. \A j \in Inst : snap'[j].rec.state = "stop" /\ ~snap'[j].rec.protect
    <3>1. Gather => \A j \in Inst : snap'[j].rec = Gone
      <4>1. \A x, y \in BOOLEAN : [Blank EXCEPT !.ns = x, !.disk = y].rec = Blank.rec
        BY DEF Blank
      <4>2. Gather => \A j \in Inst : \E x, y \in BOOLEAN : snap'[j] = [Blank EXCEPT !.ns = x, !.disk = y]
        BY DEF Gather
      <4>3. Blank.rec = Gone
        BY DEF Blank
      <4> QED
        BY <4>1, <4>2, <4>3
    <3>2. Namespaces => \A j \in Inst : snap'[j].rec = Gone
      BY DEF Namespaces, Blank
    <3> QED
      BY <1>1, <3>1, <3>2 DEF Gone
  <2>2. UNCHANGED <<records, unit, op, misled, history>> /\ runner' \in {"load", "idle"}
    BY <1>1 DEF Gather, Namespaces
  <2> QED
    BY <1>0, <2>1, <2>2 DEF IntactInv, Informed, IntactGood, Intact, Final, Boots
<1>2. CASE Boot \/ Decide
  BY <1>0, <1>2 DEF Boot, Decide, IntactInv, Informed, IntactGood, Intact, Final, Untouched
<1>3. CASE Load
  <2>1. \A j \in Inst : snap'[j].rec = db[j]
    BY <1>0, <1>3 DEF Load, Sight
  <2>2. runner' = "query" /\ UNCHANGED <<records, host, work, hindsight, history>>
    BY <1>3 DEF Load
  <2> QED
    BY <1>0, <2>1, <2>2 DEF IntactInv, Informed, IntactGood, Intact, Final, Untouched, Boots
<1>4. ASSUME NEW i \in Inst, QueryGone(i) \/ PanicDestroy(i)
      PROVE  IntactInv'
  BY <1>4, DieIntact DEF QueryGone, PanicDestroy
<1>5. ASSUME NEW i \in Inst, Query(i)
      PROVE  IntactInv'
  <2>1. \A j \in Inst : snap'[j].rec = snap[j].rec
    BY <1>0, <1>5 DEF Query, Sight
  <2>2. UNCHANGED <<records, host, runner, work, hindsight, history>>
    BY <1>5 DEF Query
  <2> QED
    BY <1>0, <2>1, <2>2 DEF IntactInv, Informed, IntactGood, Intact, Final, Untouched
<1>6. ASSUME NEW i \in Inst, Report(i)
      PROVE  IntactInv'
  <2>1. \A j \in Inst : /\ db'[j].state \in {db[j].state, "cleanup"}
                        /\ db'[j].protect = db[j].protect
    <3>1. \/ Update(i, [db[i] EXCEPT !.state = "cleanup", !.vm = "stopped"])
          \/ Update(i, [db[i] EXCEPT !.vm = snap[i].virt])
      BY <1>6 DEF Report
    <3>2. /\ [db[i] EXCEPT !.state = "cleanup", !.vm = "stopped"].state = "cleanup"
          /\ [db[i] EXCEPT !.state = "cleanup", !.vm = "stopped"].protect = db[i].protect
          /\ [db[i] EXCEPT !.vm = snap[i].virt].state = db[i].state
          /\ [db[i] EXCEPT !.vm = snap[i].virt].protect = db[i].protect
      BY <1>0 DEF Record
    <3>3. \A j \in Inst : j # i => db'[j] = db[j]
      BY <1>0, <3>1 DEF Update
    <3>4. \/ db'[i] = db[i]
          \/ db'[i] = [db[i] EXCEPT !.state = "cleanup", !.vm = "stopped"]
          \/ db'[i] = [db[i] EXCEPT !.vm = snap[i].virt]
      BY <1>0, <3>1 DEF Update
    <3> QED
      BY <3>2, <3>3, <3>4
  <2>2. \A j \in Inst : /\ snap'[j].rec.state \in {snap[j].rec.state, "cleanup"}
                        /\ snap'[j].rec.protect = snap[j].rec.protect
    <3>1. snap' = [snap EXCEPT ![i].rec.state = "cleanup"] \/ snap' = snap
      BY <1>6 DEF Report
    <3>2. /\ [snap[i].rec EXCEPT !.state = "cleanup"].protect = snap[i].rec.protect
          /\ [snap[i].rec EXCEPT !.state = "cleanup"].state = "cleanup"
      BY <1>0 DEF Sight, Record
    <3> QED
      BY <1>0, <3>1, <3>2 DEF Sight
  <2>3. UNCHANGED <<addr, disk, host, runner, work, hindsight, history>>
    BY <1>6 DEF Report
  <2> QED
    BY <1>0, <2>1, <2>2, <2>3 DEF IntactInv, Informed, IntactGood, Intact, Final,
                                  Untouched, Boots
<1>7. ASSUME NEW i \in Inst, IgnoreDestroy(i)
      PROVE  IntactInv'
  <2>1. i \notin Informed
    BY <1>0, <1>7 DEF IgnoreDestroy, Protected, IntactGood, Final
  <2>2. \A j \in Inst : j # i => db'[j] = db[j]
    BY <1>0, <1>7 DEF IgnoreDestroy, Update
  <2>3. UNCHANGED <<addr, disk, host, runner, snap, work, hindsight, history>>
    BY <1>7 DEF IgnoreDestroy
  <2> QED
    BY <1>0, <2>1, <2>2, <2>3 DEF IntactInv, Informed, IntactGood, Intact, Final, Untouched
<1>8. ASSUME NEW i \in Inst, Dispatch(i) \/ DispatchPlug(i) \/ DispatchNothing(i)
      PROVE  IntactInv'
  <2>1. UNCHANGED <<records, host, runner, snap, stale, history>> /\ Turn(i)
    BY <1>8 DEF Dispatch, DispatchPlug, DispatchNothing
  <2>2. \/ UNCHANGED <<op, misled>>
        \/ \E k \in Wanted(i) : /\ k \in Limited \cup {"plug"}
                                /\ op[i] = Idle /\ Goroutine(i, k)
                                /\ (k = "plug" /\ misled' = misled) \/ Misled(i)
    BY <1>8 DEF Dispatch, DispatchPlug, DispatchNothing
  <2>3. CASE UNCHANGED <<op, misled>>
    BY <1>0, <2>1, <2>3 DEF IntactInv, Informed, IntactGood, Intact, Final, Untouched
  <2>4. ASSUME NEW k \in Wanted(i), k \in Limited \cup {"plug"}, op[i] = Idle,
               Goroutine(i, k), (k = "plug" /\ misled' = misled) \/ Misled(i)
        PROVE  IntactInv'
    <3>1. /\ misled \subseteq misled'
          /\ i \notin misled' => i \notin misled /\ (k = "plug" \/ i \notin stale)
      BY <2>4 DEF Misled
    <3>2. i \notin misled' => IntactGood(i)'
      BY <1>0, <2>1, <2>4, <3>1, GoroutineIntact DEF Informed
    <3>3. ASSUME NEW j \in Informed, j # i PROVE IntactGood(j)'
      <4>1. op'[j] = op[j] /\ j \in Inst
        BY <2>4, <3>3 DEF Goroutine, IInv, TypeOK, WorkOK, Informed
      <4> QED
        BY <1>0, <2>1, <4>1 DEF IntactGood, Intact, Final, Untouched
    <3> QED
      BY <3>1, <3>2, <3>3 DEF IntactInv, Informed
  <2> QED
    BY <2>2, <2>3, <2>4
<1>9. ASSUME NEW i \in Inst, ForceOff(i) \/ ForceClear(i)
      PROVE  IntactInv'
  <2>1. \A j \in Inst : snap'[j].rec = snap[j].rec /\ (unit'[j] = "active" => unit[j] = "active")
    BY <1>0, <1>9 DEF ForceOff, ForceClear, Sight, IInv, TypeOK, HostOK
  <2>2. UNCHANGED <<records, runner, work, hindsight, history>>
    BY <1>9 DEF ForceOff, ForceClear
  <2> QED
    BY <1>0, <2>1, <2>2 DEF IntactInv, Informed, IntactGood, Intact, Final, Untouched
<1> QED
  BY <1>1, <1>2, <1>3, <1>4, <1>5, <1>6, <1>7, <1>8, <1>9 DEF LoopStep

LEMMA EnvironmentIntact ==
  ASSUME IInv, HostInv, IntactInv, Environment, Unrevoked
  PROVE  IntactInv'
<1> USE DEF records, host, loop, work, hindsight, history
<1>0. /\ \A j \in Informed : IntactGood(j)
      /\ \A j \in Inst : Unread(j)
      /\ db \in [Inst -> Record] /\ snap \in [Inst -> Sight]
      /\ "protect" \notin Calls /\ "revoke" \notin Calls /\ "force" \notin Calls
  BY DEF IntactInv, HostInv, HostGood, IInv, TypeOK, RecordsOK, LoopOK, Unrevoked
<1>1. CASE Crash
  BY <1>1, DieIntact DEF Crash
<1>2. CASE LoadBlind
  <2>1. \A j \in Inst : snap'[j].rec = Gone
    BY <1>0, <1>2 DEF LoadBlind, Sight, Unread
  <2>2. runner' = "query" /\ UNCHANGED <<records, host, work, hindsight, doomed, put>>
    BY <1>2 DEF LoadBlind
  <2> QED
    BY <1>0, <2>1, <2>2 DEF IntactInv, Informed, IntactGood, Intact, Final, Untouched,
                            Gone, Boots
<1>3. CASE Abort
  BY <1>0, <1>3 DEF Abort, IntactInv, Informed, IntactGood, Intact, Final, Blank, Gone, Boots
<1>4. ASSUME NEW i \in Inst, NEW s \in States, SetState(i, s)
      PROVE  IntactInv'
  <2>1. i \notin doomed /\ s # "destroy" /\ UNCHANGED <<addr, disk, host, loop, work, hindsight, doomed, put>>
    BY <1>0, <1>4 DEF SetState
  <2>2. /\ db'[i].state = s /\ db'[i].protect = db[i].protect
        /\ \A j \in Inst : j # i => db'[j] = db[j]
    BY <1>0, <1>4 DEF SetState, Record
  <2>3. i \in Informed => IntactGood(i)'
    BY <1>0, <2>1, <2>2 DEF IntactGood, Intact, Final, Untouched
  <2>4. ASSUME NEW j \in Informed, j # i PROVE IntactGood(j)'
    BY <1>0, <2>1, <2>2, <2>4 DEF IntactGood, Intact, Final, Untouched, Informed
  <2> QED
    BY <2>1, <2>3, <2>4 DEF IntactInv, Informed
<1>5. ASSUME NEW i \in Inst, Delete(i)
      PROVE  IntactInv'
  <2>1. doomed' = doomed \cup {i} /\ UNCHANGED <<addr, disk, host, loop, work, hindsight, put>>
    BY <1>5 DEF Delete
  <2>2. /\ db'[i].state = "destroy" /\ db'[i].protect = db[i].protect
        /\ \A j \in Inst : j # i => db'[j] = db[j]
    BY <1>0, <1>5 DEF Delete, Record
  <2>3. i \in Informed => IntactGood(i)'
    BY <1>0, <2>1, <2>2 DEF IntactGood, Intact, Final, Untouched, Boots
  <2>4. ASSUME NEW j \in Informed, j # i PROVE IntactGood(j)'
    BY <1>0, <2>1, <2>2, <2>4 DEF IntactGood, Intact, Final, Untouched, Informed
  <2> QED
    BY <2>1, <2>3, <2>4 DEF IntactInv, Informed
<1>6. ASSUME NEW i \in Inst, DeleteCheck(i)
      PROVE  IntactInv'
  <2>1. put' = [put EXCEPT ![i] = "delete"] /\ UNCHANGED <<records, host, loop, work, hindsight, doomed>>
        /\ put \in [Inst -> States \cup {"none", "delete"}]
    BY <1>6 DEF DeleteCheck, IInv, TypeOK, HistoryOK
  <2> QED
    BY <1>0, <2>1 DEF IntactInv, Informed, IntactGood, Intact, Final, Untouched
<1>7. ASSUME NEW i \in Inst, DeleteCommit(i)
      PROVE  IntactInv'
  <2>1. doomed' = doomed \cup {i} /\ UNCHANGED <<addr, disk, host, loop, work, hindsight>>
        /\ put' = [put EXCEPT ![i] = "none"]
        /\ put \in [Inst -> States \cup {"none", "delete"}]
    BY <1>7 DEF DeleteCommit, IInv, TypeOK, HistoryOK
  <2>2. /\ db'[i].state \in {db[i].state, "destroy"} /\ db'[i].protect = db[i].protect
        /\ \A j \in Inst : j # i => db'[j] = db[j]
    BY <1>0, <1>7 DEF DeleteCommit, Update, Record
  <2>3. i \in Informed => IntactGood(i)'
    BY <1>0, <2>1, <2>2 DEF IntactGood, Intact, Final, Untouched, Boots
  <2>4. ASSUME NEW j \in Informed, j # i PROVE IntactGood(j)'
    BY <1>0, <2>1, <2>2, <2>4 DEF IntactGood, Intact, Final, Untouched, Informed
  <2> QED
    BY <2>1, <2>3, <2>4 DEF IntactInv, Informed
<1>8. ASSUME NEW i \in Inst, Put(i) \/ PutCommit(i) \/ ForceDelete(i)
      PROVE  IntactInv'
  <2>1. PutCommit(i)
    BY <1>0, <1>8 DEF Put, ForceDelete, Call
  <2>2. put[i] \in States /\ "none" \notin States /\ "delete" \notin States
    BY <2>1 DEF PutCommit, States
  <2>3. i \notin Informed
    BY <1>0, <2>2 DEF IntactGood, Final
  <2>4. \A j \in Inst : j # i => db'[j] = db[j] /\ put'[j] = put[j]
    BY <1>0, <2>1 DEF PutCommit, Update, IInv, TypeOK, HistoryOK
  <2>5. UNCHANGED <<addr, disk, host, loop, work, hindsight, doomed>>
    BY <2>1 DEF PutCommit
  <2> QED
    BY <1>0, <2>3, <2>4, <2>5 DEF IntactInv, Informed, IntactGood, Intact, Final, Untouched
<1>9. ASSUME NEW i \in Inst, Halt(i) \/ Exit(i)
      PROVE  IntactInv'
  <2>1. /\ unit[i] = "active" /\ unit'[i] = "inactive"
        /\ \A j \in Inst : j # i => unit'[j] = unit[j]
        /\ UNCHANGED <<records, loop, work, hindsight, doomed, put>>
    BY <1>9, HaltedUnit
  <2> QED
    BY <1>0, <2>1 DEF IntactInv, Informed, IntactGood, Intact, Final, Untouched
<1>10. ASSUME NEW i \in Inst, Error(i) \/ SetStopError(i)
      PROVE  IntactInv'
  <2>1. i \in Informed => IntactGood(i)'
    BY <1>0, <1>10, FailedMoved DEF IntactGood, Intact, Final
  <2>2. ASSUME NEW j \in Informed, j # i PROVE IntactGood(j)'
    BY <1>0, <1>10, <2>2, FailedMoved DEF IntactGood, Intact, Final, Untouched, Informed
  <2>3. misled' = misled
    BY <1>10, FailedMoved
  <2> QED
    BY <2>1, <2>2, <2>3 DEF IntactInv, Informed
<1>11. ASSUME NEW i \in Inst, QueryFails(i) \/ ForceFails(i)
      PROVE  IntactInv'
  <2>1. \A j \in Inst : snap'[j].rec = snap[j].rec /\ (j \in stale => j \in stale')
    BY <1>0, <1>11 DEF QueryFails, ForceFails, Sight
  <2>2. UNCHANGED <<records, host, runner, op, misled, doomed, put>>
    BY <1>11 DEF QueryFails, ForceFails
  <2> QED
    BY <1>0, <2>1, <2>2 DEF IntactInv, Informed, IntactGood, Intact, Final, Untouched
<1> QED
  BY <1>1, <1>2, <1>3, <1>4, <1>5, <1>6, <1>7, <1>8, <1>9, <1>10, <1>11 DEF Environment

LEMMA NextIntact ==
  ASSUME Unrevoked
  PROVE  IInv /\ BaseInv /\ HostInv /\ IntactInv /\ [Next]_vars => IntactInv'
<1> SUFFICES ASSUME IInv, BaseInv, HostInv, IntactInv, [Next]_vars PROVE IntactInv'
  OBVIOUS
<1>1. CASE UNCHANGED vars
  BY <1>1 DEF vars, records, host, loop, work, hindsight, history, IntactInv, Informed,
              IntactGood, Intact, Final, Untouched
<1>2. CASE Next
  BY <1>2, LoopIntact, EnvironmentIntact, OpIntact DEF Next
<1> QED
  BY <1>1, <1>2

\* From the decision to destroy an instance on nothing boots it again, but for
\* a goroutine that was misled.
THEOREM IntactInvariance ==
  ASSUME Unrevoked
  PROVE  Spec => []IntactInv
<1>1. Init => IntactInv
  BY InitIntact
<1>2. IInv /\ BaseInv /\ HostInv /\ IntactInv /\ [Next]_vars => IntactInv'
  BY NextIntact
<1>3. "force" \notin Calls
  BY DEF Unrevoked
<1> QED
  BY <1>1, <1>2, <1>3, Invariance, BaseInvariance, HostInvariance, PTL DEF Spec

\* A running VM keeps its reserved address and its root disk, through every
\* order of starts, stops, restarts, deletes, crashes and errors, unless a
\* goroutine was started on an outdated snapshot of its instance.
THEOREM RunningStaysIntact ==
  ASSUME Unrevoked
  PROVE  Spec => []RunningIntact
<1>1. BaseInv /\ IntactInv => RunningIntact
  BY DEF BaseInv, BaseGood, Supplied, IntactInv, IntactGood, Intact, RunningIntact, Informed
<1>2. "force" \notin Calls
  BY DEF Unrevoked
<1> QED
  BY <1>1, <1>2, IntactInvariance, BaseInvariance, PTL

-----------------------------------------------------------------------------
(* The order of all that is done to an instance: VmLifecycle.                *)

\* The abstract state of the refinement, as DeployInstances maps it.
KnownSet == {i \in Inst : db[i].exists}
VmMap == [i \in Inst |-> CASE unit[i] = "none" -> "absent"
                           [] unit[i] = "inactive" -> "off"
                           [] OTHER -> "on"]
AddrSet == {i \in Inst : addr[i]}

\* What is not changed, abstractly.
LEMMA KeptKnown ==
  ASSUME \A j \in Inst : db'[j].exists = db[j].exists
  PROVE  KnownSet' = KnownSet
BY DEF KnownSet

LEMMA KeptVm ==
  ASSUME UNCHANGED unit
  PROVE  VmMap' = VmMap
BY DEF VmMap

LEMMA KeptAddr ==
  ASSUME UNCHANGED addr
  PROVE  AddrSet' = AddrSet
BY DEF AddrSet

\* A unit that changes is a VM that changes.
LEMMA MovedVm ==
  ASSUME IInv, NEW i \in Inst, NEW u \in {"none", "inactive", "active"},
         unit' = [unit EXCEPT ![i] = u]
  PROVE  VmMap' = [VmMap EXCEPT ![i] = IF u = "none" THEN "absent"
                                       ELSE IF u = "inactive" THEN "off" ELSE "on"]
<1>1. unit \in [Inst -> {"none", "inactive", "active"}]
  BY DEF IInv, TypeOK, HostOK
<1>2. unit'[i] = u /\ \A j \in Inst : j # i => unit'[j] = unit[j]
  BY <1>1
<1> QED
  BY <1>2 DEF VmMap

LEMMA Stutters ==
  ASSUME \A j \in Inst : db'[j].exists = db[j].exists,
         UNCHANGED <<addr, disk, unit>>
  PROVE  UNCHANGED Lifecycle!vars
BY KeptKnown, KeptVm, KeptAddr DEF Lifecycle!vars, KnownSet, VmMap, AddrSet

\* A VM that is stopped is switched off, if it runs.
LEMMA StoppedVm ==
  ASSUME IInv, NEW i \in Inst, UNCHANGED <<addr, disk>>, KnownSet' = KnownSet,
         unit' = [unit EXCEPT ![i] = IF @ = "active" THEN "inactive" ELSE @]
  PROVE  Lifecycle!PowerOff(i) \/ UNCHANGED Lifecycle!vars
<1>1. AddrSet' = AddrSet
  BY KeptAddr
<1>2. CASE unit[i] = "active"
  <2>1. unit' = [unit EXCEPT ![i] = "inactive"]
    BY <1>2
  <2>2. VmMap[i] = "on" /\ VmMap' = [VmMap EXCEPT ![i] = "off"]
    BY <1>2, <2>1, MovedVm DEF VmMap
  <2> QED
    BY <1>1, <2>2 DEF Lifecycle!PowerOff, KnownSet, VmMap, AddrSet
<1>3. CASE unit[i] # "active"
  <2>1. unit' = unit
    BY <1>3 DEF IInv, TypeOK, HostOK
  <2>2. VmMap' = VmMap
    BY <2>1, KeptVm
  <2> QED
    BY <1>1, <2>2 DEF Lifecycle!vars, KnownSet, VmMap, AddrSet
<1> QED
  BY <1>2, <1>3

LEMMA InitRefines == Init => Lifecycle!Init
<1> SUFFICES ASSUME Init PROVE Lifecycle!Init
  OBVIOUS
<1>1. KnownSet = Inst
  BY DEF Init, KnownSet
<1>2. VmMap = [i \in Inst |-> "absent"]
  BY DEF Init, VmMap
<1>3. AddrSet = {}
  BY DEF Init, AddrSet
<1>4. disk = [i \in Inst |-> "none"]
  BY DEF Init
<1> QED
  BY <1>1, <1>2, <1>3, <1>4 DEF Lifecycle!Init, KnownSet, VmMap, AddrSet

\* Users and faults: a guest that halts is switched off, nothing else is seen.
LEMMA EnvironmentRefines ==
  ASSUME IInv, Environment, "force" \notin Calls
  PROVE  [Lifecycle!Next]_(Lifecycle!vars)
<1> USE DEF records, host, loop
<1>0. db \in [Inst -> Record]
  BY DEF IInv, TypeOK, RecordsOK
<1>1. CASE Crash \/ LoadBlind \/ Abort
  BY <1>1, Stutters DEF Crash, Die, LoadBlind, Abort
<1>2. ASSUME NEW i \in Inst,
             \/ \E s \in States : SetState(i, s)
             \/ Delete(i) \/ DeleteCheck(i) \/ DeleteCommit(i) \/ Put(i) \/ PutCommit(i)
             \/ QueryFails(i) \/ ForceFails(i) \/ Error(i) \/ SetStopError(i)
      PROVE  UNCHANGED Lifecycle!vars
  <2>1. UNCHANGED <<addr, disk, host>>
    BY <1>2 DEF SetState, Delete, DeleteCheck, DeleteCommit, Put, PutCommit, QueryFails,
                ForceFails, Error, SetStopError
  <2>2. \A j \in Inst : db'[j].exists = db[j].exists
    BY <1>0, <1>2 DEF SetState, Delete, DeleteCheck, DeleteCommit, Put, PutCommit, Update,
                      Record, QueryFails, ForceFails, Error, SetStopError
  <2> QED
    BY <2>1, <2>2, Stutters
<1>3. ASSUME NEW i \in Inst, ForceDelete(i)
      PROVE  FALSE
  BY <1>3 DEF ForceDelete, Call
<1>4. ASSUME NEW i \in Inst, Halt(i) \/ Exit(i)
      PROVE  Lifecycle!Next
  <2>1. unit[i] = "active" /\ unit' = [unit EXCEPT ![i] = "inactive"] /\ UNCHANGED records
    BY <1>4 DEF Halt, Exit
  <2>2. VmMap[i] = "on" /\ VmMap' = [VmMap EXCEPT ![i] = "off"]
    BY <2>1, MovedVm DEF VmMap
  <2>3. KnownSet' = KnownSet /\ AddrSet' = AddrSet
    BY <2>1 DEF KnownSet, AddrSet
  <2>4. Lifecycle!PowerOff(i)
    BY <2>1, <2>2, <2>3 DEF Lifecycle!PowerOff, KnownSet, VmMap, AddrSet
  <2> QED
    BY <2>4 DEF Lifecycle!Next
<1> QED
  BY <1>1, <1>2, <1>3, <1>4 DEF Environment

\* The loop itself only looks and starts goroutines, but that it stops a VM
\* whose unit it cannot read.
LEMMA LoopRefines ==
  ASSUME IInv, LoopStep
  PROVE  [Lifecycle!Next]_(Lifecycle!vars)
<1> USE DEF records, host, loop
<1>0. db \in [Inst -> Record]
  BY DEF IInv, TypeOK, RecordsOK
<1>1. CASE Gather \/ Load \/ Decide \/ Namespaces \/ Boot
  BY <1>1, Stutters DEF Gather, Load, Decide, Namespaces, Boot
<1>2. ASSUME NEW i \in Inst,
             \/ Query(i) \/ QueryGone(i) \/ PanicDestroy(i)
             \/ Dispatch(i) \/ DispatchPlug(i) \/ DispatchNothing(i)
      PROVE  UNCHANGED Lifecycle!vars
  BY <1>2, Stutters DEF Query, QueryGone, PanicDestroy, Die, Dispatch, DispatchPlug,
                        DispatchNothing
<1>3. ASSUME NEW i \in Inst, Report(i) \/ IgnoreDestroy(i)
      PROVE  UNCHANGED Lifecycle!vars
  <2>1. UNCHANGED <<addr, disk, host>>
    BY <1>3 DEF Report, IgnoreDestroy
  <2>2. \A j \in Inst : db'[j].exists = db[j].exists
    BY <1>0, <1>3 DEF Report, IgnoreDestroy, Update, Record
  <2> QED
    BY <2>1, <2>2, Stutters
<1>4. ASSUME NEW i \in Inst, ForceOff(i)
      PROVE  [Lifecycle!Next]_(Lifecycle!vars)
  <2>1. /\ unit' = [unit EXCEPT ![i] = IF @ = "active" THEN "inactive" ELSE @]
        /\ UNCHANGED records
    BY <1>4 DEF ForceOff
  <2>2. Lifecycle!PowerOff(i) \/ UNCHANGED Lifecycle!vars
    BY <2>1, StoppedVm DEF KnownSet
  <2> QED
    BY <2>2 DEF Lifecycle!Next
<1>5. ASSUME NEW i \in Inst, ForceClear(i)
      PROVE  UNCHANGED Lifecycle!vars
  BY <1>5, Stutters DEF ForceClear
<1> QED
  BY <1>1, <1>2, <1>3, <1>4, <1>5 DEF LoopStep

\* Each stage of a goroutine that touches the VM or what it uses is one step
\* of the lifecycle, taken when the lifecycle allows it.
LEMMA OpRefines ==
  ASSUME IInv, BaseInv, NEW i \in Inst, OpStep(i)
  PROVE  [Lifecycle!Next]_(Lifecycle!vars)
<1> USE DEF At, records, host
<1> DEFINE Steps == \/ Lifecycle!MakeRoot(i) \/ Lifecycle!Define(i) \/ Lifecycle!PowerOn(i)
                    \/ Lifecycle!PowerOff(i) \/ Lifecycle!DropRoot(i) \/ Lifecycle!Undefine(i)
                    \/ Lifecycle!FreeAddr(i) \/ Lifecycle!Forget(i)
<1>0. /\ db \in [Inst -> Record] /\ addr \in [Inst -> BOOLEAN]
      /\ disk \in [Inst -> {"none", "available", "destroy"}]
      /\ unit \in [Inst -> {"none", "inactive", "active"}]
      /\ Supplied(i) /\ Torn(i)
  BY DEF IInv, TypeOK, RecordsOK, HostOK, BaseInv, BaseGood
<1>1. SUFFICES Steps \/ UNCHANGED Lifecycle!vars
  BY DEF Lifecycle!Next
<1>2. ASSUME ~DeleteRecord(i)
      PROVE  KnownSet' = KnownSet
  <2>1. db'[i].exists = db[i].exists
    BY <1>2, OpExists
  <2>2. \A j \in Inst : j # i => db'[j] = db[j]
    BY OpSame DEF Same
  <2> QED
    BY <2>1, <2>2 DEF KnownSet
<1>3. ASSUME op[i].at \notin {"none", "hold"}
      PROVE  op[i].kind \in Limited /\ op[i].at \in DOMAIN Flow[op[i].kind]
  BY <1>3, Working
<1>4. CASE Disk(i)
  <2>1. KnownSet' = KnownSet /\ AddrSet' = AddrSet /\ VmMap' = VmMap
    BY <1>2, <1>4, KeptVm, KeptAddr DEF Disk, DeleteRecord
  <2>2. CASE disk[i] = "none"
    <3>1. VmMap[i] = "absent"
      BY <1>0, <2>2 DEF VmMap, Supplied
    <3> QED
      BY <1>4, <2>1, <2>2, <3>1 DEF Disk, Lifecycle!MakeRoot, KnownSet, VmMap, AddrSet
  <2>3. CASE disk[i] # "none"
    BY <1>4, <2>1, <2>3 DEF Disk, Lifecycle!vars, KnownSet, VmMap, AddrSet
  <2> QED
    BY <2>2, <2>3
<1>5. CASE Service(i)
  <2>1. /\ disk[i] # "none" /\ UNCHANGED disk
        /\ unit' = [unit EXCEPT ![i] = IF @ = "none" THEN "inactive" ELSE @]
    BY <1>0, <1>5 DEF Service, Supplied
  <2>2. KnownSet' = KnownSet
    BY <1>2, <1>5 DEF Service, DeleteRecord
  <2>3. AddrSet' = AddrSet \cup {i}
    BY <1>0, <1>5 DEF Service, AddrSet
  <2>4. CASE unit[i] = "active"
    <3>1. unit' = unit
      BY <1>0, <2>1, <2>4
    <3>2. VmMap' = VmMap
      BY <3>1, KeptVm
    <3>3. i \in AddrSet
      BY <1>0, <2>4 DEF Supplied, AddrSet
    <3>4. AddrSet' = AddrSet
      BY <2>3, <3>3
    <3> QED
      BY <2>1, <2>2, <3>2, <3>4 DEF Lifecycle!vars, KnownSet, VmMap, AddrSet
  <2>5. CASE unit[i] # "active"
    <3>1. unit' = [unit EXCEPT ![i] = "inactive"]
      BY <1>0, <2>1, <2>5
    <3>2. VmMap[i] # "on" /\ VmMap' = [VmMap EXCEPT ![i] = "off"]
      BY <1>0, <2>5, <3>1, MovedVm DEF VmMap
    <3> QED
      BY <2>1, <2>2, <2>3, <3>2 DEF Lifecycle!Define, KnownSet, VmMap, AddrSet
  <2> QED
    BY <2>4, <2>5
<1>6. CASE Launch(i)
  <2>1. /\ unit[i] # "none" /\ UNCHANGED <<addr, disk>>
        /\ unit' = [unit EXCEPT ![i] = "active"]
        /\ disk[i] # "none" /\ addr[i]
    BY <1>0, <1>6 DEF Launch, Supplied
  <2>2. KnownSet' = KnownSet
    BY <1>2, <1>6 DEF Launch, DeleteRecord
  <2>3. i \in AddrSet /\ AddrSet' = AddrSet
    BY <2>1, KeptAddr DEF AddrSet
  <2>4. CASE unit[i] = "active"
    <3>1. unit' = unit
      BY <1>0, <2>1, <2>4
    <3>2. VmMap' = VmMap
      BY <3>1, KeptVm
    <3> QED
      BY <2>1, <2>2, <2>3, <3>2 DEF Lifecycle!vars, KnownSet, VmMap, AddrSet
  <2>5. CASE unit[i] = "inactive"
    <3>1. VmMap[i] = "off" /\ VmMap' = [VmMap EXCEPT ![i] = "on"]
      BY <2>1, <2>5, MovedVm DEF VmMap
    <3> QED
      BY <2>1, <2>2, <2>3, <3>1 DEF Lifecycle!PowerOn, KnownSet, VmMap, AddrSet
  <2> QED
    BY <1>0, <2>1, <2>4, <2>5
<1>7. CASE OffForced(i) \/ Kill(i)
  <2>1. /\ UNCHANGED records
        /\ unit' = [unit EXCEPT ![i] = IF @ = "active" THEN "inactive" ELSE @]
    BY <1>7 DEF OffForced, Kill
  <2>2. Lifecycle!PowerOff(i) \/ UNCHANGED Lifecycle!vars
    BY <2>1, StoppedVm DEF KnownSet
  <2> QED
    BY <2>2
<1>8. CASE Disks(i)
  <2>1. unit[i] # "active" /\ UNCHANGED <<addr, unit>>
    BY <1>0, <1>3, <1>8, Routes DEF Disks, Torn
  <2>2. KnownSet' = KnownSet /\ AddrSet' = AddrSet /\ VmMap' = VmMap /\ VmMap[i] # "on"
    BY <1>0, <1>2, <1>8, <2>1 DEF Disks, DeleteRecord, AddrSet, VmMap
  <2>3. CASE op[i].disk
    BY <1>8, <2>2, <2>3 DEF Disks, Lifecycle!DropRoot, KnownSet, VmMap, AddrSet
  <2>4. CASE ~op[i].disk
    BY <1>8, <2>2, <2>4 DEF Disks, Lifecycle!vars, KnownSet, VmMap, AddrSet
  <2> QED
    BY <2>3, <2>4
<1>9. CASE Files(i)
  <2>1. unit[i] # "active" /\ UNCHANGED <<addr, disk>> /\ unit' = [unit EXCEPT ![i] = "none"]
    BY <1>0, <1>3, <1>9, Routes DEF Files, Torn
  <2>2. KnownSet' = KnownSet /\ AddrSet' = AddrSet
    BY <1>2, <1>9, <2>1 DEF Files, DeleteRecord, AddrSet
  <2>3. VmMap' = [VmMap EXCEPT ![i] = "absent"]
    BY <2>1, MovedVm
  <2>4. CASE unit[i] = "inactive"
    <3>1. VmMap[i] = "off"
      BY <2>4 DEF VmMap
    <3> QED
      BY <2>1, <2>2, <2>3, <3>1 DEF Lifecycle!Undefine, KnownSet, VmMap, AddrSet
  <2>5. CASE unit[i] = "none"
    <3>1. unit' = unit
      BY <1>0, <2>1, <2>5
    <3>2. VmMap' = VmMap
      BY <3>1, KeptVm
    <3> QED
      BY <2>1, <2>2, <3>2 DEF Lifecycle!vars, KnownSet, VmMap, AddrSet
  <2> QED
    BY <1>0, <2>1, <2>4, <2>5
<1>10. CASE FreeAddr(i)
  <2>1. unit[i] = "none" /\ UNCHANGED <<disk, unit>>
    BY <1>0, <1>10 DEF FreeAddr, Torn
  <2>2. KnownSet' = KnownSet /\ VmMap' = VmMap /\ VmMap[i] = "absent"
    BY <1>2, <1>10, <2>1 DEF FreeAddr, DeleteRecord, VmMap
  <2>3. CASE addr' = [addr EXCEPT ![i] = FALSE]
    <3>1. AddrSet' = AddrSet \ {i}
      BY <1>0, <2>3 DEF AddrSet
    <3> QED
      BY <2>1, <2>2, <3>1 DEF Lifecycle!FreeAddr, KnownSet, VmMap, AddrSet
  <2>4. CASE addr' = addr
    <3>1. AddrSet' = AddrSet
      BY <2>4, KeptAddr
    <3> QED
      BY <2>1, <2>2, <3>1 DEF Lifecycle!vars, KnownSet, VmMap, AddrSet
  <2> QED
    BY <1>10, <2>3, <2>4 DEF FreeAddr
<1>11. CASE DeleteRecord(i)
  <2>1. unit[i] = "none" /\ ~addr[i] /\ UNCHANGED <<addr, disk, unit>>
    BY <1>0, <1>11 DEF DeleteRecord, Torn
  <2>2. VmMap' = VmMap /\ VmMap[i] = "absent" /\ AddrSet' = AddrSet /\ i \notin AddrSet
    BY <2>1 DEF VmMap, AddrSet
  <2>3. KnownSet' = KnownSet \ {i}
    BY <1>0, <1>11 DEF DeleteRecord, KnownSet, Gone
  <2> QED
    BY <2>1, <2>2, <2>3 DEF Lifecycle!Forget, KnownSet, VmMap, AddrSet
<1>12. CASE Network(i)
  <2>1. addr[i] /\ UNCHANGED <<disk, unit>> /\ addr' = [addr EXCEPT ![i] = TRUE]
    BY <1>0, <1>12 DEF Network, Supplied
  <2>2. KnownSet' = KnownSet /\ VmMap' = VmMap
    BY <1>2, <1>12, <2>1, KeptVm DEF Network, DeleteRecord
  <2>3. AddrSet' = AddrSet
    BY <1>0, <2>1 DEF AddrSet
  <2> QED
    BY <2>1, <2>2, <2>3 DEF Lifecycle!vars, KnownSet, VmMap, AddrSet
<1>13. CASE \/ Commit(i) \/ Wait(i) \/ OffSeen(i) \/ Unwire(i) \/ Clear(i) \/ Pause(i) \/ SetStop(i)
            \/ SetStart(i) \/ Get(i) \/ Probe(i) \/ Release(i)
  <2>1. ~DeleteRecord(i)
    BY <1>13 DEF Commit, Wait, OffSeen, Unwire, Clear, Pause, SetStop, SetStart, Get, Probe,
                 Release, DeleteRecord
  <2>2. UNCHANGED <<addr, disk, unit>>
    BY <1>13 DEF Commit, Wait, OffSeen, Unwire, Clear, Pause, SetStop, SetStart, Get, Probe, Release
  <2> QED
    BY <1>2, <2>1, <2>2, KeptVm, KeptAddr DEF Lifecycle!vars, KnownSet, VmMap, AddrSet
<1> QED
  BY <1>4, <1>5, <1>6, <1>7, <1>8, <1>9, <1>10, <1>11, <1>12, <1>13 DEF OpStep

\* The deploy loop keeps the promises of VmLifecycle, however old the snapshot
\* was that a goroutine was started on: a VM is defined once it has had a root
\* disk, and switched on only with an address; a running VM's files, address
\* and disk are not taken away from it by the goroutine that destroys it; the
\* instance is forgotten last.
THEOREM DeployRefinesLifecycle ==
  ASSUME "force" \notin Calls
  PROVE  Spec => ImplementsVmLifecycle
<1>1. Init => Lifecycle!Init
  BY InitRefines
<1>2. IInv /\ BaseInv /\ [Next]_vars => [Lifecycle!Next]_(Lifecycle!vars)
  <2> SUFFICES ASSUME IInv, BaseInv, [Next]_vars
               PROVE  [Lifecycle!Next]_(Lifecycle!vars)
    OBVIOUS
  <2>1. CASE UNCHANGED vars
    BY <2>1, Stutters DEF vars, records, host
  <2>2. CASE Next
    BY <2>2, LoopRefines, EnvironmentRefines, OpRefines DEF Next
  <2> QED
    BY <2>1, <2>2
<1> QED
  BY <1>1, <1>2, Invariance, BaseInvariance, PTL DEF Spec, ImplementsVmLifecycle, Lifecycle!Spec

=============================================================================
