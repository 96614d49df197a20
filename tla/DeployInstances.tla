--------------------------- MODULE DeployInstances ---------------------------
(***************************************************************************)
(* The deploy loop of a hypervisor node and the instances it drives.       *)
(*                                                                         *)
(* sync.vmRunner takes a snapshot of the host and of the database          *)
(* (state.GetState, which also reports what it sees of the units:          *)
(* qemu.GetVms), decides from the snapshot what each instance needs        *)
(* (deploy.Instances.Deploy) and starts a goroutine for it: create, start, *)
(* stop, restart, cleanup, destroy or a hot plug.  A goroutine holds the   *)
(* instance's lock, and but for the hot plug a slot of the limiter, until  *)
(* three seconds after its work.  Meanwhile the loop goes on, users change *)
(* the records through the API, guests halt and the process may die; the   *)
(* database and the systemd units survive it.                              *)
(*                                                                         *)
(* The instance lock is a KeyedLock (MultiTimeoutLock implements it): an   *)
(* instance has one goroutine at most, so op[i] stands for it.             *)
(***************************************************************************)
EXTENDS Integers, FiniteSets

CONSTANTS
    Inst,       \* the instances of the node
    Limit,      \* slots of the limiter
    Calls,      \* the API calls users make: a subset of AllCalls
    Faults,     \* what goes wrong: a subset of AllFaults
    MaxCalls,   \* bound on the number of API calls
    MaxFaults   \* bound on the number of faults

AllCalls == {"start", "stop", "restart", "delete", "remove", "protect",
             "revoke", "force"}
AllFaults == {"exit", "crash", "error", "blind"}

ASSUME Bounds ==
    /\ IsFiniteSet(Inst)
    /\ Limit \in Nat \ {0} /\ MaxCalls \in Nat /\ MaxFaults \in Nat
    /\ Calls \subseteq AllCalls /\ Faults \subseteq AllFaults

VARIABLES
    db,       \* the record of each instance
    addr,     \* addr[i]: a VPC address is reserved for i
    disk,     \* disk[i]: the root disk record of i
    unit,     \* unit[i]: the systemd unit of i, "none" when it has no file
    ns,       \* ns[i]: the network namespace, "wired" with the VM's interfaces
    runner,   \* where the deploy loop stands, "down" when the process is dead
    snap,     \* the snapshot of the cycle
    todo,     \* the instances this phase of the cycle has not handled yet
    op,       \* op[i]: the goroutine that holds the lock of i
    limiter,  \* limiter.counter
    stale,    \* history: the instances the snapshot may be wrong about
    misled,   \* history: those a goroutine was started for all the same
    doomed,   \* history: the instances somebody asked to delete
    put,      \* put[i]: the state an instancePut in progress has read, or
              \* "delete", an instanceDelete that found no protection
    calls,    \* API calls made
    faults    \* faults suffered

records == <<db, addr, disk>>
host == <<unit, ns>>
loop == <<runner, snap, todo>>
work == <<op, limiter>>
hindsight == <<stale, misled>>
history == <<doomed, put, calls, faults>>
vars == <<records, host, loop, work, hindsight, history>>

\* instance.State as users and the loop write it.
States == {"start", "stop", "restart", "cleanup", "destroy"}
\* instance.VmState; "starting" is Provisioning or Starting, "stopped" is
\* Stopped or Failed: the code never tells them apart.
VmStates == {"none", "starting", "running", "stopped"}

Record == [exists : BOOLEAN, state : States, vm : VmStates, protect : BOOLEAN]
Gone == [exists |-> FALSE, state |-> "stop", vm |-> "none", protect |-> FALSE]

\* What the loop knows of an instance: its record, the state of its unit
\* (nil without a unit file), whether its namespace and its disk were there.
Blank == [rec |-> Gone, virt |-> "nil", ns |-> FALSE, disk |-> FALSE]

\* The stages of each goroutine, in the order of the code.
Flow == [
    create |-> [commit |-> "disk", disk |-> "service", service |-> "launch",
                launch |-> "wait", wait |-> "network", network |-> "hold",
                setstop |-> "hold"],
    start |-> [service |-> "launch", launch |-> "wait", wait |-> "network",
               network |-> "hold", setstop |-> "hold"],
    stop |-> [off |-> "clear", clear |-> "pause", pause |-> "hold",
              kill |-> "unwire", unwire |-> "hold"],
    restart |-> [off |-> "clear", clear |-> "pause", pause |-> "service",
                 service |-> "launch", launch |-> "wait", wait |-> "network",
                 network |-> "setstart", setstart |-> "hold",
                 setstop |-> "hold", kill |-> "unwire", unwire |-> "hold"],
    cleanup |-> [clear |-> "pause", pause |-> "setstop", setstop |-> "hold"],
    destroy |-> [get |-> "probe", probe |-> "off", off |-> "pause",
                 pause |-> "clear", clear |-> "disks", disks |-> "files",
                 files |-> "release", release |-> "delete", delete |-> "hold",
                 kill |-> "unwire", unwire |-> "hold"]]

Limited == DOMAIN Flow
Entry == [create |-> "commit", start |-> "service", stop |-> "off",
          restart |-> "off", cleanup |-> "clear", destroy |-> "get",
          plug |-> "hold"]
Stages == {"hold"} \cup UNION {DOMAIN Flow[k] : k \in Limited}

\* disk: the virt of a destroy, which alone looks at it, lists the root disk.
Idle == [kind |-> "none", at |-> "none", disk |-> FALSE]

Init ==
    /\ db \in [Inst -> [exists : {TRUE}, state : {"start", "stop"},
                        vm : {"none"}, protect : {FALSE}]]
    /\ addr = [i \in Inst |-> FALSE]
    /\ disk = [i \in Inst |-> "none"]
    /\ unit = [i \in Inst |-> "none"]
    /\ ns = [i \in Inst |-> "none"]
    /\ runner = "idle"
    /\ snap = [i \in Inst |-> Blank]
    /\ todo = {}
    /\ op = [i \in Inst |-> Idle]
    /\ limiter = 0
    /\ stale = {}
    /\ misled = {}
    /\ doomed = {}
    /\ put = [i \in Inst |-> "none"]
    /\ calls = 0
    /\ faults = 0

\* An update by _id matches nothing once the record is gone, and is no error.
Update(i, rec) == db' = IF db[i].exists THEN [db EXCEPT ![i] = rec] ELSE db

\* Users and faults are bounded.
Call(c) ==
    /\ c \in Calls /\ calls < MaxCalls
    /\ calls' = calls + 1

Fault(f) ==
    /\ f \in Faults /\ faults < MaxFaults
    /\ faults' = faults + 1

\* The process dies: locks, limiter, goroutines and snapshot are lost.
Die ==
    /\ runner' = "down"
    /\ snap' = [i \in Inst |-> Blank]
    /\ todo' = {}
    /\ op' = [i \in Inst |-> Idle]
    /\ limiter' = 0
    /\ stale' = {}
    /\ UNCHANGED <<records, host, misled>>
-----------------------------------------------------------------------------
(* The snapshot: state.init, qemu.GetVms.                                    *)

\* Namespaces and disks are read first.
Gather ==
    /\ runner = "idle"
    /\ runner' = "load"
    /\ snap' = [i \in Inst |-> [Blank EXCEPT !.ns = ns[i] # "none",
                                             !.disk = disk[i] = "available"]]
    /\ UNCHANGED <<records, host, todo, work, hindsight, history>>

\* Then the records, then the unit files.
Load ==
    /\ runner = "load"
    /\ runner' = "query"
    /\ snap' = [i \in Inst |->
                  [snap[i] EXCEPT !.rec = db[i],
                     !.virt = IF unit[i] = "none" THEN "nil" ELSE "listed"]]
    /\ todo' = {i \in Inst : unit[i] # "none"}
    /\ UNCHANGED <<records, host, work, hindsight, history>>

\* GetAllVirtMapped fails and init drops its error: no instance is known, and
\* the cycle goes on.
LoadBlind ==
    /\ Fault("blind")
    /\ runner = "load"
    /\ runner' = "query"
    /\ snap' = [i \in Inst |->
                  [snap[i] EXCEPT !.virt = IF unit[i] = "none" THEN "nil" ELSE "listed"]]
    /\ todo' = {i \in Inst : unit[i] # "none"}
    /\ UNCHANGED <<records, host, work, hindsight, doomed, put, calls>>

Seen(i) == IF unit[i] = "active" THEN "running" ELSE "stopped"

\* GetVmInfo asks systemd for the state of a listed unit.
Query(i) ==
    /\ runner = "query" /\ i \in todo /\ snap[i].virt = "listed"
    /\ snap' = [snap EXCEPT ![i].virt = Seen(i)]
    /\ UNCHANGED <<records, host, runner, todo, work, hindsight, history>>

\* The file went away since it was listed, and the virt store has dropped
\* the instance: the error path dereferences a nil virt.
QueryGone(i) ==
    /\ runner = "query" /\ i \in todo /\ snap[i].virt = "listed"
    /\ unit[i] = "none"
    /\ Die
    /\ UNCHANGED history

\* GetVmInfo fails on a listed unit: the unit data or the addresses of its
\* interface cannot be read.  It forces the VM off, without the lock of the
\* instance...
QueryFails(i) ==
    /\ Fault("error")
    /\ runner = "query" /\ i \in todo /\ snap[i].virt = "listed"
    /\ snap' = [snap EXCEPT ![i].virt = "lost"]
    /\ UNCHANGED <<records, host, runner, todo, work, hindsight, doomed, put, calls>>

\* ...systemd.Stop...
ForceOff(i) ==
    /\ runner = "query" /\ i \in todo /\ snap[i].virt = "lost"
    /\ unit' = [unit EXCEPT ![i] = IF @ = "active" THEN "inactive" ELSE @]
    /\ snap' = [snap EXCEPT ![i].virt = "cut"]
    /\ UNCHANGED <<records, ns, runner, todo, work, hindsight, history>>

\* ...NetworkConfClear; and GetVms leaves the VM out of the snapshot.
ForceClear(i) ==
    /\ runner = "query" /\ i \in todo /\ snap[i].virt = "cut"
    /\ ns' = [ns EXCEPT ![i] = "bare"]
    /\ snap' = [snap EXCEPT ![i].virt = "nil"]
    /\ todo' = todo \ {i}
    /\ UNCHANGED <<records, unit, runner, work, hindsight, history>>

\* One of the two fails too: the VM is left out though it may run.
ForceFails(i) ==
    /\ runner = "query" /\ i \in todo /\ snap[i].virt \in {"lost", "cut"}
    /\ snap' = [snap EXCEPT ![i].virt = "nil"]
    /\ todo' = todo \ {i}
    /\ stale' = IF snap[i].virt = "lost" THEN stale \cup {i} ELSE stale
    /\ UNCHANGED <<records, host, runner, work, misled, history>>

\* What was seen is written to the record: a unit that stopped while the
\* snapshot's record says running asks for a cleanup.
Report(i) ==
    LET s == snap[i] IN
    /\ runner = "query" /\ i \in todo /\ s.virt \in {"running", "stopped"}
    /\ IF s.rec.exists /\ s.rec.vm = "running" /\ s.virt = "stopped"
         THEN /\ Update(i, [db[i] EXCEPT !.state = "cleanup", !.vm = "stopped"])
              /\ snap' = [snap EXCEPT ![i].rec.state = "cleanup"]
         ELSE /\ Update(i, [db[i] EXCEPT !.vm = s.virt])
              /\ UNCHANGED snap
    /\ todo' = todo \ {i}
    /\ UNCHANGED <<addr, disk, host, runner, work, hindsight, history>>

Decide ==
    /\ runner = "query" /\ todo = {}
    /\ runner' = "deploy"
    /\ todo' = {i \in Inst : snap[i].rec.exists}
    /\ UNCHANGED <<records, host, snap, work, hindsight, history>>
-----------------------------------------------------------------------------
(* The decisions: Instances.Deploy, one instance after the other.            *)

Turn(i) == runner = "deploy" /\ i \in todo
Protected(i) == snap[i].rec.state = "destroy" /\ snap[i].rec.protect

\* Mutant of Wanted: nobody acts on a cleanup.
WantedNoCleanup(i) ==
    LET s == snap[i].rec.state
        v == snap[i].virt
    IN CASE s = "destroy" -> {"destroy"}
         [] s = "start" /\ v = "nil" -> {"create"}
         [] s = "start" /\ v = "stopped" -> {"start"}
         [] s = "start" /\ v = "running" /\ snap[i].ns -> {"plug"}
         [] s = "stop" /\ v = "running" -> {"stop"}
         [] s = "restart" /\ v = "running" -> {"restart"}
         [] OTHER -> {}

\* The goroutine an instance needs.  A running one is checked for its
\* namespace before its hot plugs and routes are looked at.
Wanted(i) ==
    LET s == snap[i].rec.state
        v == snap[i].virt
    IN CASE s = "destroy" -> {"destroy"}
         [] s = "start" /\ v = "nil" -> {"create"}
         [] s = "start" /\ v = "stopped" -> {"start"}
         [] s = "start" /\ v = "running" /\ snap[i].ns -> {"plug"}
         [] s = "cleanup" /\ v # "nil" -> {"cleanup"}
         [] s = "stop" /\ v = "running" -> {"stop"}
         [] s = "restart" /\ v = "running" -> {"restart"}
         [] OTHER -> {}

\* The code cannot tell whether what its snapshot said still holds.
Misled(i) == misled' = IF i \in stale THEN misled \cup {i} ELSE misled

Goroutine(i, k) ==
    op' = [op EXCEPT ![i] = [kind |-> k, at |-> Entry[k],
                             disk |-> k = "destroy" /\ snap[i].disk]]

\* Mutant of Dispatch: the slot is kept when the lock is taken.
DispatchLeaky(i) ==
    /\ Turn(i) /\ ~Protected(i)
    /\ \E k \in Wanted(i) \cap Limited :
         IF limiter < Limit
           THEN /\ limiter' = limiter + 1
                /\ IF op[i] = Idle
                     THEN Goroutine(i, k) /\ Misled(i)
                     ELSE UNCHANGED <<op, misled>>
           ELSE UNCHANGED <<op, limiter, misled>>
    /\ todo' = todo \ {i}
    /\ UNCHANGED <<records, host, runner, snap, stale, history>>

\* A limiter slot first, then the lock; without the lock the slot goes back.
Dispatch(i) ==
    /\ Turn(i) /\ ~Protected(i)
    /\ \E k \in Wanted(i) \cap Limited :
         IF limiter < Limit /\ op[i] = Idle
           THEN Goroutine(i, k) /\ limiter' = limiter + 1 /\ Misled(i)
           ELSE UNCHANGED <<op, limiter, misled>>
    /\ todo' = todo \ {i}
    /\ UNCHANGED <<records, host, runner, snap, stale, history>>

\* diff and routes take the lock without a slot, and only if there is
\* something to do.
DispatchPlug(i) ==
    /\ Turn(i) /\ ~Protected(i) /\ "plug" \in Wanted(i)
    /\ op[i] = Idle
    /\ Goroutine(i, "plug")
    /\ todo' = todo \ {i}
    /\ UNCHANGED <<records, host, runner, snap, limiter, hindsight, history>>

DispatchNothing(i) ==
    /\ Turn(i) /\ ~Protected(i) /\ Wanted(i) \cap Limited = {}
    /\ todo' = todo \ {i}
    /\ UNCHANGED <<records, host, runner, snap, work, hindsight, history>>

\* Delete protection: the destroy is taken back.
IgnoreDestroy(i) ==
    /\ Turn(i) /\ Protected(i) /\ snap[i].virt # "nil"
    /\ Update(i, [db[i] EXCEPT !.state =
                    IF snap[i].virt = "running" THEN "start" ELSE "stop"])
    /\ todo' = todo \ {i}
    /\ UNCHANGED <<addr, disk, host, runner, snap, work, hindsight, history>>

\* The same without a unit file: curVirt is nil and curVirt.State is read.
PanicDestroy(i) ==
    /\ Turn(i) /\ Protected(i) /\ snap[i].virt = "nil"
    /\ Die
    /\ UNCHANGED history

\* instance.IsActive, on the snapshot.
Active(rec) == rec.exists /\ (rec.state = "start" \/ rec.vm \in {"running", "starting"})

\* Namespaces.Deploy removes the namespaces of the snapshot that belong to
\* no active instance of the snapshot; the cycle is over.
Namespaces ==
    /\ runner = "deploy" /\ todo = {}
    /\ ns' = [i \in Inst |->
                IF snap[i].ns /\ ~Active(snap[i].rec) THEN "none" ELSE ns[i]]
    /\ runner' = "idle"
    /\ snap' = [i \in Inst |-> Blank]
    /\ stale' = {}
    /\ UNCHANGED <<records, unit, todo, work, misled, history>>

\* Any other call of a cycle fails, in state.init or in deploy.Deploy: the
\* cycle is given up, but for the units that GetVms has begun to look at.
Abort ==
    /\ Fault("error")
    /\ runner \in {"load", "deploy"} \/ (runner = "query" /\ todo = {})
    /\ runner' = "idle"
    /\ snap' = [i \in Inst |-> Blank]
    /\ todo' = {}
    /\ stale' = {}
    /\ UNCHANGED <<records, host, work, misled, doomed, put, calls>>
-----------------------------------------------------------------------------
(* The goroutines.                                                           *)

At(i, s) == op[i].at = s

\* A goroutine that ends its work during a cycle may have changed what the
\* snapshot of that cycle says.
Goto(i, s) ==
    /\ op' = [op EXCEPT ![i].at = s]
    /\ stale' = IF s = "hold" /\ runner # "idle" THEN stale \cup {i} ELSE stale

Advance(i) == Goto(i, Flow[op[i].kind][op[i].at])

\* qemu.Create: virt.Commit with Provisioning.
Commit(i) ==
    /\ At(i, "commit")
    /\ Update(i, [db[i] EXCEPT !.vm = "starting"])
    /\ Advance(i)
    /\ UNCHANGED <<addr, disk, host, loop, limiter, misled, history>>

\* The root disk is written and recorded, unless index 0 has a disk.
Disk(i) ==
    /\ At(i, "disk")
    /\ IF disk[i] = "none"
         THEN disk' = [disk EXCEPT ![i] = "available"]
         ELSE UNCHANGED disk
    /\ Advance(i)
    /\ UNCHANGED <<db, addr, host, loop, limiter, misled, history>>

\* cloudinit.Write reserves the address, writeService writes the unit.
Service(i) ==
    /\ At(i, "service")
    /\ addr' = [addr EXCEPT ![i] = TRUE]
    /\ unit' = [unit EXCEPT ![i] = IF @ = "none" THEN "inactive" ELSE @]
    /\ Advance(i)
    /\ UNCHANGED <<db, disk, ns, loop, limiter, misled, history>>

\* systemd.Start; Create commits Starting just before.
Launch(i) ==
    /\ At(i, "launch")
    /\ IF op[i].kind = "create"
         THEN Update(i, [db[i] EXCEPT !.vm = "starting"])
         ELSE UNCHANGED db
    /\ unit' = [unit EXCEPT ![i] = "active"]
    /\ Advance(i)
    /\ UNCHANGED <<addr, disk, ns, loop, limiter, misled, history>>

\* Wait sees the unit active, or stops it when it does not come up.
Wait(i) ==
    /\ At(i, "wait")
    /\ IF unit[i] = "active" THEN Advance(i) ELSE Goto(i, "setstop")
    /\ UNCHANGED <<records, host, loop, limiter, misled, history>>

\* NetworkConf: GetIp again, the namespace is made and wired.
Network(i) ==
    /\ At(i, "network")
    /\ addr' = [addr EXCEPT ![i] = TRUE]
    /\ ns' = [ns EXCEPT ![i] = "wired"]
    /\ Advance(i)
    /\ UNCHANGED <<db, disk, unit, loop, limiter, misled, history>>

\* PowerOff and Destroy, the guest obeyed: the stop is committed.
OffSeen(i) ==
    /\ At(i, "off")
    /\ unit[i] # "active"
    /\ Update(i, [db[i] EXCEPT !.vm = "stopped"])
    /\ Advance(i)
    /\ UNCHANGED <<addr, disk, host, loop, limiter, misled, history>>

\* Mutant of OffForced: the unit is left alone.
OffForcedNoStop(i) ==
    /\ At(i, "off")
    /\ Advance(i)
    /\ UNCHANGED <<records, host, loop, limiter, misled, history>>

\* It did not in time, or was not reached: systemd.Stop, nothing committed.
OffForced(i) ==
    /\ At(i, "off")
    /\ unit' = [unit EXCEPT ![i] = IF @ = "active" THEN "inactive" ELSE @]
    /\ Advance(i)
    /\ UNCHANGED <<records, ns, loop, limiter, misled, history>>

\* NetworkConfClear takes the interfaces down and (re)makes the namespace.
Clear(i) ==
    /\ At(i, "clear")
    /\ ns' = [ns EXCEPT ![i] = "bare"]
    /\ Advance(i)
    /\ UNCHANGED <<records, unit, loop, limiter, misled, history>>

\* PowerOff and Destroy could not tell the state of the unit: GetVmInfo forces
\* it off...
Kill(i) ==
    /\ At(i, "kill")
    /\ unit' = [unit EXCEPT ![i] = IF @ = "active" THEN "inactive" ELSE @]
    /\ Advance(i)
    /\ UNCHANGED <<records, ns, loop, limiter, misled, history>>

\* ...and clears its network; the goroutine returns.
Unwire(i) ==
    /\ At(i, "unwire")
    /\ ns' = [ns EXCEPT ![i] = "bare"]
    /\ Advance(i)
    /\ UNCHANGED <<records, unit, loop, limiter, misled, history>>

\* The sleep of PowerOff, Cleanup and Destroy.
Pause(i) ==
    /\ At(i, "pause")
    /\ Advance(i)
    /\ UNCHANGED <<records, host, loop, limiter, misled, history>>

\* SetState(Stop) after a failed boot, and at the end of a cleanup.
SetStop(i) ==
    /\ At(i, "setstop")
    /\ Update(i, [db[i] EXCEPT !.state = "stop"])
    /\ Advance(i)
    /\ UNCHANGED <<addr, disk, host, loop, limiter, misled, history>>

\* restart commits Start from the record it was given.
SetStart(i) ==
    /\ At(i, "setstart")
    /\ Update(i, [db[i] EXCEPT !.state = "start"])
    /\ Advance(i)
    /\ UNCHANGED <<addr, disk, host, loop, limiter, misled, history>>

\* destroy reads the record first: it may be gone since the snapshot.
Get(i) ==
    /\ At(i, "get")
    /\ IF db[i].exists THEN Advance(i) ELSE Goto(i, "hold")
    /\ UNCHANGED <<records, host, loop, limiter, misled, history>>

\* Mutant of Probe: a running guest is not shut down.
ProbeSkips(i) ==
    /\ At(i, "probe")
    /\ Goto(i, "pause")
    /\ UNCHANGED <<records, host, loop, limiter, misled, history>>

\* qemu.Destroy shuts a running guest down; any other unit is only stopped.
Probe(i) ==
    /\ At(i, "probe")
    /\ Goto(i, IF unit[i] = "active" THEN "off" ELSE "pause")
    /\ UNCHANGED <<records, host, loop, limiter, misled, history>>

\* The root disk that the snapshot listed is marked for destruction.
Disks(i) ==
    /\ At(i, "disks")
    /\ IF op[i].disk
         THEN disk' = [disk EXCEPT ![i] = "destroy"]
         ELSE UNCHANGED disk
    /\ Advance(i)
    /\ UNCHANGED <<db, addr, host, loop, limiter, misled, history>>

\* The unit file and the VM's other files are removed.
Files(i) ==
    /\ At(i, "files")
    /\ unit' = [unit EXCEPT ![i] = "none"]
    /\ Advance(i)
    /\ UNCHANGED <<records, ns, loop, limiter, misled, history>>

\* Mutant of FreeAddr: the addresses are forgotten.
FreeAddrNot(i) ==
    /\ At(i, "release")
    /\ IF db[i].exists /\ ~db[i].protect THEN Advance(i) ELSE Goto(i, "hold")
    /\ UNCHANGED <<records, host, loop, limiter, misled, history>>

\* instance.Remove: delete protection ends it, the addresses are released...
FreeAddr(i) ==
    /\ At(i, "release")
    /\ IF db[i].exists /\ ~db[i].protect
         THEN addr' = [addr EXCEPT ![i] = FALSE] /\ Advance(i)
         ELSE UNCHANGED addr /\ Goto(i, "hold")
    /\ UNCHANGED <<db, disk, host, loop, limiter, misled, history>>

\* ...and the record is deleted.
DeleteRecord(i) ==
    /\ At(i, "delete")
    /\ db' = [db EXCEPT ![i] = Gone]
    /\ Advance(i)
    /\ UNCHANGED <<addr, disk, host, loop, limiter, misled, history>>

\* Mutant of Release: the hot plug, which took no slot, releases one.
ReleaseAlways(i) ==
    /\ At(i, "hold")
    /\ op' = [op EXCEPT ![i] = Idle]
    /\ limiter' = limiter - 1
    /\ UNCHANGED <<records, host, loop, hindsight, history>>

\* Three seconds after the work: Unlock, then Release.  Nothing makes a cycle
\* end within the three seconds.
Release(i) ==
    /\ At(i, "hold")
    /\ op' = [op EXCEPT ![i] = Idle]
    /\ limiter' = IF op[i].kind \in Limited THEN limiter - 1 ELSE limiter
    /\ UNCHANGED <<records, host, loop, hindsight, history>>

OpStep(i) ==
    \/ Commit(i) \/ Disk(i) \/ Service(i) \/ Launch(i) \/ Wait(i) \/ Network(i)
    \/ OffSeen(i) \/ OffForced(i) \/ Kill(i) \/ Unwire(i) \/ Clear(i) \/ Pause(i)
    \/ SetStop(i) \/ SetStart(i) \/ Get(i) \/ Probe(i) \/ Disks(i) \/ Files(i) \/ FreeAddr(i)
    \/ DeleteRecord(i) \/ Release(i)
-----------------------------------------------------------------------------
(* Users, guests and faults.                                                 *)

\* instancePut, instancesPut: any state for any record.  Users who do not
\* "revoke" leave an instance alone once they asked to delete it.
SetState(i, s) ==
    /\ s \in {"start", "stop", "restart"}
    /\ Call(s)
    /\ db[i].exists
    /\ i \in doomed => "revoke" \in Calls
    /\ db' = [db EXCEPT ![i].state = s]
    /\ UNCHANGED <<addr, disk, host, loop, work, hindsight, doomed, put, faults>>

\* instancesDelete: one update, of what is not under delete protection.
Delete(i) ==
    /\ Call("delete")
    /\ db[i].exists /\ ~db[i].protect
    /\ db' = [db EXCEPT ![i].state = "destroy"]
    /\ doomed' = doomed \cup {i}
    /\ UNCHANGED <<addr, disk, host, loop, work, hindsight, put, faults>>

\* instanceDelete reads the protection...
DeleteCheck(i) ==
    /\ Call("remove")
    /\ db[i].exists /\ ~db[i].protect /\ put[i] = "none"
    /\ put' = [put EXCEPT ![i] = "delete"]
    /\ UNCHANGED <<records, host, loop, work, hindsight, doomed, faults>>

\* ...and writes the state, whatever the protection is by then.
DeleteCommit(i) ==
    /\ put[i] = "delete"
    /\ Update(i, [db[i] EXCEPT !.state = "destroy"])
    /\ put' = [put EXCEPT ![i] = "none"]
    /\ doomed' = doomed \cup {i}
    /\ UNCHANGED <<addr, disk, host, loop, work, hindsight, calls, faults>>

\* instancePut that leaves the state alone reads the record...
Put(i) ==
    /\ Call("protect")
    /\ db[i].exists /\ put[i] = "none"
    /\ put' = [put EXCEPT ![i] = db[i].state]
    /\ UNCHANGED <<records, host, loop, work, hindsight, doomed, faults>>

\* ...and commits its fields, the state it read among them.
PutCommit(i) ==
    /\ put[i] \in States
    /\ \E p \in BOOLEAN : Update(i, [db[i] EXCEPT !.state = put[i], !.protect = p])
    /\ put' = [put EXCEPT ![i] = "none"]
    /\ UNCHANGED <<addr, disk, host, loop, work, hindsight, doomed, calls, faults>>

\* instancesDelete with force: instance.Remove at once.
ForceDelete(i) ==
    /\ Call("force")
    /\ db[i].exists /\ ~db[i].protect
    /\ db' = [db EXCEPT ![i] = Gone]
    /\ addr' = [addr EXCEPT ![i] = FALSE]
    /\ doomed' = doomed \cup {i}
    /\ UNCHANGED <<disk, host, loop, work, hindsight, put, faults>>

\* A guest that was asked to shut down halts.
Halt(i) ==
    /\ At(i, "off") \/ At(i, "kill") \/ snap[i].virt = "lost"
    /\ unit[i] = "active"
    /\ unit' = [unit EXCEPT ![i] = "inactive"]
    /\ UNCHANGED <<records, ns, loop, work, hindsight, history>>

\* A guest halts by itself, or its qemu dies.
Exit(i) ==
    /\ Fault("exit")
    /\ unit[i] = "active"
    /\ unit' = [unit EXCEPT ![i] = "inactive"]
    /\ UNCHANGED <<records, ns, loop, work, hindsight, doomed, put, calls>>

\* Where a failing call leads: a failed boot sets the state to Stop, but not
\* if it is the update of the restart flags before it; a unit whose state
\* cannot be told is forced off; cleanup goes on after its NetworkConfClear;
\* anything else leaves things as they are.
OnError(i) ==
    CASE op[i].at = "service" /\ op[i].kind # "create" -> {"setstop", "hold"}
      [] op[i].at \in {"commit", "disk", "service", "launch", "wait", "network"}
           -> {"setstop"}
      [] op[i].at \in {"probe", "off"} -> {"kill", "hold"}
      [] op[i].at = "clear" /\ op[i].kind = "cleanup" -> {"pause"}
      [] OTHER -> {"hold"}

\* Mutant of Error: the goroutine returns before its Release is deferred.
ErrorDropsSlot(i) ==
    /\ Fault("error")
    /\ op[i].kind \in Limited
    /\ op[i].at \notin {"pause", "hold", "setstop"}
    /\ op' = [op EXCEPT ![i] = Idle]
    /\ UNCHANGED <<records, host, loop, limiter, hindsight, doomed, put, calls>>

\* A call of a goroutine fails: the database, a command, a file.
Error(i) ==
    /\ Fault("error")
    /\ op[i].kind \in Limited
    /\ op[i].at \notin {"pause", "hold", "setstop"}
    /\ \E s \in OnError(i) : Goto(i, s)
    /\ UNCHANGED <<records, host, loop, limiter, misled, doomed, put, calls>>

\* SetState(Stop) fails too: a failed boot is powered off instead.
SetStopError(i) ==
    /\ Fault("error")
    /\ At(i, "setstop")
    /\ IF op[i].kind = "cleanup"
         THEN Goto(i, "hold")
         ELSE /\ op' = [op EXCEPT ![i].kind = "stop", ![i].at = "off"]
              /\ UNCHANGED stale
    /\ UNCHANGED <<records, host, loop, limiter, misled, doomed, put, calls>>

Crash ==
    /\ Fault("crash")
    /\ runner # "down"
    /\ Die
    /\ UNCHANGED <<doomed, put, calls>>

\* The service manager starts the process again.
Boot ==
    /\ runner = "down"
    /\ runner' = "idle"
    /\ UNCHANGED <<records, host, snap, todo, work, hindsight, history>>
-----------------------------------------------------------------------------
LoopStep ==
    \/ Gather \/ Load \/ Decide \/ Namespaces \/ Boot
    \/ \E i \in Inst : \/ Query(i) \/ QueryGone(i) \/ Report(i)
                       \/ ForceOff(i) \/ ForceClear(i)
                       \/ Dispatch(i) \/ DispatchPlug(i) \/ DispatchNothing(i)
                       \/ IgnoreDestroy(i) \/ PanicDestroy(i)

Environment ==
    \/ Crash \/ LoadBlind \/ Abort
    \/ \E i \in Inst : \/ \E s \in States : SetState(i, s)
                       \/ Delete(i) \/ DeleteCheck(i) \/ DeleteCommit(i)
                       \/ Put(i) \/ PutCommit(i) \/ ForceDelete(i)
                       \/ QueryFails(i) \/ ForceFails(i)
                       \/ Halt(i) \/ Exit(i) \/ Error(i) \/ SetStopError(i)

Next == LoopStep \/ Environment \/ \E i \in Inst : OpStep(i)

Spec == Init /\ [][Next]_vars

\* The loop and every goroutine keep running; users, guests and faults are
\* under no obligation.
Fairness == WF_vars(LoopStep) /\ \A i \in Inst : WF_vars(OpStep(i))

FairSpec == Spec /\ Fairness
-----------------------------------------------------------------------------
RecordsOK ==
    /\ db \in [Inst -> Record]
    /\ addr \in [Inst -> BOOLEAN]
    /\ disk \in [Inst -> {"none", "available", "destroy"}]

HostOK ==
    /\ unit \in [Inst -> {"none", "inactive", "active"}]
    /\ ns \in [Inst -> {"none", "bare", "wired"}]

Sight == [rec : Record, virt : {"nil", "listed", "lost", "cut", "stopped", "running"},
          ns : BOOLEAN, disk : BOOLEAN]

LoopOK ==
    /\ runner \in {"down", "idle", "load", "query", "deploy"}
    /\ snap \in [Inst -> Sight]
    /\ todo \subseteq Inst

Goroutines == [kind : Limited \cup {"plug", "none"}, at : Stages \cup {"none"},
               disk : BOOLEAN]

WorkOK ==
    /\ op \in [Inst -> Goroutines]
    /\ limiter \in Nat
    /\ stale \subseteq Inst /\ misled \subseteq Inst

HistoryOK ==
    /\ doomed \subseteq Inst
    /\ put \in [Inst -> States \cup {"none", "delete"}]
    /\ calls \in 0..MaxCalls
    /\ faults \in 0..MaxFaults

\* The type invariant: every record, unit, snapshot and goroutine is one of
\* those the code can make, and the limiter's counter, whose Release panics
\* below zero, is a natural number.
TypeOK == RecordsOK /\ HostOK /\ LoopOK /\ WorkOK /\ HistoryOK

\* The goroutines that were given a slot.
Slots == {i \in Inst : op[i].kind \in Limited}

\* Every way out of every goroutine gives back exactly the slot it took: the
\* counter never leaks a slot (the node would stop deploying), never goes
\* below zero (Release panics) and never exceeds the limit.
LimiterExact == limiter = Cardinality(Slots) /\ limiter \in 0..Limit

\* The instances for which no goroutine was ever started on a snapshot that an
\* earlier goroutine had outdated, or that had left out a unit which could be
\* neither looked at nor stopped.  The three seconds before Unlock make both
\* rare; no line of the code rules them out, and nothing is promised then.
Informed == Inst \ misled

\* A record is removed last: afterwards no unit file, no address and no root
\* disk in use is left behind, and none ever comes back from a goroutine that
\* was decided on while the record was still there.
RemovedClean ==
    \A i \in Informed : ~db[i].exists =>
        unit[i] = "none" /\ ~addr[i] /\ disk[i] # "available"

\* A running VM keeps its reserved address and its root disk: neither is
\* handed on or destroyed under it.
RunningIntact ==
    \A i \in Informed : unit[i] = "active" => addr[i] /\ disk[i] = "available"

\* A VM that runs is not booted a second time, whatever the loop's snapshot,
\* the guest, the users and a forced power-off of the loop itself do between
\* the decision and the boot: its files are not rewritten and its network is
\* not rebuilt under it.
NoDoubleBoot ==
    \A i \in Informed : op[i].at \in {"service", "launch"} => unit[i] # "active"

\* The order of all that is done to an instance, whatever goes wrong on the
\* way: VmLifecycle, whose header says what it promises.
Lifecycle == INSTANCE VmLifecycle WITH
    known <- {i \in Inst : db[i].exists},
    vm <- [i \in Inst |-> CASE unit[i] = "none" -> "absent"
                            [] unit[i] = "inactive" -> "off"
                            [] OTHER -> "on"],
    addr <- {i \in Inst : addr[i]},
    root <- disk

ImplementsVmLifecycle == Lifecycle!Spec

\* Where an instance comes to rest.
Settled(i) ==
    \/ ~db[i].exists
    \/ db[i].state = "start" /\ unit[i] = "active"
    \/ db[i].state = "stop" /\ unit[i] # "active"

\* The states the loop acts on no more: a restart of a VM that does not run,
\* and a cleanup (that GetVms wrote over a destroy) without a unit file.
DeadEnd(i) ==
    \/ db[i].state = "restart" /\ unit[i] # "active"
    \/ db[i].state = "cleanup" /\ unit[i] = "none"

\* Once users and faults leave the node alone, every instance comes to rest:
\* what is to run runs, what is to be stopped is stopped, what is to be
\* destroyed is removed or, when its destroy was overwritten, at rest.
Converges == \A i \in Inst : <>[](Settled(i) \/ DeadEnd(i))

\* A protected instance that is to be destroyed is left alone; the loop that
\* finds it goes on.
ProtectedIgnored ==
    [][\A i \in Inst : Turn(i) /\ Protected(i) /\ i \notin todo' => runner' # "down"]_vars

\* An instance that runs as its user wants keeps its network namespace, or
\* gets it back: check() calls anything else an error.
NamespaceKept ==
    \A i \in Inst :
        []<>(db[i].state = "start" /\ unit[i] = "active" => ns[i] # "none")
=============================================================================
