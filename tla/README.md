# pritunl-cloud in TLA+

Specifications of the concurrent core of pritunl-cloud: the deploy loop of a
hypervisor node, which turns the instance records of the database into running
virtual machines, the lock table that all of a node's background work relies
on, the addresses of a VPC, which all nodes hand out together; and the web
console in which users see and edit all of it. TLC checks the specifications on
small instances, TLAPS proves the theorems for every value of the constants.

The repository has neither a design document nor tests (only `CHANGES`); what a
property demands comes from the code itself: its locks, limits, waits, panics
and error messages.

## The system

Users talk to the admin and user web servers (`ahandlers`, `uhandlers`), which
read and write documents of a MongoDB database. Each hypervisor node runs the
same process with background loops (`sync`, `task`); nodes share nothing but
the database and its unique indexes. The loop that matters most is
`sync.vmRunner`: every 2.5 seconds it

1. takes a snapshot (`state.GetState`): namespaces, disks and instances of the
   node, and for every systemd unit file of a VM the unit's state; what it sees
   of a unit is written back to the instance's record (`qemu.GetVms`);
2. hands the snapshot to the deployers in turn (`deploy.Deploy`: network,
   ipset, iptables, disks, instances, namespaces, ...), which compare what is
   wanted with what is and start goroutines for the slow work.

The goroutines run for seconds to minutes while the loop goes on, users change
the records and guests halt; they are kept apart by keyed locks
(`utils.MultiTimeoutLock`) and limited in number (`utils.Limiter`). Everything
in memory is lost when the process dies; records, unit files, running units and
namespaces survive.

| Component | State it keeps | Operations | What is hard | What makes it correct |
|---|---|---|---|---|
| keyed lock tables (`utils/multitimeoutlock.go`) | map of mutexes and of counts | Lock, LockOpen, Unlock | entries dropped and made anew between lookup and wait | one holder per id, nobody waits on a forgotten mutex |
| deploy of instances (`deploy/instances.go`, `qemu/`) | records, units, namespaces, snapshot, goroutines, limiter | create, start, stop, restart, cleanup, destroy, hot plug, snapshot, API calls | stale snapshots, three writers of one state field, crash between any two steps | nothing is taken from a running VM, nothing is left of a removed one, slots are exact, instances come to rest |
| deploy of disks (`deploy/disks.go`, `data/`, `disk/`, `backup/`) | disk state, image files, lock, backup limiter | provision, snapshot, backup, restore, expand, destroy | work redone from an old snapshot, stopping the VM first | a disk in use is neither resized nor destroyed |
| VPC addresses (`vpc/`) | address documents, unique index | GetIp, RemoveInstanceIp(s), RemoveSubnet, PostCommit | several nodes at once, read then insert | one address per instance, one instance per address |
| block addresses (`block/`, `task/blocks.go`) | address documents, unique index | GetIp, GetIpHost, Remove..., clean-up task | lost races, full block | an address has one user and is released with it |
| task scheduler (`task/`) | job documents, a clock per node | Reserve, Finished, Failed | every node runs it; death after Reserve | a slot runs once |
| image cache (`data/image.go`, `task/cache.go`, `task/backing.go`) | image files, backing files | fetch, copy, clean | clean-up against a disk not yet recorded, partial copies | no disk lacks its backing file |
| event bus (`event/`) | capped collection, cursors | publish, subscribe, listener registry | a cursor that dies | no event lost or repeated, in order |
| init order (`requires/`) | list of modules | Before, After, Init | moves undo one another | constraints hold when Init goes on |
| networks, firewall, routes (`deploy/network.go`, `iptables/`, `ipset/`, `vxlan/`) | rules last written, kernel state | diff, add, remove | rules of instances in transition | rules follow the running instances |
| load balancer, proxy (`balancer/`, `proxy/`) | backend health | check, choose | backends that flap | only healthy backends are chosen |
| node record (`node/`, `sync/nodes.go`) | the node's document | keepalive | partial writes | - |
| stores (`store/`) | virt, disk, address caches | get, set, remove | an entry stored after its removal | an entry expires after seconds |
| authentication (`auth/`, `session/`, `secondary/`, `policy/`) | tokens, sessions | login, callback, second factor | one-time tokens | a token serves once |
| console lists and records (`www/app/stores`, `actions`, `*Page`, `*Filter`) | last answer, page, filter, syncId, loaders, websocket | sync, load, traverse, filter, events, polling, refresh, change of organization | answers in any order, lost events, lists that shrink | the screen shows what was asked for last, and follows the server |
| console selection (`www/app/components/Instances.tsx` and nine more, `ConfirmButton.tsx`) | selected, opened, disabled, dialog, timers | select, open, bulk functions, confirm | rows that vanish under the pointer, timers that outlive a press | no action on rows that are gone, one at a time, none unconfirmed |
| console forms (`*Detailed.tsx`, `*New.tsx`, cards) | copy, changed, disabled, message, timeouts | edit, save, delete, cancel, close | saves in flight while others write and lists refresh | what is said to be saved is, what is cancelled is not |
| API handlers, router, settings, logging, ACME, Oracle, devices, QEMU channels, installer, agent | documents or external services | | | |

`PROJECT.json` lists every component with its status and the reason where it is
not modelled, and every hazard at its line.

## Modules

    KeyedLock            what a keyed lock promises           (abstract)
      ^ refines (proved and checked)
    MultiTimeoutLock     the lock table
    MultiTimeoutLockProofs

    VmLifecycle          the order of all that is done to an instance (abstract)
      ^ refines (proved and checked)
    DeployInstances      the deploy loop, its goroutines, users, faults
    DeployInstancesProofs  types and the limiter
    DeploySafetyProofs     what may be relied on, and the refinement

    VpcIps               the addresses of a VPC, shared by all nodes
    VpcIpsProofs

    ConsoleStores        what a store of the console does with an action
    ConsoleResources     each list and record: store, request, component
    ConsoleSync          requests, answers, events, pages      (the behaviour)
    ConsoleSyncProofs

    ConsoleTables        each list: its rows, buttons and bulk functions
    ConsoleSelection     selecting and acting on rows          (the behaviour)
    ConsoleSelectionProofs

    ConsoleForms         each form: its inputs, functions and writes
    ConsoleForm          editing and saving a record           (the behaviour)
    ConsoleFormProofs

    MCMultiTimeoutLock, MCDeployInstances, MCVpcIps,
    MCConsoleSync, MCConsoleSelection, MCConsoleForm  model checking

### MultiTimeoutLock

`counts`, `locks` and `state` are the three maps of the Go structure; `owner`
is who locked each `sync.Mutex`; `pc`, `key` and `lock` are the position and
the local variables of each calling goroutine. What a call does while it holds
`m.lock` is one action (`Lock`, `LockOpen`, `Unlock`), waiting for the entry's
own mutex another (`Acquire`), the bookkeeping of lock ids the rest
(`Register`, `Unregister`). `LockTimeout` and `LockOpenTimeout` repeat `Lock`
and `LockOpen` with another limit for a watcher that only logs, so the same
actions stand for them under their names; `utils.MultiLock` is the same code without lock ids.
A mutex that the last user leaves locked and nobody refers to is garbage, and
its memory is used again (`Garbage`): this is how an entry that is dropped too
early would show.

### DeployInstances

`db`, `addr` and `disk` are what the database holds of an instance: its record
(`state` wanted, `vm` as last seen, delete protection), its VPC address, its
root disk. `unit` and `ns` are the host: the systemd unit and the network
namespace. `runner`, `snap` and `todo` are the loop; `op[i]` is the goroutine
that holds the instance's lock, `limiter` the limiter's counter.

* The snapshot is `Gather` (namespaces, disks), `Load` (records, then unit
  files), `Query` (one unit), `Report` (write what was seen); `LoadBlind` is the
  failing read whose error the code drops, `Abort` any other failure,
  `QueryGone` the nil dereference of `GetVmInfo`. Where `GetVmInfo` cannot make
  sense of a unit (`QueryFails`) it forces the VM off without the instance's lock
  (`ForceOff`, `ForceClear`, each of which may fail: `ForceFails`), and the VM
  is left out of the snapshot.
* The decisions of `Instances.Deploy` are `Wanted` with `Dispatch`,
  `DispatchPlug`, `DispatchNothing`, `IgnoreDestroy` and `PanicDestroy`, one
  instance at a time, then `Namespaces`, and the cycle is over.
* A goroutine is a path through the stages of `Flow`. Each stage is one action,
  one for each point at which the database or the host changes, so that
  users, guests, the loop, a failing call (`Error`, `SetStopError`) and the end
  of the process (`Crash`) come between any two. `OnError` says where a failing
  call leads: a failed boot writes Stop, unless it was the update of the restart
  flags that failed; a shutdown that cannot tell the state of the unit
  forces the VM off (`Kill`, `Unwire`) and gives up.
* `SetState`, `Delete` (instancesDelete, one update), `DeleteCheck` and
  `DeleteCommit` (instanceDelete, which reads the delete protection and then
  writes), `Put` and `PutCommit` (an instancePut that read the state before it
  writes it) and `ForceDelete` are the API; `Halt` and `Exit` the guests.

The lock of an instance is not a table here but `op[i]` itself: at most one
goroutine per instance. `MultiTimeoutLockProofs!Refinement` is what allows it.

Left out: what a hot plug attaches (only its lock matters here), disks other
than the root disk, interfaces and iptables, the six-second cache of virt
states, logging, and events, which only make consoles refresh. At shutdown
(`constants.Interrupt`) goroutines end early; `Crash` covers where they can.

**Stale snapshots.** A goroutine sleeps three seconds after its work, before it
gives up its lock. That makes it likely that a cycle of the loop which was under
way when the work ended is over by then, and nothing more: no line compares the
two, and a snapshot can take longer than that (dial and read deadlines of QMP,
retries, a forced power-off in `GetVms`). `Release` is therefore not guarded. Two
history variables say what may have gone wrong: `stale` are the instances of which
a goroutine ended its work since the cycle began, or which were left out of the
snapshot although their unit could not be stopped; `misled` are those for which a
goroutine was started all the same. For a misled instance the code promises little:
a VM can be booted over a running one, or be made again for a record that is
gone. `RemovedClean`, `RunningIntact` and `NoDoubleBoot` are about the instances
that are not misled (`Informed`). `LimiterExact`, `Converges` and
`ImplementsVmLifecycle` are about all.

### VmLifecycle

What the node promises about an instance whatever its snapshots missed and
whatever failed: a VM is defined with its address, once it has had a root disk, and
switched on only while it is off; a running VM is not undefined, its address is
not given back under it, and its root disk is made only once; the address
goes after the VM, and the record goes last. It does not promise that a running VM
keeps its disk, or that its files are not written again under it: those are
`RunningIntact` and `NoDoubleBoot`. `ImplementsVmLifecycle` checks that every step
of the deploy loop, of its goroutines, of the API and of the faults is one of its
steps or none.

### VpcIps

`owner` is the collection of address documents under its unique index: for each
subnet and index the instance it belongs to, `Free` (a document without
instance) or `Absent`. `net` and `listed` are the networks ever given to subnet
ids and the subnets of the VPC's record; `subnet` and `alive` are the instances'
records; `conf[i]` is the address the VM of `i` runs with.

* `Begin`, `ReadVpc`, `FindOwn`, `Claim`, `Insert`/`Retry`/`Full` are a boot that
  asks for its address: one action per call of the database, `pc[i]` in between.
  `Fail` is any of them failing. Index 2n of a network is an address and its
  gateway, so an index is what is handed out.
* `Remove` and `ForceRemove` give all addresses back with the record;
  `Move`/`MoveCommit` are an instancePut with another subnet, which gives the
  address back first and writes the record later.
* `PutVpc`, `RemoveSubnet`, `PutCommit`, `PutFail` are vpcPut. `Valid` is the
  overlap test as written: entries of equal id are taken for the same one, and
  all new ones have none (`None`).

Instances are on any nodes: nothing but the database is shared between two of
them. An instance has one boot at a time, which is what DeployInstances shows.
`Calls` is the environment of a run. A moved instance's address is given away
while its VM still runs with it, a dropped subnet's documents vanish with their
VMs running (also when the same network is submitted again without its id), and a
boot under way during a forced removal takes an address nobody gives back.
`Exclusive` and `NoLeak` say what holds otherwise; the safety run has it all.

Left out: creating and removing whole VPCs, IPv6 addresses (a hash of the IPv4
one), routes, two vpcPut at once, and that a boot asks twice for the address (for
the guest's configuration, then for the namespace). The highest address in use
that GetIp reads before it inserts has no effect on what it does.

### The console

The console is one browser program in TypeScript and React. It has no logic of its own to
speak of in any one place; what it does is the same few handlers over and over:
a store, a file of actions and a list for each of some thirty resources, and a form for
each of some twenty records, copied and adapted. The models follow that: a module of data
gives one definition per file, which names what distinguishes the file from its
siblings (rows of a page, whether there is a filter, whether answers are tested
against `syncId`, which inputs are disabled while a save is out, which timeouts
follow it), and one module has the behaviour, for
whichever of them a run picks.

**ConsoleStores, ConsoleResources, ConsoleSync.** `store` is the resource's
store, `reqs` the requests whose callback has not run, `syncId` the last one
made, `spinning` the loaders, `links` what the page links were drawn from (a
store tells its listeners in a timeout, `Draw`), `socket` and `events` the
websocket. A request is read by the server (`Answer`) and then delivered
(`Deliver`), in any order. `Take` is the callback after the test for a 401:
`Counts` is the test of `syncId`. `Mount`, `Unmount`, `Pick`, `Turn`, `Filter`,
`SwitchOrg`, `Refresh` are what users do, `Tick` the polling of Instances,
Balancers and Nodes, `Event` a change event, `Rival` another function of the
file that uses the same `syncId`. The server is a version and a number of rows
(`Change`), its paging is `ServedPage` (`disk.GetAllPaged` and its copies). An
answer carries what it was asked (owner, filter, page) and the version it
read, so that properties can speak of it; the rows themselves are left out.
A behaviour is about one resource: what two of them show together on a page is
not modelled.

**ConsoleTables, ConsoleSelection.** The variables are the state of a list and of
its ConfirmButtons. Rows come as whole new lists (`OnChange`), which prunes the
selection. A button that is held down starts an interval and then a timeout
(`Press`, `Tick`, `Fire`), which only look at `confirming`; a safe one opens a
dialog (`OpenDialog`, `Type`, `CloseDialog`, `CloseDialogConfirm`). There is one
pointer, and a dialog lies over the list (`Free`). The bulk functions are `Send`,
`Resolved` and `Rejected`; a 401 resolves. On a phone every button opens a dialog
instead of being held (`Mobile`). A dialog that is closed is gone at once: the
transition in which the dialog of the Blueprint library, which is not part of
the repository, fades out is not modelled. `closeDialogConfirm` has no guard of
its own, so whether a second click can reach the fading button is up to that library.

**ConsoleForms, ConsoleForm.** A form is the inputs it has, open or disabled
during a request; where its copy starts from; what follows a save; whether it is in a
row of a list that has pages (`paged`); whether a key saves it too (`enter`).
`copy`, `changed`, `disabled`, `message` are the state of the component, `props`
the record of the list, `srv` the record on the server, `writes` the requests,
`timers` the timeouts. The value of a field is the moment it was entered, which
makes "later" comparable, and is all that the properties need of it. A record is
always written as a whole (`Serve`).

Users edit whenever an input lets them, during a save and before its result is
listed included, and the server takes requests in any order. `Save` is the button,
which tests `disabled` and what there is to save, or the Enter key of a device,
which tests neither; pressed where nothing was edited it is `SaveNothing`. A form
ends with `Leave` (closed, or its page left) or `Drop` (a new list comes without
its row, because the record was deleted, or because page or filter no longer
have it); `Unmount` is what both do to the edits and to the callbacks that are
out. A row that comes back can be opened again (`Return`). `Other` is anybody else
who saves or deletes, `Refresh` the list read again, `OnChange` the forms that take
their copy from a store (settings, users): what is shown is replaced, so edits
begin anew from it (`seen`). Nested lists (roles, backends, rules) are one field
each, and a form's inputs are named field by field, each definition for
the lines that render them.

## Runs

| Run | Checks | Bounds, and why they are enough |
|---|---|---|
| `lock_safety` | TypeOK, MutualExclusion, NoOrphan, CountExact, OwnerInside, ImplementsKeyedLock, Served | 3 goroutines (holder, waiter, newcomer), 2 ids, 3 mutexes: a goroutine keeps one mutex alive, so one is always free |
| `deploy_safety` | TypeOK, LimiterExact, RemovedClean, RunningIntact, NoDoubleBoot, ImplementsVmLifecycle, Converges | 1 instance, 3 of the calls start, stop, restart and delete, 1 fault of any kind, snapshots of any age, then quiet. All of it concerns one instance, and instances meet only in the limiter, whose slot each failing path has to give back |
| `deploy_limiter` | LimiterExact | 2 instances and 1 slot: one waits for the other's slot; the other calls (remove, protect, force), 2 of them; failing calls and the end of the process are in `deploy_safety` |
| `deploy_protected` | ProtectedIgnored, violated | a delete and a protection |
| `deploy_namespace` | NamespaceKept, violated | one restart |
| `vpc_safety` | TypeOK, OneAddress, EnoughForAll, Exclusive, NoLeak, NeverStolen | 2 instances, 2 subnet ids, a network of 2 addresses and one of 1, one call of each kind: in the small one the instances compete, in the other there are as many addresses as instances, so that any document lost or skipped is missed |
| `vpc_overlap` | NoOverlap, violated | one vpcPut, three networks of which two overlap |
| `sync` | TypeOK, FreshList, NotStranded, SpinsWhileAsking, RefreshEnds | a resource of each of 6 kinds, 2 owners, 2 requests in flight, 2 versions: an answer can be overtaken by one about something else; 1 row or 40, halved by a filter to none or 20: an empty list, one full page and two, where the two ways to count pages differ, and a list that shrinks under the page shown; every way a request can end |
| `sync_converges` | NeverOlder, Converges | 22 lists, each with a websocket that closes and opens again; 3 changes, 2 requests: an answer, the one that overtakes it, and a change after both |
| `selection` | TypeOK, SelectedShown, OneBulk, HeldToTheEnd, Reenabled | all 10 lists and two of them on a phone as well, 3 rows and 2 of them in another order, 2 presses: an interval of the first outlives it into the second. `Ticks` is 1 of 46, since a tick does the same each time |
| `form` | TypeOK, OneWrite, GuardedSaved, CancelCancels, EditsKept, SeenKept, Ready | 9 forms, one of each kind: in a row with and without another button, with a list edited in place, a card, the device's with its Enter key, of settings, of a user, and two for a new record; one to three of 5 field names each, 2 values given, 2 requests (one of a form that was closed since, or the device's second), 2 timeouts of a kind. A request succeeds, fails, or is done and its answer lost |
| `form_open` | SavedMeansSaved, violated | one form, a field that stays open during a save |

`MaxCalls` and `MaxFaults` bound users and faults; nothing else is bounded. The
lock table and the deploy loop never stop, and deadlock is checked in their runs.
VpcIps starts with any of its subnets listed and the instances in any of them; the
run has 2.7 million states up to a renaming of instances and of subnet ids. VpcIps
stops once all instances are removed and the users have made their calls, so its
runs do not check for deadlock.

What `deploy_safety` leaves out is what its properties do not survive, by design of
the program: users who write a state after they asked for the deletion (`revoke`),
or change the delete protection and write the state they had read with it
(`protect`), may have the VM made again while it is torn down, and a forced delete
removes the record of a running VM. `deploy_limiter` takes those calls and
`remove`, but for `revoke`; the theorems that need no premise on the calls cover
all of them.

`Converges` of the deploy loop allows two dead ends of the code next to the
resting states: a restart of a VM that does not run (no branch of
`Instances.Deploy` acts on it) and a cleanup, written by `GetVms` over a destroy,
of an instance whose unit is gone. It says that nothing else keeps an instance
from rest; it does not say that the last call wins: `restart`, `SetState(Stop)`
and `GetVms` overwrite the state a user wrote meanwhile, and the model shows them
do so.

`Exclusive` and `NoLeak` are conditions on what was called so far: one counts as
long as no instance was moved, no subnet dropped and no removal forced, the other
as long as no removal was forced. The run takes those calls as well, for what
survives them.

The runs of the console bound the requests in flight, the changes on the server,
the presses and the values entered; a user may stop anywhere, so they do not
check for deadlock. One assumption is a constant of the models, `Prompt` of
ConsoleSync: answers to polls come within the second between two polls;
`Converges` needs it, for a list that polls drops each answer that comes later.

The properties of forms say for which forms they hold; the others break them, and
the findings below say how.

* `OneWrite` is about forms whose Enter key does not save, all but the device's.
* `GuardedSaved` is about the inputs that are disabled during a request. A form
  also has inputs that stay open, for which the same is checked, and violated, in
  `form_open` (`SavedMeansSaved`).
* `CancelCancels` is about forms that edit no list of the record itself, all but
  the node's.
* `EditsKept` is about rows and cards: the forms of settings and users take the
  record of their store whenever it changes, and lose edits then. In a row, edits
  end with Cancel, with the answer to a save, with the form being closed, or with
  the row leaving the list (`Drop`), and with nothing else.

The run `form` has no request that ends in a 401 (`"auth"`), only for the size of
its state space: the theorems, which cover everything the run checks but `Ready`,
have it.

## Fairness

The loop runs for ever (`for` in `sync.vmRunner`; the process is started again
by its service manager) and every goroutine ends, since each wait in it has a
limit: weak fairness of `LoopStep` and of each goroutine's steps. Users, guests
and faults need not act; a guest that ignores the shutdown is stopped by force
after a timeout, which is the other way out of stage `off`. In the lock table a
running goroutine goes on to Unlock (every user defers it), and a `sync.Mutex`
hands itself to a waiter of more than a millisecond before any newcomer, so
`Acquire` is strongly fair.

In the console a request is answered or fails, its callback runs, timers fire,
the websocket is opened again and an event that was sent is received: weak
fairness of `Answer`, `Deliver`, `Draw`, `Tick`, `Event`, `SocketOpen`, of the
answers to bulk functions and saves, and of each timeout. Nothing is asked of users
or of other users' changes.

## Findings

* `deploy_protected`: a protected instance without unit file in state destroy
  takes the node's process down, and again after each start
  (`deploy/instances.go:755`).
* `deploy_namespace`: a namespace is removed on the word of a snapshot older than
  the VM's boot, and stays missing as long as the VM runs
  (`deploy/namespace.go:108`).
* `vpc_overlap`: two overlapping subnets added in one request pass the test for
  "VPC cannot have overlapping subnets" (`vpc/vpc.go:166`).
* `form_open`: a field edited while a save is out is taken for saved
  (`components/InstanceDetailed.tsx:943`).

The models show more that no run is spent on; each is a behaviour of the
specification as it stands:

* `state.init` drops the error of the instance query (`state/state.go:241`): one
  failing read removes the namespaces of running VMs (`LoadBlind`, then
  `Namespaces`).
* A list that has exactly full pages can be left on the page after the last,
  which is empty and says to add a first row (`stores/FirewallsStore.ts:105` and
  its siblings, `disk/utils.go:91`; `ServedPage`).
* Reading the state of a VM can switch it off, without the lock under which all
  else is done to the instance (`qemu/manage.go:229`; `ForceOff`).
* A goroutine can be started on what an earlier one has outdated, and boot a VM over
  a running one: its three seconds of sleep are compared with nothing
  (`deploy/instances.go:53`; `misled`).
* The page of a user, or of a new user, can show and save another user's record
  (`actions/UserActions.ts:49`; `Counts`).
* An edit before the list is read again takes the save before it back
  (`components/AuthorityDetailed.tsx:119`; `Base`), a change of the settings by
  someone else discards what is being entered (`components/Settings.tsx:67`;
  `OnChange`), so does a row that leaves the page or the filter
  (`components/Instances.tsx:158`; `Drop`), and Cancel does not take back a
  node's types (`components/NodeDetailed.tsx:194`; `InPlace`).
* Enter in the name of a device saves while another save is out, and with nothing
  edited it fails and enables the form that waits (`components/Device.tsx:233`;
  `Save`, `SaveNothing`).
* The word typed to confirm one deletion is still there in the next dialog of the
  same button (`components/ConfirmButton.tsx:95`; `CloseDialog`).

## Proofs

Each theorem holds for every value of the constants that satisfies the assumptions
of its module and those named in its statement.

**`MultiTimeoutLockProofs`**, from: finitely many goroutines, and `None` neither a
goroutine nor a mutex. The inductive invariant adds to the checked ones that
different ids have different mutexes, that whoever is inside owns the mutex he
looked up, and that a goroutine that left keeps no reference. Exactness of the
counts is what makes Unlock drop an entry only when nobody waits. Proved:
`TypeCorrect`, `Exclusion`, `Accounting`, `NobodyForgotten`, `NothingLeftLocked`,
and `Refinement` (every step is a step of `KeyedLock` or a stutter).

**`DeployInstancesProofs`**, from `Bounds` only (finitely many instances, a positive
limit): `TypeCorrect` and `LimiterIsExact`, for any number of instances, slots,
calls and faults, and any age of the snapshots. The invariant is
`TypeOK /\ Staged /\ LimiterExact`. The two depend on each other: the counter
stays natural because whoever releases a slot is counted, and the account is kept
because a goroutine's stage always belongs to its kind (`Staged`), so it never
changes from one that holds a slot into one that does not.

**`DeploySafetyProofs`.** A goroutine is started on the word of a snapshot that is
seconds old, and nothing in the code compares the two again. What holds even so is
`BaseInv` (`BaseInvariance`, if nobody forces a deletion): whatever a snapshot
missed, a unit is defined for an instance that has had its root disk and is
launched with its address (`Supplied`), and a goroutine that destroys has taken
each thing away before it goes on to the next (`Torn`). It gives
`DeployRefinesLifecycle`: every step is one of `VmLifecycle`'s or none.

The rest is about instances that were not misled. One that the loop finds without a
goroutine, and not stale, has had none at work since the cycle began
(`Untouched`). So the snapshot is still true of its disk and its unit, but for a
guest that halted meanwhile, or that the snapshot itself forced off (`Looked`),
and each stage of its next goroutine knows the state of the unit (`Halted`). Three
invariants build on one another:

* `HostInv` (`HostInvariance`) gives `NeverBootedTwice` (`NoDoubleBoot`), whatever
  users call.
* `CleanInv` gives `RemovedLast` (`RemovedClean`), if nobody forces a deletion: a
  goroutine is only ever started for a record that is still there (`Known`), and
  one that removes the record has nothing left to remove.
* `IntactInv` (`IntactInvariance`) gives `RunningStaysIntact` (`RunningIntact`), if
  deletions are final (`Unrevoked`). From the decision to destroy on, nothing boots
  the instance again (`Final`), because neither users nor `GetVms` write a state
  over destroy that the loop would boot.

The premises are needed: with `"revoke"` among the calls TLC finds a
counterexample to `RunningIntact`, in which the VM is made again while it is torn
down, and with all instances in place of `Informed` one to each of the three.

**`VpcIpsProofs`**, from the assumptions of VpcIps on networks and names, for any
number of instances, subnets and calls: `TypeCorrect`, `AtMostOne` (OneAddress),
`Unstolen` (NeverStolen), `NothingLeaks` (NoLeak), `ExclusiveUnlessOverlap`,
`ApartIfGivenApart`, `TwoVmsTwoAddresses` (Exclusive) and `FullIsFull`
(EnoughForAll).

* `OneAddress` needs that an instance past `FindOwn` still has no address
  (`Searching`), which holds because only the instance's own GetIp gives it one.
* `NoLeak` needs that the record stays while a boot is at work (`Recorded`).
* `Exclusive` needs that a VM that runs has the document of its address, in a
  subnet that stays listed (`AtHome`), so that two VMs with one address are in two
  subnets, whose networks then overlap. That listed networks differ is `NetsOnce`;
  that they do not overlap is what Validate fails to ensure (run `vpc_overlap`),
  so it is a premise: of the state in `ExclusiveUnlessOverlap`, of the networks
  users give in `TwoVmsTwoAddresses`.
* `EnoughForAll` is a counting argument (`Spread`). From any index of a subnet on,
  the documents, plus the searches that got that far, plus the indexes before it
  that all have documents, are no more than there are instances: a search starts
  only when no document is free, each step to the next index leaves a document
  behind, and a new document takes the place of a search.

**`ConsoleSyncProofs`**, for every resource that satisfies `ResourcesAssumption`
(TLC evaluates it for all of ConsoleResources), any number of requests in flight
and any order of answers.

* `ProgressShown` and `RefreshComesBack` rest on requests in flight having
  different ids, for which a free id is found by counting; so does `RowsNeverOlder`,
  which needs that of two answers the last request's is no older than the rows in
  the store: it was made after theirs and the server only goes forward.
* `ListIsFresh` (FreshList) needs an account of the last request (`ListInv`): as
  long as it is out it asks what the store would ask for now, and whatever changes
  owner, filter or page makes another one, or gives up the list.
* `NeverStranded` (NotStranded) is about the two ways to count pages, the
  server's and the store's, which differ when the last page is full.
  `PagesEnough` relates them for every page size.
* `TypeCorrect`.

**`ConsoleSelectionProofs`**, for any list and any rows: `TypeCorrect`,
`SelectionShown`, `OneBulkAtATime`, `HeldThroughout`. The invariant adds that a press
that is over is neither the one being held nor ever becomes it again.

**`ConsoleFormProofs`**, for any form that satisfies `FormsAssumption`, any fields
and any number of values, requests and timeouts, users who do anything at any time
and requests that are served in any order. No theorem has a further assumption.

* `TypeCorrect`, and `OneWriteAtATime`: `OneWrite` is inductive only together with
  the types and with who disables the form (`Waiting`): each way to send a
  request but the Enter key requires it enabled, each way to enable it ends the
  request.
* `EditsAreKept` (EditsKept): a timeout that gives up the copy tests that nothing
  was changed since, and no answer but that of a save ends the changes.
* `SeenIsKept` (SeenKept) needs that copy and requests have nothing older than
  what was seen when the edits began (`Begun`), and that no value is later than
  the last one given (`Dated`).
* `CancelTakesBack` (CancelCancels): no record, copy or request has a value that was
  taken back, and a request whose form was closed brings nothing new of what is
  still wanted (`Known`, `Taken`).
* `SavedIsSaved` (GuardedSaved): of the inputs that are disabled during a request
  (`Closed`), an unchanged form wants only what the server has had, and
  a changed one, its copy and its save in flight carry everything that it
  has not (`Saving`); and no form says that it saved what it did not send
  (`Honest`).

Model-checked only: `Served`, both `Converges`, `Reenabled` and `Ready`, which are
liveness properties under fairness and out of reach of the prover used here. All
invariants and action properties of the passing runs are proved.

## Not modelled

The components that `PROJECT.json` lists as not modelled, with their reasons.
Most are one document per request, commands whose effect is the kernel's, or
external services. What has a concurrent core of its own, and is left for later
modules, in this order:

1. `DeployDisks`: the disk states under `disksLock` and `backupLimiter`, against
   the boot of the instance; backups exact, destroy honoured, no boot while a
   disk is expanded.
2. `ImageCache`: no disk lacks its backing image, with copies that a crash leaves
   half made.
3. `BlockIps`: reservation of public addresses against the unique index and the
   clean-up task, with an abstract specification that VpcIps implements too.
4. `TaskScheduler`: a slot runs at most once over all nodes. `EventBus`: every
   event once and in order. `Requires` as an algorithm against its definition.

In the console: what two lists show together on one page, the payment forms of a
subscription, the dialog that initializes a node, and the noVNC console.

## Plan

1. Done: the lock table, the deploy loop of instances, the addresses of a VPC,
   the console, and theorems for every invariant and action property of their
   runs, with both refinements.
2. Next: theorems that say more than the runs ask: what is left of `RunningIntact`
   when a deletion is revoked, and of misled instances; a bound on how old the
   rows of a list can be.
3. The modules named under "Not modelled".
