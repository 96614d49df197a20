-------------------------------- MODULE VpcIps --------------------------------
(***************************************************************************)
(* The addresses of one VPC, shared by all nodes through the database.     *)
(*                                                                         *)
(* An address document says which instance an address of a subnet belongs  *)
(* to; a unique index on subnet and address keeps nodes from making it     *)
(* twice, and documents outlive their instances to be claimed again.  When *)
(* a VM is booted its node's goroutine calls Vpc.GetIp: it looks for the   *)
(* instance's own address, else claims a free document, else inserts the   *)
(* first address that has no document.  Each of the three is one call of   *)
(* the database; all other nodes, and the API, come in between.            *)
(*                                                                         *)
(* An address is an index: the even IP address 2n is the instance's and    *)
(* the odd one after it its gateway.  An instance has one goroutine at a   *)
(* time (DeployInstances), hence one GetIp.                                *)
(***************************************************************************)
EXTENDS Integers, FiniteSets

CONSTANTS
    Inst,      \* instances, on any node
    Sub,       \* ids of subnets, enough for all that are made
    Nets,      \* networks users give to subnets
    Free,      \* a document without an instance
    Absent,    \* no document
    None,      \* no id, no address
    Calls,     \* the API calls users make: a subset of AllCalls
    MaxCalls   \* bound on the number of each

AllCalls == {"move", "add", "drop", "force"}

\* Networks are aligned blocks (Validate: at least a /28, of 16 addresses).
ASSUME Blocks ==
    /\ Nets \subseteq [base : Nat, size : Nat]
    /\ \A n \in Nets : n.size >= 6 /\ n.size % 2 = 0 /\ n.base % n.size = 0
ASSUME Distinct ==
    /\ Free \notin Inst /\ Absent \notin Inst /\ Free # Absent
    /\ None \notin Inst /\ None \notin Sub /\ None \notin Nets
    /\ None \notin Sub \X Int
    /\ None \notin [subs : SUBSET Sub, drop : SUBSET Sub]
ASSUME InstFinite == IsFiniteSet(Inst)
ASSUME CallsBound == Calls \subseteq AllCalls /\ MaxCalls \in Nat

\* Subnet.GetIndexRange: without the network and broadcast addresses, and
\* without the pair that holds the gateway of the VPC.
First(n) == n.base \div 2 + 1
Last(n) == (n.base + n.size - 2) \div 2 - 1

\* Whether an end of m lies in n, and both ways round.
Within(k, n) == First(n) <= k /\ k <= Last(n)
Hits(m, n) == Within(First(m), n) \/ Within(Last(m), n)
Overlap(m, n) == Hits(m, n) \/ Hits(n, m)

Index == UNION {First(n)..Last(n) : n \in Nets}
Addr == Sub \X Index

VARIABLES
    net,      \* net[s]: the network of a subnet, None before s is made
    listed,   \* the subnets of the VPC's record
    owner,    \* owner[a]: the instance of a document, Free, or Absent
    alive,    \* instances that have a record
    subnet,   \* subnet[i]: the record's subnet
    pc,       \* where the GetIp of i stands
    want,     \* want[i]: the subnet it was called with
    cur,      \* cur[i]: curIp
    conf,     \* conf[i]: the address the VM of i runs with
    move,     \* move[i]: the new subnet of an instancePut in progress
    put,      \* the vpcPut in progress, None if there is none
    calls     \* API calls made, by kind

vpc == <<net, listed>>
getip == <<pc, want, cur>>
vars == <<vpc, owner, alive, subnet, getip, conf, move, put, calls>>

Init ==
    /\ listed \in SUBSET Sub \ {{}}
    /\ net \in [Sub -> Nets \cup {None}]
    /\ \A s \in Sub : s \in listed <=> net[s] # None
    /\ \A s, t \in listed : s # t => ~Overlap(net[s], net[t])
    /\ subnet \in [Inst -> listed]
    /\ want = subnet
    /\ owner = [a \in Addr |-> Absent]
    /\ alive = Inst
    /\ pc = [i \in Inst |-> "idle"]
    /\ cur = [i \in Inst |-> 0]
    /\ conf = [i \in Inst |-> None]
    /\ move = [i \in Inst |-> None]
    /\ put = None
    /\ calls = [c \in AllCalls |-> 0]

Call(c) ==
    /\ c \in Calls /\ calls[c] < MaxCalls
    /\ calls' = [calls EXCEPT ![c] = @ + 1]
-----------------------------------------------------------------------------
(* GetIp.                                                                    *)

Own(i) == {a \in Addr : owner[a] = i}

\* A VM that does not run is to be booted; the subnet is the snapshot's.
Begin(i) ==
    /\ pc[i] = "idle" /\ i \in alive /\ conf[i] = None
    /\ want' = [want EXCEPT ![i] = subnet[i]]
    /\ pc' = [pc EXCEPT ![i] = "vpc"]
    /\ UNCHANGED <<vpc, owner, alive, subnet, cur, conf, move, put, calls>>

\* vpc.Get, and GetSubnet on what it read.
ReadVpc(i) ==
    /\ pc[i] = "vpc"
    /\ pc' = [pc EXCEPT ![i] = IF want[i] \in listed THEN "own" ELSE "idle"]
    /\ UNCHANGED <<vpc, owner, alive, subnet, want, cur, conf, move, put, calls>>

Got(i, a) ==
    /\ conf' = [conf EXCEPT ![i] = a]
    /\ pc' = [pc EXCEPT ![i] = "idle"]

\* Mutant of FindOwn: the instance's own document is not looked for.
FindOwnNot(i) ==
    /\ pc[i] = "own"
    /\ pc' = [pc EXCEPT ![i] = "claim"]
    /\ UNCHANGED <<vpc, owner, alive, subnet, want, cur, conf, move, put, calls>>

\* FindOne by instance, in any subnet of the VPC.
FindOwn(i) ==
    /\ pc[i] = "own"
    /\ \/ \E a \in Own(i) : Got(i, a)
       \/ Own(i) = {} /\ pc' = [pc EXCEPT ![i] = "claim"] /\ UNCHANGED conf
    /\ UNCHANGED <<vpc, owner, alive, subnet, want, cur, move, put, calls>>

FreeIn(s) == {a \in Addr : a[1] = s /\ owner[a] = Free}

\* Mutant of Claim: any document of the subnet is claimed.
ClaimAny(i) ==
    /\ pc[i] = "claim"
    /\ \/ \E a \in Addr : /\ a[1] = want[i] /\ owner[a] # Absent
                          /\ owner' = [owner EXCEPT ![a] = i]
                          /\ Got(i, a)
                          /\ UNCHANGED cur
       \/ /\ \A a \in Addr : a[1] = want[i] => owner[a] = Absent
          /\ pc' = [pc EXCEPT ![i] = "insert"]
          /\ cur' = [cur EXCEPT ![i] = First(net[want[i]])]
          /\ UNCHANGED <<owner, conf>>
    /\ UNCHANGED <<vpc, alive, subnet, want, move, put, calls>>

\* Mutant of Claim: documents without an instance are never claimed.
ClaimNone(i) ==
    /\ pc[i] = "claim"
    /\ pc' = [pc EXCEPT ![i] = "insert"]
    /\ cur' = [cur EXCEPT ![i] = First(net[want[i]])]
    /\ UNCHANGED <<owner, conf, vpc, alive, subnet, want, move, put, calls>>

\* FindOneAndUpdate of a document without instance; without one curIp starts
\* at the first address (the highest one in use, read next, has no effect).
Claim(i) ==
    /\ pc[i] = "claim"
    /\ \/ \E a \in FreeIn(want[i]) : /\ owner' = [owner EXCEPT ![a] = i]
                                     /\ Got(i, a)
                                     /\ UNCHANGED cur
       \/ /\ FreeIn(want[i]) = {}
          /\ pc' = [pc EXCEPT ![i] = "insert"]
          /\ cur' = [cur EXCEPT ![i] = First(net[want[i]])]
          /\ UNCHANGED <<owner, conf>>
    /\ UNCHANGED <<vpc, alive, subnet, want, move, put, calls>>

Tried(i) == <<want[i], cur[i]>>

\* Mutant of Insert: without the unique index the document is replaced.
InsertOver(i) ==
    /\ pc[i] = "insert" /\ cur[i] <= Last(net[want[i]])
    /\ owner' = [owner EXCEPT ![Tried(i)] = i]
    /\ Got(i, Tried(i))
    /\ UNCHANGED <<vpc, alive, subnet, want, cur, move, put, calls>>

\* InsertOne succeeds if the unique index allows it.
Insert(i) ==
    /\ pc[i] = "insert" /\ cur[i] <= Last(net[want[i]])
    /\ owner[Tried(i)] = Absent
    /\ owner' = [owner EXCEPT ![Tried(i)] = i]
    /\ Got(i, Tried(i))
    /\ UNCHANGED <<vpc, alive, subnet, want, cur, move, put, calls>>

\* Mutant of Retry: the end of the network is not looked for.
RetryOn(i) ==
    /\ pc[i] = "insert" /\ cur[i] <= Last(net[want[i]]) + 1
    /\ cur' = [cur EXCEPT ![i] = @ + 1]
    /\ UNCHANGED <<vpc, owner, alive, subnet, pc, want, conf, move, put, calls>>

\* A duplicate key: the next address.
Retry(i) ==
    /\ pc[i] = "insert" /\ cur[i] <= Last(net[want[i]])
    /\ owner[Tried(i)] # Absent
    /\ cur' = [cur EXCEPT ![i] = @ + 1]
    /\ UNCHANGED <<vpc, owner, alive, subnet, pc, want, conf, move, put, calls>>

\* "Address pool full".
Full(i) ==
    /\ pc[i] = "insert" /\ cur[i] > Last(net[want[i]])
    /\ pc' = [pc EXCEPT ![i] = "idle"]
    /\ UNCHANGED <<vpc, owner, alive, subnet, want, cur, conf, move, put, calls>>

\* A call of the database fails, or the node dies.
Fail(i) ==
    /\ pc[i] # "idle"
    /\ pc' = [pc EXCEPT ![i] = "idle"]
    /\ UNCHANGED <<vpc, owner, alive, subnet, want, cur, conf, move, put, calls>>

\* The VM is powered off.
Off(i) ==
    /\ conf[i] # None
    /\ conf' = [conf EXCEPT ![i] = None]
    /\ UNCHANGED <<vpc, owner, alive, subnet, getip, move, put, calls>>
-----------------------------------------------------------------------------
(* Releases.                                                                 *)

Released(i) == [a \in Addr |-> IF owner[a] = i THEN Free ELSE owner[a]]

\* Mutant of Remove: the documents keep the instance.
RemoveKeeps(i) ==
    /\ pc[i] = "idle" /\ i \in alive /\ conf[i] = None
    /\ alive' = alive \ {i}
    /\ UNCHANGED <<vpc, owner, subnet, getip, conf, move, put, calls>>

\* instance.Remove at the end of a destroy, under the instance's lock: the
\* addresses first, then the record, unless the node dies in between.
Remove(i) ==
    /\ pc[i] = "idle" /\ i \in alive /\ conf[i] = None
    /\ owner' = Released(i)
    /\ alive' \in {alive, alive \ {i}}
    /\ UNCHANGED <<vpc, subnet, getip, conf, move, put, calls>>

\* The same at once, whatever the instance is doing.
ForceRemove(i) ==
    /\ Call("force")
    /\ i \in alive
    /\ owner' = Released(i)
    /\ alive' = alive \ {i}
    /\ UNCHANGED <<vpc, subnet, getip, conf, move, put>>

\* instancePut to another subnet: PostCommit gives back the address...
Move(i) ==
    /\ Call("move")
    /\ i \in alive /\ move[i] = None
    /\ \E s \in listed \ {subnet[i]} : move' = [move EXCEPT ![i] = s]
    /\ owner' = Released(i)
    /\ UNCHANGED <<vpc, alive, subnet, getip, conf, put>>

\* ...before the record is written, unless that fails or the record is gone.
MoveCommit(i) ==
    /\ move[i] # None
    /\ \/ i \in alive /\ subnet' = [subnet EXCEPT ![i] = move[i]]
       \/ UNCHANGED subnet
    /\ move' = [move EXCEPT ![i] = None]
    /\ UNCHANGED <<vpc, owner, alive, getip, conf, put, calls>>
-----------------------------------------------------------------------------
(* vpcPut.                                                                   *)

\* A request lists the subnets to keep, with their ids, and new networks.
Entry == [id : Sub \cup {None}, net : Nets]
Kept(req) == {e.id : e \in req} \ {None}

\* Vpc.Validate: entries of one id are the same entry to it.
Valid(req) == \A d, e \in req : d.id # e.id => ~Hits(d.net, e.net)

\* The networks of new entries that a listed subnet has already, and those
\* that need an id.
Again(req) == {s \in listed : \E e \in req : e.id = None /\ e.net = net[s]}
Fresh(req) == {e.net : e \in req} \ {net[s] : s \in listed}

\* PostCommit: what the record will list, and the subnets whose ids the
\* request does not name, which are to be removed.
PutVpc ==
    /\ put = None
    /\ \E req \in SUBSET ({[id |-> s, net |-> net[s]] : s \in listed}
                          \cup {[id |-> None, net |-> n] : n \in Nets}) :
         /\ Valid(req)
         /\ IF listed \subseteq Kept(req) THEN Call("add") ELSE Call("drop")
         /\ \E f \in [Fresh(req) -> {s \in Sub : net[s] = None}] :
              /\ \A m, n \in Fresh(req) : f[m] = f[n] => m = n
              /\ net' = [s \in Sub |->
                           IF \E n \in Fresh(req) : f[n] = s
                             THEN CHOOSE n \in Fresh(req) : f[n] = s ELSE net[s]]
              /\ put' = [subs |-> Kept(req) \cup Again(req) \cup {f[n] : n \in Fresh(req)},
                         drop |-> listed \ Kept(req)]
    /\ UNCHANGED <<listed, owner, alive, subnet, getip, conf, move>>

\* RemoveSubnet of one of them: its documents are deleted, whoever has them.
RemoveSubnet ==
    /\ put # None
    /\ \E s \in put.drop :
         /\ owner' = [a \in Addr |-> IF a[1] = s THEN Absent ELSE owner[a]]
         /\ put' = [put EXCEPT !.drop = @ \ {s}]
    /\ UNCHANGED <<vpc, alive, subnet, getip, conf, move, calls>>

\* CommitFields.
PutCommit ==
    /\ put # None /\ put.drop = {}
    /\ listed' = put.subs
    /\ put' = None
    /\ UNCHANGED <<net, owner, alive, subnet, getip, conf, move, calls>>

\* A call of the database fails, or the node that serves the call dies.
PutFail ==
    /\ put # None
    /\ put' = None
    /\ UNCHANGED <<vpc, owner, alive, subnet, getip, conf, move, calls>>
-----------------------------------------------------------------------------
GetIp(i) ==
    \/ Begin(i) \/ ReadVpc(i) \/ FindOwn(i) \/ Claim(i)
    \/ Insert(i) \/ Retry(i) \/ Full(i) \/ Fail(i)

Next ==
    \/ \E i \in Inst : \/ GetIp(i) \/ Off(i) \/ Remove(i) \/ ForceRemove(i)
                       \/ Move(i) \/ MoveCommit(i)
    \/ PutVpc \/ RemoveSubnet \/ PutCommit \/ PutFail

Spec == Init /\ [][Next]_vars
-----------------------------------------------------------------------------
Made == {s \in Sub : net[s] # None}
Puts == [subs : SUBSET Made, drop : SUBSET Sub]

\* The documents, records and calls in progress are well formed; a GetIp
\* tries no address but those of its subnet's network.
TypeOK ==
    /\ net \in [Sub -> Nets \cup {None}]
    /\ listed \subseteq Made
    /\ owner \in [Addr -> Inst \cup {Free, Absent}]
    /\ alive \subseteq Inst
    /\ subnet \in [Inst -> Made]
    /\ pc \in [Inst -> {"idle", "vpc", "own", "claim", "insert"}]
    /\ want \in [Inst -> Made]
    /\ cur \in [Inst -> Nat]
    /\ \A i \in Inst : pc[i] = "insert" =>
         cur[i] \in First(net[want[i]])..(Last(net[want[i]]) + 1)
    /\ conf \in [Inst -> Addr \cup {None}]
    /\ move \in [Inst -> Made \cup {None}]
    /\ put \in Puts \cup {None}
    /\ calls \in [AllCalls -> 0..MaxCalls]

\* An instance has one address at most: looking for one's own document, and
\* making one, are three calls that other nodes and releases come between.
OneAddress == \A i \in Inst : \A a, b \in Own(i) : a = b

\* A reserved address is given back before anybody else gets it: no step of
\* another instance takes it over.
NeverStolen ==
    [][\A a \in Addr : owner[a] \in Inst /\ owner'[a] # owner[a] =>
         owner'[a] \in {Free, Absent}]_vars

\* Two VMs that run have no IP address in common, as long as nobody moves or
\* forces one away from its address or drops its subnet.
Exclusive ==
    calls["move"] + calls["drop"] + calls["force"] = 0 =>
        \A i, j \in Inst : i # j /\ conf[i] # None /\ conf[j] # None =>
            conf[i][2] # conf[j][2]

\* The pool is found full only if there are more instances than it has
\* addresses, however often they were moved, removed and booted again:
\* documents without an instance are used up before one is made.
EnoughForAll ==
    \A i \in Inst : pc[i] = "insert" /\ cur[i] > Last(net[want[i]]) =>
        Cardinality(Inst) > Last(net[want[i]]) - First(net[want[i]]) + 1

\* An instance that is destroyed keeps no address, unless it was removed by
\* force, under a GetIp of its own.
NoLeak ==
    calls["force"] = 0 => \A a \in Addr : owner[a] \in Inst => owner[a] \in alive

\* "VPC cannot have overlapping subnets".
NoOverlap == \A s, t \in listed : s # t => ~Overlap(net[s], net[t])
=============================================================================
