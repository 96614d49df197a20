----------------------------- MODULE VpcIpsProofs -----------------------------
(***************************************************************************)
(* Theorems about VpcIps, for every number of instances, subnets, networks *)
(* and API calls: an instance has one address at most, no step takes an    *)
(* address from the instance that has it to give it to another one, two    *)
(* running VMs have two addresses as long as nothing is taken from one of  *)
(* them by a call, and a network is full only once its addresses are used. *)
(***************************************************************************)
EXTENDS VpcIps, FiniteSetTheorems, TLAPS

\* Whoever claims or inserts found no document of its own; nobody but the
\* instance's own GetIp has made one since.
Searching == \A i \in Inst : pc[i] \in {"claim", "insert"} => Own(i) = {}

IInv == TypeOK /\ OneAddress /\ Searching

LEMMA NetBounds ==
  ASSUME NEW n \in Nets
  PROVE  /\ First(n) \in Int /\ Last(n) \in Int
         /\ First(n) >= 0 /\ First(n) <= Last(n) + 1
<1>1. n.base \in Nat /\ n.size \in Nat /\ n.size >= 6
  BY Blocks
<1> QED
  BY <1>1 DEF First, Last

LEMMA IndexInt == Index \subseteq Int
<1>1. \A n \in Nets : First(n)..Last(n) \subseteq Int
  BY NetBounds
<1> QED
  BY <1>1 DEF Index

\* The address a GetIp tries is an address.
LEMMA TriedAddr ==
  ASSUME TypeOK, NEW i \in Inst, pc[i] = "insert", cur[i] <= Last(net[want[i]])
  PROVE  Tried(i) \in Addr
<1>1. want[i] \in Sub /\ net[want[i]] \in Nets
  BY Distinct DEF TypeOK, Made, Puts
<1>2. cur[i] \in First(net[want[i]])..Last(net[want[i]])
  BY <1>1, NetBounds DEF TypeOK, Made, Puts
<1> QED
  BY <1>1, <1>2 DEF Tried, Addr, Index

LEMMA InitIInv == Init => IInv
<1> SUFFICES ASSUME Init PROVE IInv
  OBVIOUS
<1>1. listed \subseteq Made
  BY DEF Init, Made
<1>2. TypeOK
  <2>1. subnet \in [Inst -> Made] /\ want \in [Inst -> Made]
    BY <1>1 DEF Init
  <2> QED
    BY <1>1, <2>1, CallsBound DEF Init, TypeOK
<1>3. \A i \in Inst : Own(i) = {}
  BY Distinct DEF Init, Own
<1> QED
  BY <1>2, <1>3 DEF IInv, OneAddress, Searching, Init
-----------------------------------------------------------------------------
(* Type correctness.                                                         *)

LEMMA GetIpTypeOK ==
  ASSUME TypeOK, NEW i \in Inst, GetIp(i)
  PROVE  TypeOK'
<1>1. want[i] \in Sub /\ net[want[i]] \in Nets
  BY Distinct DEF TypeOK, Made, Puts
<1>2. First(net[want[i]]) \in Nat
      /\ First(net[want[i]]) \in First(net[want[i]])..(Last(net[want[i]]) + 1)
  BY <1>1, NetBounds
<1>3. CASE Begin(i)
  BY <1>3 DEF Begin, TypeOK, Made, Puts, vpc
<1>4. CASE ReadVpc(i) \/ Fail(i) \/ Full(i)
  BY <1>4 DEF ReadVpc, Fail, Full, TypeOK, Made, Puts, vpc
<1>5. CASE FindOwn(i)
  BY <1>5 DEF FindOwn, Got, Own, TypeOK, Made, Puts, vpc
<1>6. CASE Claim(i)
  BY <1>6, <1>2 DEF Claim, FreeIn, Got, TypeOK, Made, Puts, vpc
<1>7. CASE Insert(i)
  BY <1>7, TriedAddr DEF Insert, Got, TypeOK, Made, Puts, vpc
<1>8. CASE Retry(i)
  BY <1>8, <1>1, NetBounds DEF Retry, TypeOK, Made, Puts, vpc
<1> QED
  BY <1>3, <1>4, <1>5, <1>6, <1>7, <1>8 DEF GetIp

LEMMA InstanceTypeOK ==
  ASSUME TypeOK, NEW i \in Inst,
         \/ Off(i) \/ Remove(i) \/ ForceRemove(i) \/ Move(i) \/ MoveCommit(i)
  PROVE  TypeOK'
<1>1. Released(i) \in [Addr -> Inst \cup {Free, Absent}]
  BY DEF Released, TypeOK, Made, Puts
<1>2. CASE Off(i)
  BY <1>2 DEF Off, TypeOK, Made, Puts, vpc, getip
<1>3. CASE Remove(i)
  BY <1>3, <1>1 DEF Remove, TypeOK, Made, Puts, vpc, getip
<1>4. CASE ForceRemove(i)
  BY <1>4, <1>1, CallsBound DEF ForceRemove, Call, TypeOK, Made, Puts, vpc, getip
<1>5. CASE Move(i)
  <2>1. calls' \in [AllCalls -> 0..MaxCalls]
    BY <1>5, CallsBound DEF Move, Call, TypeOK, Made, Puts
  <2>2. move' \in [Inst -> Made \cup {None}]
    BY <1>5 DEF Move, TypeOK, Made
  <2> QED
    BY <1>5, <1>1, <2>1, <2>2 DEF Move, TypeOK, Made, Puts, vpc, getip
<1>6. CASE MoveCommit(i)
  BY <1>6 DEF MoveCommit, TypeOK, Made, Puts, vpc, getip
<1> QED
  BY <1>2, <1>3, <1>4, <1>5, <1>6

\* A subnet keeps the network it was made with.
LEMMA NetKept ==
  ASSUME TypeOK, PutVpc
  PROVE  /\ net' \in [Sub -> Nets \cup {None}]
         /\ \A s \in Sub : net[s] # None => net'[s] = net[s]
         /\ put' \in Puts'
         /\ calls' \in [AllCalls -> 0..MaxCalls]
<1> PICK req \in SUBSET ({[id |-> s, net |-> net[s]] : s \in listed}
                          \cup {[id |-> None, net |-> n] : n \in Nets}) :
      /\ IF listed \subseteq Kept(req) THEN Call("add") ELSE Call("drop")
      /\ \E f \in [Fresh(req) -> {s \in Sub : net[s] = None}] :
              /\ net' = [s \in Sub |->
                           IF \E n \in Fresh(req) : f[n] = s
                             THEN CHOOSE n \in Fresh(req) : f[n] = s ELSE net[s]]
              /\ put' = [subs |-> Kept(req) \cup Again(req) \cup {f[n] : n \in Fresh(req)},
                         drop |-> listed \ Kept(req)]
  BY DEF PutVpc
<1> PICK f \in [Fresh(req) -> {s \in Sub : net[s] = None}] :
      /\ net' = [s \in Sub |->
                   IF \E n \in Fresh(req) : f[n] = s
                     THEN CHOOSE n \in Fresh(req) : f[n] = s ELSE net[s]]
      /\ put' = [subs |-> Kept(req) \cup Again(req) \cup {f[n] : n \in Fresh(req)},
                 drop |-> listed \ Kept(req)]
  OBVIOUS
<1>1. listed \subseteq Sub /\ \A s \in listed : net[s] \in Nets
  BY DEF TypeOK, Made
<1>2. Kept(req) \subseteq Sub /\ Again(req) \subseteq Sub
  BY <1>1 DEF Kept, Again
<1>3. Fresh(req) \subseteq Nets
  BY <1>1 DEF Fresh
<1>5. \A s \in Sub : net'[s] \in Nets \cup {None}
  <2> TAKE s \in Sub
  <2>1. CASE \E n \in Fresh(req) : f[n] = s
    BY <2>1, <1>3
  <2>2. CASE ~\E n \in Fresh(req) : f[n] = s
    BY <2>2 DEF TypeOK, Made, Puts
  <2> QED
    BY <2>1, <2>2
<1>6. \A s \in Sub : net[s] # None => net'[s] = net[s]
  OBVIOUS
<1>4. put' \in Puts'
  <2>1. Kept(req) \subseteq listed /\ Again(req) \subseteq listed
    BY Distinct DEF Kept, Again
  <2>2. \A s \in listed : net'[s] # None
    BY <1>6, <1>1, Distinct
  <2>3. \A n \in Fresh(req) : net'[f[n]] # None
    <3> TAKE n \in Fresh(req)
    <3>1. f[n] \in Sub
      OBVIOUS
    <3>2. net'[f[n]] \in Fresh(req)
      BY <3>1
    <3> QED
      BY <3>2, <1>3, Distinct
  <2>4. \A n \in Fresh(req) : f[n] \in Sub
    OBVIOUS
  <2>5. listed \subseteq Made'
    BY <1>1, <2>2 DEF Made
  <2>6. \A n \in Fresh(req) : f[n] \in Made'
    BY <2>3, <2>4 DEF Made
  <2>7. Kept(req) \cup Again(req) \cup {f[n] : n \in Fresh(req)} \subseteq Made'
    BY <2>1, <2>5, <2>6
  <2> QED
    BY <1>1, <2>7 DEF Puts
<1>7. calls' \in [AllCalls -> 0..MaxCalls]
  BY CallsBound DEF Call, TypeOK, Made, Puts
<1> QED
  BY <1>4, <1>5, <1>6, <1>7

LEMMA PutTypeOK ==
  ASSUME TypeOK, PutVpc \/ RemoveSubnet \/ PutCommit \/ PutFail
  PROVE  TypeOK'
<1>1. CASE PutVpc
  <2>1. /\ Made \subseteq Made'
        /\ \A s \in Made : net'[s] = net[s]
    BY <1>1, NetKept, Distinct DEF Made, TypeOK
  <2>2. UNCHANGED <<listed, owner, alive, subnet, pc, want, cur, conf, move>>
    BY <1>1 DEF PutVpc, getip
  <2>3. /\ subnet' \in [Inst -> Made']
        /\ want' \in [Inst -> Made']
        /\ move' \in [Inst -> Made' \cup {None}]
        /\ listed' \subseteq Made'
    BY <2>1, <2>2 DEF TypeOK
  <2>4. \A i \in Inst : pc'[i] = "insert" =>
          cur'[i] \in First(net'[want'[i]])..(Last(net'[want'[i]]) + 1)
    BY <2>1, <2>2 DEF TypeOK
  <2> QED
    BY <1>1, <2>2, <2>3, <2>4, NetKept DEF TypeOK
<1>2. CASE RemoveSubnet
  BY <1>2 DEF RemoveSubnet, TypeOK, vpc, getip, Puts, Made
<1>3. CASE PutCommit
  BY <1>3 DEF PutCommit, TypeOK, vpc, getip, Puts, Made
<1>4. CASE PutFail
  BY <1>4 DEF PutFail, TypeOK, vpc, getip, Puts, Made
<1> QED
  BY <1>1, <1>2, <1>3, <1>4
-----------------------------------------------------------------------------
(* One address.                                                              *)

\* A step that gives nobody an address and starts no search.
LEMMA LosingKeeps ==
  ASSUME IInv, \A i \in Inst : Own(i)' \subseteq Own(i),
         \A i \in Inst : pc'[i] \in {"claim", "insert"} =>
            pc[i] \in {"claim", "insert"} \/ Own(i)' = {}
  PROVE  OneAddress' /\ Searching'
BY DEF IInv, OneAddress, Searching

\* A search that ends with address a, which belonged to no instance.
LEMMA GainingKeeps ==
  ASSUME IInv, NEW i \in Inst, NEW a \in Addr, Own(i) = {}, owner[a] \notin Inst,
         owner' = [owner EXCEPT ![a] = i], pc' = [pc EXCEPT ![i] = "idle"]
  PROVE  OneAddress' /\ Searching'
<1>1. Own(i)' = {a}
  BY DEF Own, IInv, TypeOK
<1>2. \A j \in Inst \ {i} : Own(j)' = Own(j)
  BY DEF Own, IInv, TypeOK
<1>3. \A j \in Inst \ {i} : pc'[j] = pc[j]
  BY DEF IInv, TypeOK
<1>4. pc'[i] = "idle"
  BY DEF IInv, TypeOK
<1> QED
  BY <1>1, <1>2, <1>3, <1>4 DEF IInv, OneAddress, Searching

LEMMA GetIpOwn ==
  ASSUME IInv, NEW i \in Inst, GetIp(i)
  PROVE  OneAddress' /\ Searching'
<1>1. CASE Begin(i) \/ ReadVpc(i) \/ Retry(i) \/ Full(i) \/ Fail(i)
  <2>1. \A j \in Inst : Own(j)' = Own(j)
    BY <1>1 DEF Begin, ReadVpc, Retry, Full, Fail, Own
  <2>2. \A j \in Inst : pc'[j] \in {"claim", "insert"} => pc[j] \in {"claim", "insert"}
    BY <1>1 DEF Begin, ReadVpc, Retry, Full, Fail, IInv, TypeOK
  <2> QED
    BY <2>1, <2>2, LosingKeeps
<1>2. CASE FindOwn(i)
  <2>1. \A j \in Inst : Own(j)' = Own(j)
    BY <1>2 DEF FindOwn, Own
  <2>2. \A j \in Inst : pc'[j] \in {"claim", "insert"} =>
          pc[j] \in {"claim", "insert"} \/ Own(j) = {}
    BY <1>2 DEF FindOwn, Got, IInv, TypeOK
  <2> QED
    BY <2>1, <2>2, LosingKeeps
<1>3. CASE Claim(i)
  <2>1. Own(i) = {}
    BY <1>3 DEF Claim, IInv, Searching
  <2>2. CASE \E a \in FreeIn(want[i]) : /\ owner' = [owner EXCEPT ![a] = i]
                                        /\ Got(i, a)
    <3> PICK a \in FreeIn(want[i]) : /\ owner' = [owner EXCEPT ![a] = i]
                                     /\ Got(i, a)
      BY <2>2
    <3>1. a \in Addr /\ owner[a] \notin Inst
      BY Distinct DEF FreeIn
    <3> QED
      BY <2>1, <3>1, GainingKeeps DEF Got
  <2>3. CASE pc' = [pc EXCEPT ![i] = "insert"] /\ UNCHANGED owner
    <3>1. \A j \in Inst : Own(j)' = Own(j)
      BY <2>3 DEF Own
    <3>2. \A j \in Inst : pc'[j] \in {"claim", "insert"} =>
            pc[j] \in {"claim", "insert"} \/ Own(j) = {}
      BY <2>3, <2>1 DEF IInv, TypeOK
    <3> QED
      BY <3>1, <3>2, LosingKeeps
  <2> QED
    BY <1>3, <2>2, <2>3 DEF Claim
<1>4. CASE Insert(i)
  <2>1. Own(i) = {} /\ Tried(i) \in Addr /\ owner[Tried(i)] \notin Inst
    BY <1>4, TriedAddr, Distinct DEF Insert, IInv, Searching
  <2> QED
    BY <1>4, <2>1, GainingKeeps DEF Insert, Got
<1> QED
  BY <1>1, <1>2, <1>3, <1>4 DEF GetIp

LEMMA ReleaseOwn ==
  ASSUME IInv,
         \/ \E i \in Inst : \/ Off(i) \/ Remove(i) \/ ForceRemove(i)
                            \/ Move(i) \/ MoveCommit(i)
         \/ PutVpc \/ RemoveSubnet \/ PutCommit \/ PutFail
  PROVE  OneAddress' /\ Searching'
<1>1. UNCHANGED pc
  BY DEF Off, Remove, ForceRemove, Move, MoveCommit,
         PutVpc, RemoveSubnet, PutCommit, PutFail, getip
<1>2. \A j \in Inst : Own(j)' \subseteq Own(j)
  <2>1. CASE UNCHANGED owner
    BY <2>1 DEF Own
  <2>2. CASE \E i \in Inst : owner' = Released(i)
    BY <2>2, Distinct DEF Own, Released
  <2>3. CASE RemoveSubnet
    BY <2>3, Distinct DEF Own, RemoveSubnet
  <2> QED
    BY <2>1, <2>2, <2>3 DEF Off, Remove, ForceRemove, Move, MoveCommit,
                            PutVpc, PutCommit, PutFail
<1> QED
  BY <1>1, <1>2, LosingKeeps

LEMMA NextIInv == IInv /\ [Next]_vars => IInv'
<1> SUFFICES ASSUME IInv, [Next]_vars PROVE IInv'
  OBVIOUS
<1>1. ASSUME NEW i \in Inst, GetIp(i) PROVE IInv'
  BY <1>1, GetIpTypeOK, GetIpOwn DEF IInv
<1>2. ASSUME NEW i \in Inst,
             Off(i) \/ Remove(i) \/ ForceRemove(i) \/ Move(i) \/ MoveCommit(i)
      PROVE  IInv'
  BY <1>2, InstanceTypeOK, ReleaseOwn DEF IInv
<1>3. CASE PutVpc \/ RemoveSubnet \/ PutCommit \/ PutFail
  BY <1>3, PutTypeOK, ReleaseOwn DEF IInv
<1>4. CASE UNCHANGED vars
  BY <1>4 DEF IInv, TypeOK, Made, Puts, OneAddress, Searching, Own, vars, vpc, getip
<1> QED
  BY <1>1, <1>2, <1>3, <1>4 DEF Next

\* The inductive invariant holds in every reachable state.
THEOREM Invariance == Spec => []IInv
BY InitIInv, NextIInv, PTL DEF Spec

\* Records, documents and calls stay well formed, and no GetIp tries an
\* address outside the network of its subnet.
THEOREM TypeCorrect == Spec => []TypeOK
<1>1. IInv => TypeOK
  BY DEF IInv
<1> QED
  BY <1>1, Invariance, PTL

\* GetIp never gives an instance a second address, whatever nodes, moves,
\* removals and changes of the VPC come between its calls of the database.
THEOREM AtMostOne == Spec => []OneAddress
<1>1. IInv => OneAddress
  BY DEF IInv
<1> QED
  BY <1>1, Invariance, PTL

\* GetIp takes an address from no instance: what it claims has none, what it
\* inserts did not exist.
THEOREM Unstolen == Spec => NeverStolen
<1>1. ASSUME IInv, [Next]_vars, NEW a \in Addr, owner[a] \in Inst, owner'[a] # owner[a]
      PROVE  owner'[a] \in {Free, Absent}
  <2>1. owner \in [Addr -> Inst \cup {Free, Absent}]
    BY <1>1 DEF IInv, TypeOK
  <2>2. CASE \E i \in Inst : owner' = Released(i)
    BY <1>1, <2>1, <2>2 DEF Released
  <2>3. CASE RemoveSubnet
    BY <1>1, <2>1, <2>3 DEF RemoveSubnet
  <2>4. ASSUME NEW i \in Inst, Claim(i) PROVE FALSE
    BY <1>1, <2>1, <2>4, Distinct DEF Claim, FreeIn
  <2>5. ASSUME NEW i \in Inst, Insert(i) PROVE FALSE
    BY <1>1, <2>1, <2>5, Distinct DEF Insert
  <2>6. CASE UNCHANGED owner
    BY <1>1, <2>6
  <2> QED
    BY <1>1, <2>2, <2>3, <2>4, <2>5, <2>6
    DEF Next, GetIp, Begin, ReadVpc, FindOwn, Retry, Full, Fail, Off, Remove,
        ForceRemove, Move, MoveCommit, PutVpc, PutCommit, PutFail, vars, vpc
<1>2. IInv /\ [Next]_vars =>
        [\A a \in Addr : owner[a] \in Inst /\ owner'[a] # owner[a] =>
            owner'[a] \in {Free, Absent}]_vars
  BY <1>1
<1> QED
  BY <1>2, Invariance, PTL DEF Spec, NeverStolen
-----------------------------------------------------------------------------
(* Nothing leaks, unless a removal is forced.                                *)

\* The record stays while the goroutine that boots its instance is at work.
Recorded == calls["force"] = 0 => \A i \in Inst : pc[i] # "idle" => i \in alive

LEMMA LeakStep ==
  ASSUME TypeOK, NoLeak, Recorded, [Next]_vars
  PROVE  NoLeak' /\ Recorded'
<1>a. SUFFICES ASSUME calls'["force"] = 0
               PROVE  NoLeak' /\ Recorded'
  BY DEF NoLeak, Recorded
<1>b. calls \in [AllCalls -> Nat]
  BY CallsBound DEF TypeOK
<1>c. ASSUME NEW i \in Inst PROVE ~ForceRemove(i)
  BY <1>a, <1>b DEF ForceRemove, Call, AllCalls
<1>d. ASSUME NEW c \in AllCalls \ {"force"}, Call(c) PROVE calls["force"] = 0
  BY <1>a, <1>b, <1>d DEF Call, AllCalls
<1>e. (\E i \in Inst : Move(i)) \/ PutVpc => calls["force"] = 0
  BY <1>d DEF Move, PutVpc, AllCalls
<1>f. UNCHANGED calls => calls["force"] = 0
  BY <1>a
<1>g. calls["force"] = 0
  BY <1>c, <1>e, <1>f
  DEF Next, GetIp, Begin, ReadVpc, FindOwn, Claim, Insert, Retry, Full, Fail, Off,
      Remove, MoveCommit, RemoveSubnet, PutCommit, PutFail, vars
<1>h. /\ \A a \in Addr : owner[a] \in Inst => owner[a] \in alive
      /\ \A i \in Inst : pc[i] # "idle" => i \in alive
  BY <1>g DEF NoLeak, Recorded
<1>1. ASSUME NEW i \in Inst, GetIp(i) PROVE NoLeak' /\ Recorded'
  <2>1. UNCHANGED alive /\ \A j \in Inst : pc'[j] # "idle" => j \in alive
    BY <1>1, <1>h DEF GetIp, Begin, ReadVpc, FindOwn, Claim, Insert, Retry, Full, Fail,
                Got, TypeOK
  <2>2. \A a \in Addr : owner'[a] = owner[a] \/ owner'[a] = i
    BY <1>1 DEF GetIp, Begin, ReadVpc, FindOwn, Claim, Insert, Retry, Full, Fail,
                FreeIn, TypeOK
  <2>3. (\E a \in Addr : owner'[a] # owner[a]) => i \in alive
    BY <1>1, <1>h DEF GetIp, Begin, ReadVpc, FindOwn, Claim, Insert, Retry, Full, Fail
  <2> QED
    BY <1>h, <2>1, <2>2, <2>3 DEF NoLeak, Recorded
<1>2. ASSUME NEW i \in Inst, Remove(i) PROVE NoLeak' /\ Recorded'
  BY <1>h, <1>2, Distinct DEF Remove, Released, NoLeak, Recorded, TypeOK, getip
<1>3. ASSUME NEW i \in Inst, Move(i) PROVE NoLeak' /\ Recorded'
  BY <1>h, <1>3, Distinct DEF Move, Released, NoLeak, Recorded, TypeOK, getip
<1>4. ASSUME NEW i \in Inst, Off(i) \/ MoveCommit(i) PROVE NoLeak' /\ Recorded'
  BY <1>h, <1>4 DEF Off, MoveCommit, NoLeak, Recorded, getip
<1>6. CASE PutVpc \/ PutCommit \/ PutFail
  BY <1>h, <1>6 DEF PutVpc, PutCommit, PutFail, NoLeak, Recorded, getip
<1>7. CASE RemoveSubnet
  BY <1>h, <1>7, Distinct DEF RemoveSubnet, NoLeak, Recorded, TypeOK, getip
<1>8. CASE UNCHANGED vars
  BY <1>h, <1>8 DEF vars, NoLeak, Recorded, getip
<1> QED
  BY <1>1, <1>2, <1>3, <1>4, <1>c, <1>6, <1>7, <1>8 DEF Next

\* Every address belongs to an instance that has a record, as long as nobody
\* removes one by force: a destroyed instance gives its address back.
THEOREM NothingLeaks == Spec => []NoLeak
<1>1. Init => NoLeak /\ Recorded
  BY Distinct DEF Init, NoLeak, Recorded
<1>2. TypeOK /\ NoLeak /\ Recorded /\ [Next]_vars => (NoLeak /\ Recorded)'
  BY LeakStep
<1>3. Spec => [](NoLeak /\ Recorded)
  BY <1>1, <1>2, TypeCorrect, PTL DEF Spec
<1> QED
  BY <1>3, PTL

-----------------------------------------------------------------------------
(* Two VMs, two addresses.                                                   *)

\* Nobody has moved or forced an instance away, or dropped a subnet.
Quiet == calls["move"] + calls["drop"] + calls["force"] = 0

NetsDiffer(S) == \A s, t \in S : net[s] = net[t] => s = t

\* A network is that of one listed subnet, also after a vpcPut that failed
\* and was made again: its first attempt left a subnet behind that nothing
\* lists.
NetsOnce == NetsDiffer(listed) /\ (put # None => NetsDiffer(put.subs))

\* A VM runs with a document of its own, in a subnet that stays listed.
AtHome ==
    Quiet =>
        /\ \A i \in Inst : move[i] = None
        /\ \A i \in Inst : conf[i] # None => owner[conf[i]] = i
        /\ \A a \in Addr : owner[a] # Absent => a[1] \in listed /\ Within(a[2], net[a[1]])
        /\ \A i \in Inst : pc[i] \in {"own", "claim", "insert"} => want[i] \in listed
        /\ put # None => put.drop = {} /\ listed \subseteq put.subs

\* Networks that have an address in common overlap, as the code tests it.
LEMMA CommonOverlaps ==
  ASSUME NEW m \in Nets, NEW n \in Nets, NEW k \in Int, Within(k, m), Within(k, n)
  PROVE  Overlap(m, n)
BY NetBounds DEF Within, Overlap, Hits

\* What vpcPut does, without its choices.
LEMMA PutVpcEffect ==
  ASSUME TypeOK, NetsOnce, PutVpc
  PROVE  /\ put' # None /\ NetsDiffer(put.subs)'
         /\ Quiet' => put'.drop = {} /\ listed \subseteq put'.subs
<1> PICK req \in SUBSET ({[id |-> s, net |-> net[s]] : s \in listed}
                          \cup {[id |-> None, net |-> n] : n \in Nets}) :
      /\ IF listed \subseteq Kept(req) THEN Call("add") ELSE Call("drop")
      /\ \E f \in [Fresh(req) -> {s \in Sub : net[s] = None}] :
              /\ \A m, n \in Fresh(req) : f[m] = f[n] => m = n
              /\ net' = [s \in Sub |->
                           IF \E n \in Fresh(req) : f[n] = s
                             THEN CHOOSE n \in Fresh(req) : f[n] = s ELSE net[s]]
              /\ put' = [subs |-> Kept(req) \cup Again(req) \cup {f[n] : n \in Fresh(req)},
                         drop |-> listed \ Kept(req)]
  BY DEF PutVpc
<1> PICK f \in [Fresh(req) -> {s \in Sub : net[s] = None}] :
      /\ \A m, n \in Fresh(req) : f[m] = f[n] => m = n
      /\ net' = [s \in Sub |->
                   IF \E n \in Fresh(req) : f[n] = s
                     THEN CHOOSE n \in Fresh(req) : f[n] = s ELSE net[s]]
      /\ put' = [subs |-> Kept(req) \cup Again(req) \cup {f[n] : n \in Fresh(req)},
                 drop |-> listed \ Kept(req)]
  OBVIOUS
<1>1. put' # None
  BY NetKept, Distinct DEF Puts, Made
<1>2. Kept(req) \subseteq listed /\ Again(req) \subseteq listed /\ listed \subseteq Sub
  <2>1. Kept(req) \subseteq listed /\ Again(req) \subseteq listed
    BY Distinct DEF Kept, Again
  <2> QED
    BY <2>1 DEF TypeOK, Made
<1>3. \A s \in listed : net[s] # None /\ net'[s] = net[s]
  BY <1>2, NetKept DEF TypeOK, Made
<1>4. \A n \in Fresh(req) : f[n] \in Sub /\ net'[f[n]] = n
  <2> TAKE n \in Fresh(req)
  <2>1. f[n] \in Sub
    OBVIOUS
  <2>2. \A m \in Fresh(req) : f[m] = f[n] <=> m = n
    OBVIOUS
  <2>3. (CHOOSE m \in Fresh(req) : f[m] = f[n]) = n
    BY <2>2
  <2> QED
    BY <2>1, <2>3
<1>5. \A n \in Fresh(req) : \A s \in listed : net[s] # n
  BY DEF Fresh
<1>6. NetsDiffer(put.subs)'
  <2> SUFFICES ASSUME NEW s \in put'.subs, NEW t \in put'.subs, net'[s] = net'[t]
               PROVE  s = t
    BY DEF NetsDiffer
  <2>1. /\ s \in listed \/ \E n \in Fresh(req) : s = f[n]
        /\ t \in listed \/ \E n \in Fresh(req) : t = f[n]
    BY <1>2
  <2>a. \A u, v \in listed : net[u] = net[v] => u = v
    BY DEF NetsOnce, NetsDiffer
  <2>2. CASE s \in listed /\ t \in listed
    <3>1. net[s] = net[t]
      BY <1>3, <2>2
    <3> QED
      BY <2>a, <2>2, <3>1
  <2>3. ASSUME s \in listed, NEW n \in Fresh(req), t = f[n] PROVE FALSE
    BY <1>3, <1>4, <1>5, <2>3
  <2>4. ASSUME t \in listed, NEW n \in Fresh(req), s = f[n] PROVE FALSE
    BY <1>3, <1>4, <1>5, <2>4
  <2>5. ASSUME NEW m \in Fresh(req), NEW n \in Fresh(req), s = f[m], t = f[n] PROVE s = t
    BY <1>4, <2>5
  <2> QED
    BY <2>1, <2>2, <2>3, <2>4, <2>5
<1>7. ASSUME Quiet' PROVE put'.drop = {} /\ listed \subseteq put'.subs
  <2>1. ~Call("drop")
    <3>1. /\ calls["drop"] \in Nat /\ calls'["move"] \in Nat /\ calls'["drop"] \in Nat
          /\ calls'["force"] \in Nat
      BY NetKept, CallsBound DEF TypeOK, AllCalls
    <3>2. Call("drop") => calls'["drop"] = calls["drop"] + 1
      BY DEF Call, TypeOK, AllCalls
    <3> QED
      BY <1>7, <3>1, <3>2 DEF Quiet
  <2>2. listed \subseteq Kept(req)
    BY <2>1
  <2> QED
    BY <2>2
<1> QED
  BY <1>1, <1>6, <1>7

LEMMA NetsOnceStep ==
  ASSUME TypeOK, NetsOnce, [Next]_vars
  PROVE  NetsOnce'
<1>1. CASE PutVpc
  <2>1. listed' = listed
    BY <1>1 DEF PutVpc
  <2>2. \A s \in listed : net'[s] = net[s]
    BY <1>1, NetKept DEF TypeOK, Made
  <2>3. NetsDiffer(listed)'
    BY <2>1, <2>2 DEF NetsOnce, NetsDiffer
  <2> QED
    BY <1>1, <2>3, PutVpcEffect DEF NetsOnce
<1>2. CASE PutCommit
  BY <1>2 DEF PutCommit, NetsOnce, NetsDiffer
<1>3. CASE PutFail
  BY <1>3 DEF PutFail, NetsOnce, NetsDiffer, vpc
<1>4. CASE RemoveSubnet
  <2>1. put'.subs = put.subs
    BY <1>4 DEF RemoveSubnet, TypeOK, Puts
  <2> QED
    BY <1>4, <2>1 DEF RemoveSubnet, NetsOnce, NetsDiffer, vpc
<1>5. CASE UNCHANGED <<vpc, put>>
  BY <1>5 DEF NetsOnce, NetsDiffer, vpc
<1> QED
  BY <1>1, <1>2, <1>3, <1>4, <1>5
     DEF Next, GetIp, Begin, ReadVpc, FindOwn, Claim, Insert, Retry, Full, Fail, Off,
         Remove, ForceRemove, Move, MoveCommit, vars

\* Calls are counted, never forgotten.
LEMMA QuietBefore ==
  ASSUME TypeOK, [Next]_vars, Quiet'
  PROVE  Quiet /\ \A i \in Inst : ~Move(i) /\ ~ForceRemove(i)
<1>1. /\ calls \in [AllCalls -> Nat]
      /\ {"move", "drop", "force", "add"} = AllCalls
  BY CallsBound DEF TypeOK, AllCalls
<1>2. ASSUME NEW c \in AllCalls, Call(c)
      PROVE  Quiet /\ c \notin {"move", "drop", "force"}
  BY <1>1, <1>2 DEF Call, Quiet
<1>3. UNCHANGED calls => Quiet
  BY DEF Quiet
<1>4. \A i \in Inst : ~Move(i) /\ ~ForceRemove(i)
  BY <1>1, <1>2 DEF Move, ForceRemove
<1>5. PutVpc => Quiet
  BY <1>1, <1>2 DEF PutVpc
<1> QED
  BY <1>3, <1>4, <1>5
     DEF Next, GetIp, Begin, ReadVpc, FindOwn, Claim, Insert, Retry, Full, Fail, Off,
         Remove, MoveCommit, RemoveSubnet, PutCommit, PutFail, vars

LEMMA AtHomeStep ==
  ASSUME TypeOK, NetsOnce, AtHome, [Next]_vars
  PROVE  AtHome'
<1> SUFFICES ASSUME Quiet' PROVE AtHome'
  BY DEF AtHome
<1>0. /\ owner \in [Addr -> Inst \cup {Free, Absent}]
      /\ conf \in [Inst -> Addr \cup {None}]
      /\ pc \in [Inst -> {"idle", "vpc", "own", "claim", "insert"}]
      /\ None \notin Addr
  <2>1. Addr \subseteq Sub \X Int
    BY IndexInt DEF Addr
  <2> QED
    BY <2>1, Distinct DEF TypeOK
<1>1. /\ \A i \in Inst : move[i] = None
      /\ \A i \in Inst : conf[i] # None => owner[conf[i]] = i
      /\ \A a \in Addr : owner[a] # Absent => a[1] \in listed /\ Within(a[2], net[a[1]])
      /\ \A i \in Inst : pc[i] \in {"own", "claim", "insert"} => want[i] \in listed
      /\ put # None => put.drop = {} /\ listed \subseteq put.subs
  BY QuietBefore DEF AtHome
<1>2. \A i \in Inst : ~Move(i) /\ ~ForceRemove(i)
  BY QuietBefore
<1>3. ASSUME NEW i \in Inst, Begin(i) \/ ReadVpc(i) \/ Retry(i) \/ Full(i) \/ Fail(i)
      PROVE  AtHome'
  <2>1. UNCHANGED <<owner, conf, vpc, put, move>>
    BY <1>3 DEF Begin, ReadVpc, Retry, Full, Fail
  <2>2. \A j \in Inst : pc'[j] \in {"own", "claim", "insert"} => want'[j] \in listed
    BY <1>0, <1>1, <1>3 DEF Begin, ReadVpc, Retry, Full, Fail, TypeOK
  <2> QED
    BY <1>1, <2>1, <2>2 DEF AtHome, vpc
<1>4. ASSUME NEW i \in Inst, FindOwn(i)
      PROVE  AtHome'
  <2>1. UNCHANGED <<owner, vpc, put, move, want>>
    BY <1>4 DEF FindOwn
  <2>2. \A j \in Inst : pc'[j] \in {"own", "claim", "insert"} =>
                          pc[j] \in {"own", "claim", "insert"}
    BY <1>0, <1>4 DEF FindOwn, Got
  <2>3. \A j \in Inst : conf'[j] # None => owner[conf'[j]] = j
    BY <1>0, <1>1, <1>4 DEF FindOwn, Got, Own
  <2> QED
    BY <1>1, <2>1, <2>2, <2>3 DEF AtHome, vpc
<1>5. ASSUME NEW i \in Inst, NEW a \in Addr, owner[a] \notin Inst,
             a[1] \in listed, Within(a[2], net[a[1]]),
             owner' = [owner EXCEPT ![a] = i], Got(i, a), UNCHANGED <<vpc, put, move, want>>
      PROVE  AtHome'
  <2>1. owner'[a] = i /\ \A b \in Addr : b # a => owner'[b] = owner[b]
    BY <1>0, <1>5
  <2>2. conf'[i] = a /\ \A j \in Inst : j # i => conf'[j] = conf[j]
    BY <1>0, <1>5 DEF Got
  <2>3. \A j \in Inst : pc'[j] \in {"own", "claim", "insert"} =>
                          pc[j] \in {"own", "claim", "insert"}
    BY <1>0, <1>5 DEF Got
  <2>4. \A j \in Inst : conf'[j] # None => owner'[conf'[j]] = j
    BY <1>0, <1>1, <1>5, <2>1, <2>2
  <2>5. \A b \in Addr : owner'[b] # Absent => b[1] \in listed /\ Within(b[2], net[b[1]])
    BY <1>1, <1>5, <2>1
  <2> QED
    BY <1>1, <1>5, <2>3, <2>4, <2>5 DEF AtHome, vpc
<1>6. ASSUME NEW i \in Inst, Claim(i)
      PROVE  AtHome'
  <2>1. CASE \E a \in FreeIn(want[i]) : /\ owner' = [owner EXCEPT ![a] = i]
                                        /\ Got(i, a)
    <3>1. PICK a \in FreeIn(want[i]) : owner' = [owner EXCEPT ![a] = i] /\ Got(i, a)
      BY <2>1
    <3>2. a \in Addr /\ owner[a] = Free
      BY DEF FreeIn
    <3>3. a[1] \in listed /\ Within(a[2], net[a[1]]) /\ owner[a] \notin Inst
      BY <1>1, <3>2, Distinct
    <3>4. UNCHANGED <<vpc, put, move, want>>
      BY <1>6 DEF Claim
    <3> QED
      BY <1>5, <3>1, <3>2, <3>3, <3>4
  <2>2. CASE pc' = [pc EXCEPT ![i] = "insert"] /\ UNCHANGED <<owner, conf>>
    <3>1. UNCHANGED <<vpc, put, move, want>> /\ pc[i] = "claim"
      BY <1>6 DEF Claim
    <3>2. \A j \in Inst : pc'[j] \in {"own", "claim", "insert"} => want'[j] \in listed
      BY <1>0, <1>1, <2>2, <3>1
    <3> QED
      BY <1>1, <2>2, <3>1, <3>2 DEF AtHome, vpc
  <2> QED
    BY <1>6, <2>1, <2>2 DEF Claim
<1>7. ASSUME NEW i \in Inst, Insert(i)
      PROVE  AtHome'
  <2>1. Tried(i) \in Addr /\ owner[Tried(i)] \notin Inst
    BY <1>7, TriedAddr, Distinct DEF Insert
  <2>2. want[i] \in listed
    BY <1>1, <1>7 DEF Insert
  <2>3. Tried(i)[1] = want[i] /\ Tried(i)[2] = cur[i]
    BY DEF Tried
  <2>4. net[want[i]] \in Nets
    BY <2>2, Distinct DEF TypeOK, Made
  <2>5. Within(cur[i], net[want[i]])
    BY <1>7, <2>4, NetBounds DEF Insert, TypeOK, Within
  <2>6. owner' = [owner EXCEPT ![Tried(i)] = i] /\ Got(i, Tried(i))
        /\ UNCHANGED <<vpc, put, move, want>>
    BY <1>7 DEF Insert
  <2> QED
    BY <1>5, <2>1, <2>2, <2>3, <2>5, <2>6
<1>8. ASSUME NEW i \in Inst, Off(i)
      PROVE  AtHome'
  BY <1>0, <1>1, <1>8 DEF Off, AtHome, vpc, getip
<1>9. ASSUME NEW i \in Inst, Remove(i)
      PROVE  AtHome'
  <2>1. \A a \in Addr : owner'[a] = IF owner[a] = i THEN Free ELSE owner[a]
    BY <1>9 DEF Remove, Released
  <2>2. conf[i] = None /\ UNCHANGED <<conf, vpc, getip, move, put>>
    BY <1>9 DEF Remove
  <2>3. \A j \in Inst : conf[j] # None => owner'[conf[j]] = j
    BY <1>0, <1>1, <2>1, <2>2
  <2> QED
    BY <1>1, <2>1, <2>2, <2>3, Distinct DEF AtHome, vpc, getip
<1>10. ASSUME NEW i \in Inst, MoveCommit(i)
       PROVE  AtHome'
  BY <1>1, <1>10 DEF MoveCommit
<1>11. CASE PutVpc
  <2>1. UNCHANGED <<listed, owner, getip, conf, move>>
    BY <1>11 DEF PutVpc
  <2>2. put'.drop = {} /\ listed \subseteq put'.subs
    BY <1>11, PutVpcEffect
  <2>3. \A s \in listed : net'[s] = net[s]
    BY <1>11, NetKept DEF TypeOK, Made
  <2> QED
    BY <1>1, <2>1, <2>2, <2>3 DEF AtHome, getip
<1>12. CASE RemoveSubnet
  BY <1>1, <1>12 DEF RemoveSubnet
<1>13. CASE PutCommit
  <2>1. listed \subseteq listed' /\ put' = None
    BY <1>1, <1>13 DEF PutCommit
  <2>2. UNCHANGED <<net, owner, getip, conf, move>>
    BY <1>13 DEF PutCommit
  <2> QED
    BY <1>1, <2>1, <2>2 DEF AtHome, getip
<1>14. CASE PutFail
  BY <1>1, <1>14 DEF PutFail, AtHome, vpc, getip
<1>15. CASE UNCHANGED vars
  BY <1>1, <1>15 DEF vars, AtHome, vpc, getip
<1> QED
  BY <1>2, <1>3, <1>4, <1>6, <1>7, <1>8, <1>9, <1>10, <1>11, <1>12, <1>13, <1>14, <1>15
     DEF Next, GetIp

LEMMA InitAtHome == Init => NetsOnce /\ AtHome
<1> SUFFICES ASSUME Init PROVE NetsOnce /\ AtHome
  OBVIOUS
<1>1. ASSUME NEW s \in listed, NEW t \in listed, net[s] = net[t] PROVE s = t
  <2>1. net[s] \in Nets
    BY DEF Init
  <2>2. Overlap(net[s], net[s])
    BY <2>1, NetBounds, CommonOverlaps, Blocks DEF First, Last, Overlap, Hits, Within
  <2> QED
    BY <1>1, <2>2 DEF Init
<1> QED
  BY <1>1 DEF Init, NetsOnce, NetsDiffer, AtHome

LEMMA HomeInvariance == Spec => [](TypeOK /\ NetsOnce /\ AtHome)
<1>1. Init => NetsOnce /\ AtHome
  BY InitAtHome
<1>2. TypeOK /\ NetsOnce /\ AtHome /\ [Next]_vars => (NetsOnce /\ AtHome)'
  BY NetsOnceStep, AtHomeStep
<1> QED
  BY <1>1, <1>2, TypeCorrect, PTL DEF Spec

\* Two VMs with one IP address have documents of two subnets, whose networks
\* then overlap.
LEMMA ExclusiveHere == TypeOK /\ NetsOnce /\ AtHome /\ NoOverlap => Exclusive
<1> SUFFICES ASSUME TypeOK, NetsOnce, AtHome, NoOverlap, Quiet,
                    NEW i \in Inst, NEW j \in Inst, i # j, conf[i] # None, conf[j] # None,
                    conf[i][2] = conf[j][2]
             PROVE  FALSE
  BY DEF Exclusive, Quiet
<1>1. conf[i] \in Addr /\ conf[j] \in Addr /\ owner[conf[i]] = i /\ owner[conf[j]] = j
  BY DEF TypeOK, AtHome
<1>2. /\ conf[i][1] \in listed /\ Within(conf[i][2], net[conf[i][1]])
      /\ conf[j][1] \in listed /\ Within(conf[j][2], net[conf[j][1]])
  BY <1>1, Distinct DEF AtHome
<1>3. conf[i][1] # conf[j][1]
  BY <1>1 DEF Addr
<1>4. net[conf[i][1]] \in Nets /\ net[conf[j][1]] \in Nets
  BY <1>2, Distinct DEF TypeOK, Made
<1>5. conf[i][2] \in Int
  BY <1>1, IndexInt DEF Addr
<1>6. Overlap(net[conf[i][1]], net[conf[j][1]])
  BY <1>2, <1>4, <1>5, CommonOverlaps
<1> QED
  BY <1>2, <1>3, <1>6 DEF NoOverlap

\* Two VMs that run never share an IP address while the subnets that are
\* listed do not overlap, whatever nodes that die, removals and vpcPuts that
\* fail half way come between the calls of their GetIps: NoOverlap, which
\* Validate is there for and does not give, is the only thing missing.
THEOREM ExclusiveUnlessOverlap == Spec => [](NoOverlap => Exclusive)
<1>1. TypeOK /\ NetsOnce /\ AtHome => (NoOverlap => Exclusive)
  BY ExclusiveHere
<1> QED
  BY <1>1, HomeInvariance, PTL

LEMMA ApartHere ==
  ASSUME \A m, n \in Nets : m # n => ~Overlap(m, n), TypeOK, NetsOnce
  PROVE  NoOverlap
<1> SUFFICES ASSUME NEW s \in listed, NEW t \in listed, s # t PROVE ~Overlap(net[s], net[t])
  BY DEF NoOverlap
<1>1. net[s] \in Nets /\ net[t] \in Nets
  BY DEF TypeOK, Made
<1>2. net[s] # net[t]
  BY DEF NetsOnce, NetsDiffer
<1> QED
  BY <1>1, <1>2

\* If the networks users give do not overlap, those of the VPC never do: one
\* network is not listed twice, also when a vpcPut that failed half way, and
\* left a subnet behind that nothing lists, is made again.
THEOREM ApartIfGivenApart ==
  ASSUME \A m, n \in Nets : m # n => ~Overlap(m, n)
  PROVE  Spec => []NoOverlap
<1>1. TypeOK /\ NetsOnce /\ AtHome => NoOverlap
  BY ApartHere
<1> QED
  BY <1>1, HomeInvariance, PTL

\* Then no two VMs that run share an IP address, as long as nobody moves or
\* forces one away from its address or drops its subnet.
THEOREM TwoVmsTwoAddresses ==
  ASSUME \A m, n \in Nets : m # n => ~Overlap(m, n)
  PROVE  Spec => []Exclusive
<1>1. TypeOK /\ NetsOnce /\ AtHome => Exclusive
  BY ApartHere, ExclusiveHere
<1> QED
  BY <1>1, HomeInvariance, PTL

-----------------------------------------------------------------------------
(* Enough for all.                                                           *)

Docs == {a \in Addr : owner[a] # Absent}

\* The documents of subnet s from index k on, and the GetIps that try to
\* make one there.
Occupied(s, k) == {a \in Docs : a[1] = s /\ a[2] >= k}
Seekers(s, k) == {i \in Inst : pc[i] = "insert" /\ want[i] = s /\ cur[i] >= k}

Load(s, k) == Cardinality(Occupied(s, k)) + Cardinality(Seekers(s, k))

\* The higher the index, the fewer instances reach it: each step to the next
\* one leaves a document behind.  A search starts when all documents of its
\* subnet are taken, by instances that do not search.
Spread ==
    /\ IsFiniteSet(Docs)
    /\ \A a \in Docs : a[1] \in Made
    /\ \A s \in Made, k \in Nat : First(net[s]) <= k =>
         \/ Load(s, k) = 0
         \/ Load(s, k) + k - First(net[s]) <= Cardinality(Inst)

LEMMA LoadFinite ==
  ASSUME IsFiniteSet(Docs), NEW s, NEW k
  PROVE  /\ IsFiniteSet(Occupied(s, k)) /\ Cardinality(Occupied(s, k)) \in Nat
         /\ IsFiniteSet(Seekers(s, k)) /\ Cardinality(Seekers(s, k)) \in Nat
         /\ Load(s, k) \in Nat
<1>1. Occupied(s, k) \in SUBSET Docs /\ Seekers(s, k) \in SUBSET Inst
  BY DEF Occupied, Seekers
<1>2. IsFiniteSet(Occupied(s, k)) /\ IsFiniteSet(Seekers(s, k))
  BY <1>1, FS_Subset, InstFinite
<1> QED
  BY <1>2, FS_CardinalityType DEF Load

\* A step that makes no document and moves no search on.
LEMMA SpreadFewer ==
  ASSUME TypeOK, Spread,
         Docs' \subseteq Docs,
         \A s \in Sub, k \in Nat : Seekers(s, k)' \subseteq Seekers(s, k),
         \A s \in Made : net'[s] = net[s]
  PROVE  Spread'
<1>1. IsFiniteSet(Docs')
  BY FS_Subset DEF Spread
<1>2. \A s \in Made : s \in Made'
  BY DEF Made
<1>3. \A a \in Docs' : a[1] \in Made'
  BY <1>2 DEF Spread
<1>4. ASSUME NEW s \in Made', NEW k \in Nat, First(net'[s]) <= k
      PROVE  \/ Load(s, k)' = 0
             \/ Load(s, k)' + k - First(net'[s]) <= Cardinality(Inst)
  <2>1. s \in Sub
    BY DEF Made
  <2>2. Occupied(s, k)' \in SUBSET Occupied(s, k) /\ Seekers(s, k)' \in SUBSET Seekers(s, k)
    BY <2>1 DEF Occupied
  <2>3. /\ Cardinality(Occupied(s, k)') <= Cardinality(Occupied(s, k))
        /\ Cardinality(Seekers(s, k)') <= Cardinality(Seekers(s, k))
        /\ Cardinality(Occupied(s, k)') \in Nat /\ Cardinality(Seekers(s, k)') \in Nat
    BY <2>2, LoadFinite, FS_Subset, FS_CardinalityType DEF Spread
  <2>4. CASE s \in Made
    <3>1. net'[s] = net[s]
      BY <2>4
    <3>2. First(net[s]) \in Int
      BY <2>4, NetBounds DEF Made, TypeOK
    <3>3. \/ Load(s, k) = 0
          \/ Load(s, k) + k - First(net[s]) <= Cardinality(Inst)
      BY <1>4, <2>4, <3>1 DEF Spread
    <3>4. Load(s, k)' <= Load(s, k) /\ Load(s, k)' \in Nat /\ Load(s, k) \in Nat
      BY <2>3, LoadFinite DEF Load, Spread
    <3>5. Cardinality(Inst) \in Nat
      BY InstFinite, FS_CardinalityType
    <3> QED
      BY <3>1, <3>2, <3>3, <3>4, <3>5
  <2>5. CASE s \notin Made
    <3>1. Occupied(s, k) = {}
      BY <2>5 DEF Occupied, Spread
    <3>2. Seekers(s, k) = {}
      BY <2>5 DEF Seekers, TypeOK
    <3>3. Occupied(s, k)' = {} /\ Seekers(s, k)' = {}
      BY <2>2, <3>1, <3>2
    <3> QED
      BY <3>3, FS_EmptySet DEF Load
  <2> QED
    BY <2>4, <2>5
<1> QED
  BY <1>1, <1>3, <1>4 DEF Spread

\* A search starts: the documents of its subnet, those who search there and
\* this instance are no more than there are instances.
LEMMA SpreadEnter ==
  ASSUME IInv, Spread, NEW i \in Inst, pc[i] = "claim", FreeIn(want[i]) = {},
         pc' = [pc EXCEPT ![i] = "insert"],
         cur' = [cur EXCEPT ![i] = First(net[want[i]])],
         UNCHANGED <<net, owner, want>>
  PROVE  Spread'
<1> DEFINE s == want[i]
           first == First(net[s])
           docs == {a \in Docs : a[1] = s}
           seek == {j \in Inst : pc[j] = "insert" /\ want[j] = s}
<1>0. TypeOK
  BY DEF IInv
<1>1. s \in Made /\ first \in Nat
  BY <1>0, NetBounds DEF TypeOK, Made
<1>2. Docs' = Docs /\ Made' = Made
  BY DEF Docs, Made
<1>3. \A a \in docs : owner[a] \in Inst
  BY <1>0 DEF Docs, FreeIn, TypeOK
<1>4. \A a, b \in docs : owner[a] = owner[b] => a = b
  BY <1>3 DEF IInv, OneAddress, Own, Docs
<1>5. \A a \in docs : owner[a] \notin seek /\ owner[a] # i
  BY <1>3 DEF IInv, Searching, Own, Docs
<1>6. IsFiniteSet(docs) /\ IsFiniteSet(seek)
  BY InstFinite, FS_Subset DEF Spread
<1>7. Cardinality(docs) + Cardinality(seek) + 1 <= Cardinality(Inst)
  <2> DEFINE rest == (Inst \ seek) \ {i}
             f == [a \in docs |-> owner[a]]
  <2>1. IsFiniteSet(Inst \ seek) /\ IsFiniteSet(rest)
    BY InstFinite, FS_Subset
  <2>2. f \in Injection(docs, rest)
    BY <1>3, <1>4, <1>5 DEF Injection, IsInjective
  <2>3. Cardinality(docs) <= Cardinality(rest)
    BY <2>1, <2>2, FS_Injection
  <2>4. i \in Inst \ seek
    OBVIOUS
  <2>5. Cardinality(rest) = Cardinality(Inst \ seek) - 1
    BY <2>1, <2>4, FS_RemoveElement
  <2>6. Cardinality(Inst \ seek) = Cardinality(Inst) - Cardinality(seek)
    <3>1. Cardinality((Inst \ seek) \cup seek) =
            Cardinality(Inst \ seek) + Cardinality(seek) - Cardinality((Inst \ seek) \cap seek)
      BY <1>6, <2>1, FS_Union
    <3>2. (Inst \ seek) \cup seek = Inst /\ (Inst \ seek) \cap seek = {}
      OBVIOUS
    <3>3. /\ Cardinality(Inst \ seek) \in Nat /\ Cardinality(seek) \in Nat
          /\ Cardinality(Inst) \in Nat
      BY <1>6, <2>1, InstFinite, FS_CardinalityType
    <3>4. Cardinality((Inst \ seek) \cap seek) = 0
      BY <3>2, FS_EmptySet
    <3>5. Cardinality(Inst) = Cardinality(Inst \ seek) + Cardinality(seek) - 0
      BY <3>1, <3>2, <3>4
    <3> HIDE DEF seek
    <3> QED
      BY <3>3, <3>5
  <2>7. /\ Cardinality(docs) \in Nat /\ Cardinality(rest) \in Nat
        /\ Cardinality(Inst \ seek) \in Nat /\ Cardinality(seek) \in Nat
        /\ Cardinality(Inst) \in Nat
    BY <1>6, <2>1, InstFinite, FS_CardinalityType
  <2> QED
    BY <2>3, <2>5, <2>6, <2>7
<1>8. ASSUME NEW t \in Made, NEW k \in Nat, First(net[t]) <= k
      PROVE  \/ Load(t, k)' = 0
             \/ Load(t, k)' + k - First(net[t]) <= Cardinality(Inst)
  <2>1. Occupied(t, k)' = Occupied(t, k)
    BY <1>2 DEF Occupied
  <2>2. CASE t # s \/ k > first
    <3>1. Seekers(t, k)' = Seekers(t, k)
      BY <1>0, <1>1, <2>2 DEF Seekers, TypeOK
    <3>2. Load(t, k)' = Load(t, k)
      BY <2>1, <3>1 DEF Load
    <3> QED
      BY <1>8, <3>2 DEF Spread
  <2>3. CASE t = s /\ k = first
    <3>1. Seekers(t, k)' \in SUBSET (seek \cup {i})
      BY <1>0, <2>3 DEF Seekers, TypeOK
    <3>2. Occupied(t, k) \in SUBSET docs
      BY <2>3 DEF Occupied
    <3>3. /\ IsFiniteSet(seek \cup {i})
          /\ Cardinality(seek \cup {i}) = Cardinality(seek) + 1
      BY <1>6, FS_AddElement
    <3>4. /\ Cardinality(Seekers(t, k)') <= Cardinality(seek) + 1
          /\ Cardinality(Occupied(t, k)) <= Cardinality(docs)
      BY <1>6, <3>1, <3>2, <3>3, FS_Subset
    <3>5. /\ Cardinality(Seekers(t, k)') \in Nat /\ Cardinality(Occupied(t, k)) \in Nat
          /\ Cardinality(docs) \in Nat /\ Cardinality(seek) \in Nat
          /\ Cardinality(Inst) \in Nat
      BY <1>6, <3>1, <3>2, <3>3, InstFinite, FS_Subset, FS_CardinalityType
    <3>6. Load(t, k)' <= Cardinality(Inst) /\ Load(t, k)' \in Nat
      BY <1>7, <2>1, <3>4, <3>5 DEF Load
    <3> QED
      BY <1>1, <2>3, <3>5, <3>6
  <2> QED
    BY <1>1, <1>8, <2>2, <2>3
<1> QED
  BY <1>2, <1>8 DEF Spread

\* A document is made where the search stands: it takes the search's place.
LEMMA SpreadInsert ==
  ASSUME TypeOK, Spread, NEW i \in Inst, Insert(i)
  PROVE  Spread'
<1> DEFINE d == Tried(i)
<1>1. /\ pc[i] = "insert" /\ owner[d] = Absent
      /\ owner' = [owner EXCEPT ![d] = i] /\ pc' = [pc EXCEPT ![i] = "idle"]
      /\ UNCHANGED <<net, want, cur>>
  BY DEF Insert, Got, vpc
<1>2. d \in Addr /\ d[1] = want[i] /\ d[2] = cur[i] /\ want[i] \in Made /\ cur[i] \in Nat
  BY TriedAddr DEF Insert, Tried, TypeOK
<1>3. d \notin Docs /\ Docs' = Docs \cup {d}
  BY <1>1, <1>2, Distinct DEF Docs, TypeOK
<1>4. Made' = Made
  BY <1>1 DEF Made
<1>5. IsFiniteSet(Docs')
  BY <1>3, FS_AddElement DEF Spread
<1>6. \A a \in Docs' : a[1] \in Made'
  BY <1>2, <1>3, <1>4 DEF Spread
<1>7. ASSUME NEW s \in Made, NEW k \in Nat PROVE Load(s, k)' = Load(s, k)
  <2>1. /\ IsFiniteSet(Occupied(s, k)) /\ IsFiniteSet(Seekers(s, k))
        /\ Cardinality(Occupied(s, k)) \in Nat /\ Cardinality(Seekers(s, k)) \in Nat
    BY LoadFinite DEF Spread
  <2>2. CASE want[i] = s /\ cur[i] >= k
    <3>1. d \notin Occupied(s, k) /\ Occupied(s, k)' = Occupied(s, k) \cup {d}
      BY <1>2, <1>3, <2>2 DEF Occupied
    <3>2. i \in Seekers(s, k) /\ Seekers(s, k)' = Seekers(s, k) \ {i}
      BY <1>1, <2>2 DEF Seekers, TypeOK
    <3>3. Cardinality(Occupied(s, k)') = Cardinality(Occupied(s, k)) + 1
      BY <2>1, <3>1, FS_AddElement
    <3>4. Cardinality(Seekers(s, k)') = Cardinality(Seekers(s, k)) - 1
      BY <2>1, <3>2, FS_RemoveElement
    <3> QED
      BY <2>1, <3>3, <3>4 DEF Load
  <2>3. CASE ~(want[i] = s /\ cur[i] >= k)
    <3>1. Occupied(s, k)' = Occupied(s, k)
      BY <1>2, <1>3, <2>3 DEF Occupied
    <3>2. Seekers(s, k)' = Seekers(s, k)
      BY <1>1, <2>3 DEF Seekers, TypeOK
    <3> QED
      BY <3>1, <3>2 DEF Load
  <2> QED
    BY <2>2, <2>3
<1> QED
  BY <1>1, <1>4, <1>5, <1>6, <1>7 DEF Spread

\* A search goes on to the next index, and leaves a document behind.
LEMMA SpreadRetry ==
  ASSUME TypeOK, Spread, NEW i \in Inst, Retry(i)
  PROVE  Spread'
<1> DEFINE d == Tried(i)
           s == want[i]
           c == cur[i]
<1>1. /\ pc[i] = "insert" /\ owner[d] # Absent
      /\ cur' = [cur EXCEPT ![i] = c + 1]
      /\ UNCHANGED <<net, owner, pc, want>>
  BY DEF Retry, vpc
<1>2. d \in Addr /\ d[1] = s /\ d[2] = c /\ s \in Made /\ c \in Nat
  BY TriedAddr DEF Retry, Tried, TypeOK
<1>3. d \in Docs /\ Docs' = Docs /\ Made' = Made
  BY <1>1, <1>2 DEF Docs, Made
<1>4. First(net[s]) \in Nat /\ First(net[s]) <= c
  BY <1>1, <1>2, NetBounds DEF TypeOK, Made
<1>5. ASSUME NEW t \in Made, NEW k \in Nat, First(net[t]) <= k
      PROVE  \/ Load(t, k)' = 0
             \/ Load(t, k)' + k - First(net[t]) <= Cardinality(Inst)
  <2>1. Occupied(t, k)' = Occupied(t, k)
    BY <1>3 DEF Occupied
  <2>2. CASE ~(t = s /\ k = c + 1)
    <3>1. Seekers(t, k)' = Seekers(t, k)
      BY <1>1, <1>2, <2>2 DEF Seekers, TypeOK
    <3>2. Load(t, k)' = Load(t, k)
      BY <2>1, <3>1 DEF Load
    <3> QED
      BY <1>5, <3>2 DEF Spread
  <2>3. CASE t = s /\ k = c + 1
    <3>1. Occupied(t, k) \in SUBSET (Occupied(s, c) \ {d}) /\ d \in Occupied(s, c)
      <4>1. k > c /\ d \in Docs
        BY <1>2, <1>3, <2>3
      <4>2. d \in Occupied(s, c)
        BY <1>2, <4>1 DEF Occupied
      <4>3. ASSUME NEW a \in Occupied(t, k) PROVE a \in Occupied(s, c) \ {d}
        <5>1. a \in Docs /\ a[1] = s /\ a[2] >= k
          BY <2>3 DEF Occupied
        <5>2. a[2] \in Int
          BY <5>1, IndexInt DEF Docs, Addr
        <5>3. a # d /\ a[2] >= c
          BY <1>2, <4>1, <5>1, <5>2, <2>3
        <5> QED
          BY <5>1, <5>3 DEF Occupied
      <4> QED
        BY <4>2, <4>3
    <3>2. Seekers(t, k)' \in SUBSET Seekers(s, c) /\ i \in Seekers(s, c)
      <4>1. i \in Seekers(s, c)
        BY <1>1, <1>2 DEF Seekers
      <4>2. ASSUME NEW j \in Seekers(t, k)' PROVE j \in Seekers(s, c)
        <5>1. j \in Inst /\ pc[j] = "insert" /\ want[j] = s /\ cur'[j] >= c + 1
          BY <1>1, <2>3, <4>2 DEF Seekers
        <5>2. CASE j = i
          BY <4>1, <5>2
        <5>3. CASE j # i
          <6>1. cur'[j] = cur[j] /\ cur[j] \in Nat
            BY <1>1, <5>1, <5>3 DEF TypeOK
          <6> QED
            BY <1>2, <5>1, <6>1 DEF Seekers
        <5> QED
          BY <5>2, <5>3
      <4> QED
        BY <4>1, <4>2
    <3>3. /\ IsFiniteSet(Occupied(s, c)) /\ IsFiniteSet(Seekers(s, c))
          /\ Cardinality(Occupied(s, c)) \in Nat /\ Cardinality(Seekers(s, c)) \in Nat
          /\ Cardinality(Occupied(t, k)) \in Nat
      BY LoadFinite DEF Spread
    <3>4. Cardinality(Occupied(t, k)) <= Cardinality(Occupied(s, c)) - 1
      <4>1. /\ IsFiniteSet(Occupied(s, c) \ {d})
            /\ Cardinality(Occupied(s, c) \ {d}) = Cardinality(Occupied(s, c)) - 1
        BY <3>1, <3>3, FS_RemoveElement
      <4>2. Cardinality(Occupied(t, k)) <= Cardinality(Occupied(s, c) \ {d})
        BY <3>1, <4>1, FS_Subset
      <4> QED
        BY <4>1, <4>2
    <3>5. /\ Cardinality(Seekers(t, k)') <= Cardinality(Seekers(s, c))
          /\ Cardinality(Seekers(t, k)') \in Nat
      BY <3>2, <3>3, FS_Subset, FS_CardinalityType
    <3>6. Cardinality(Seekers(s, c)) # 0
      BY <3>2, <3>3, FS_EmptySet
    <3>7. Load(s, c) + c - First(net[s]) <= Cardinality(Inst)
      BY <1>2, <1>4, <3>3, <3>6 DEF Spread, Load
    <3>8. Load(t, k)' <= Load(s, c) - 1 /\ Load(t, k)' \in Nat /\ Load(s, c) \in Nat
      <4>1. Load(t, k)' = Cardinality(Occupied(t, k)) + Cardinality(Seekers(t, k)')
        BY <2>1 DEF Load
      <4>2. Load(s, c) = Cardinality(Occupied(s, c)) + Cardinality(Seekers(s, c))
        BY DEF Load
      <4> QED
        BY <3>3, <3>4, <3>5, <4>1, <4>2
    <3>9. Cardinality(Inst) \in Nat
      BY InstFinite, FS_CardinalityType
    <3> QED
      BY <1>2, <1>4, <2>3, <3>7, <3>8, <3>9
  <2> QED
    BY <2>2, <2>3
<1> QED
  BY <1>1, <1>3, <1>5 DEF Spread

LEMMA InitSpread == Init => Spread
<1> SUFFICES ASSUME Init PROVE Spread
  OBVIOUS
<1>1. Docs = {}
  BY DEF Init, Docs
<1>2. \A s, k : Occupied(s, k) = {} /\ Seekers(s, k) = {}
  BY <1>1 DEF Init, Occupied, Seekers
<1>3. \A s, k : Load(s, k) = 0
  BY <1>2, FS_EmptySet DEF Load
<1> QED
  BY <1>1, <1>3, FS_EmptySet DEF Spread

LEMMA SpreadStep ==
  ASSUME IInv, Spread, [Next]_vars
  PROVE  Spread'
<1>0. TypeOK
  BY DEF IInv
<1>1. ASSUME Docs' \subseteq Docs, UNCHANGED <<net, pc, want, cur>> PROVE Spread'
  <2>1. \A s \in Sub, k \in Nat : Seekers(s, k)' \subseteq Seekers(s, k)
    BY <1>1 DEF Seekers
  <2> QED
    BY <1>0, <1>1, <2>1, SpreadFewer
<1>2. ASSUME NEW i \in Inst,
             Begin(i) \/ ReadVpc(i) \/ FindOwn(i) \/ Full(i) \/ Fail(i)
      PROVE  Spread'
  <2>1. UNCHANGED <<net, owner, cur>>
    BY <1>2 DEF Begin, ReadVpc, FindOwn, Full, Fail, vpc
  <2>2. \A j \in Inst : pc'[j] = "insert" => pc[j] = "insert" /\ want'[j] = want[j]
    BY <1>0, <1>2 DEF Begin, ReadVpc, FindOwn, Got, Full, Fail, TypeOK
  <2>3. \A s \in Sub, k \in Nat : Seekers(s, k)' \subseteq Seekers(s, k)
    BY <2>1, <2>2 DEF Seekers
  <2>4. Docs' = Docs
    BY <2>1 DEF Docs
  <2> QED
    BY <1>0, <2>1, <2>3, <2>4, SpreadFewer
<1>3. ASSUME NEW i \in Inst, Claim(i) PROVE Spread'
  <2>1. CASE \E a \in FreeIn(want[i]) : /\ owner' = [owner EXCEPT ![a] = i]
                                        /\ Got(i, a)
                                        /\ UNCHANGED cur
    <3>1. PICK a \in FreeIn(want[i]) : /\ owner' = [owner EXCEPT ![a] = i]
                                       /\ Got(i, a)
                                       /\ UNCHANGED cur
      BY <2>1
    <3>2. a \in Addr /\ owner[a] # Absent
      BY Distinct DEF FreeIn
    <3>3. Docs' \subseteq Docs
      BY <1>0, <3>1, <3>2 DEF Docs, TypeOK
    <3>4. UNCHANGED <<net, want>> /\ pc' = [pc EXCEPT ![i] = "idle"]
      BY <1>3, <3>1 DEF Claim, Got, vpc
    <3>5. \A s \in Sub, k \in Nat : Seekers(s, k)' \subseteq Seekers(s, k)
      BY <1>0, <3>1, <3>4 DEF Seekers, TypeOK
    <3> QED
      BY <1>0, <3>3, <3>4, <3>5, SpreadFewer
  <2>2. CASE /\ FreeIn(want[i]) = {}
             /\ pc' = [pc EXCEPT ![i] = "insert"]
             /\ cur' = [cur EXCEPT ![i] = First(net[want[i]])]
             /\ UNCHANGED <<owner, conf>>
    BY <1>3, <2>2, SpreadEnter DEF Claim, vpc
  <2> QED
    BY <1>3, <2>1, <2>2 DEF Claim
<1>4. ASSUME NEW i \in Inst, Insert(i) \/ Retry(i) PROVE Spread'
  BY <1>0, <1>4, SpreadInsert, SpreadRetry
<1>5. ASSUME NEW i \in Inst, Off(i) \/ MoveCommit(i) PROVE Spread'
  BY <1>1, <1>5 DEF Off, MoveCommit, Docs, vpc, getip
<1>6. ASSUME NEW i \in Inst, Remove(i) \/ ForceRemove(i) \/ Move(i) PROVE Spread'
  <2>1. owner' = Released(i) /\ UNCHANGED <<net, pc, want, cur>>
    BY <1>6 DEF Remove, ForceRemove, Move, vpc, getip
  <2>2. Docs' \subseteq Docs
    BY <1>6, <2>1, Distinct DEF Docs, Released
  <2> QED
    BY <1>1, <2>1, <2>2
<1>7. CASE PutVpc
  <2>1. UNCHANGED <<owner, pc, want, cur>>
    BY <1>7 DEF PutVpc, getip
  <2>2. \A s \in Made : net'[s] = net[s]
    BY <1>0, <1>7, NetKept DEF Made
  <2>3. Docs' = Docs /\ \A s \in Sub, k \in Nat : Seekers(s, k)' = Seekers(s, k)
    BY <2>1 DEF Docs, Seekers
  <2> QED
    BY <1>0, <2>2, <2>3, SpreadFewer
<1>8. CASE RemoveSubnet
  <2>1. PICK s \in put.drop :
          owner' = [a \in Addr |-> IF a[1] = s THEN Absent ELSE owner[a]]
    BY <1>8 DEF RemoveSubnet
  <2>2. Docs' \subseteq Docs
    BY <2>1 DEF Docs
  <2> QED
    BY <1>1, <1>8, <2>2 DEF RemoveSubnet, vpc, getip
<1>9. CASE PutCommit \/ PutFail
  BY <1>1, <1>9 DEF PutCommit, PutFail, Docs, vpc, getip
<1>10. CASE UNCHANGED vars
  BY <1>1, <1>10 DEF vars, Docs, vpc, getip
<1> QED
  BY <1>2, <1>3, <1>4, <1>5, <1>6, <1>7, <1>8, <1>9, <1>10 DEF Next, GetIp

\* The documents and the searches of a subnet are spread over its addresses.
THEOREM Spreading == Spec => [](IInv /\ Spread)
<1>1. IInv /\ Spread /\ [Next]_vars => Spread'
  BY SpreadStep
<1> QED
  BY <1>1, InitSpread, Invariance, PTL DEF Spec

\* A GetIp that gives up on a full pool is right: there are more instances
\* than the subnet has addresses, however often they were moved, removed and
\* booted again, and whatever other nodes did between its inserts.
THEOREM FullIsFull == Spec => []EnoughForAll
<1>1. ASSUME IInv, Spread, NEW i \in Inst, pc[i] = "insert", cur[i] > Last(net[want[i]])
      PROVE  Cardinality(Inst) > Last(net[want[i]]) - First(net[want[i]]) + 1
  <2> DEFINE s == want[i]
  <2>1. s \in Made /\ net[s] \in Nets /\ cur[i] \in Nat
    BY <1>1 DEF IInv, TypeOK, Made
  <2>2. /\ First(net[s]) \in Nat /\ Last(net[s]) \in Int
        /\ First(net[s]) <= cur[i] /\ cur[i] = Last(net[s]) + 1
    BY <1>1, <2>1, NetBounds DEF IInv, TypeOK
  <2>3. i \in Seekers(s, cur[i])
    BY <1>1, <2>1 DEF Seekers
  <2>4. Load(s, cur[i]) \in Nat /\ Load(s, cur[i]) # 0
    <3>1. /\ IsFiniteSet(Seekers(s, cur[i])) /\ Cardinality(Seekers(s, cur[i])) \in Nat
          /\ Cardinality(Occupied(s, cur[i])) \in Nat
      BY <1>1, LoadFinite DEF Spread
    <3>2. Cardinality(Seekers(s, cur[i])) # 0
      BY <2>3, <3>1, FS_EmptySet
    <3> QED
      BY <3>1, <3>2 DEF Load
  <2>5. Load(s, cur[i]) + cur[i] - First(net[s]) <= Cardinality(Inst)
    BY <1>1, <2>1, <2>2, <2>4 DEF Spread
  <2>6. Cardinality(Inst) \in Nat
    BY InstFinite, FS_CardinalityType
  <2> QED
    BY <2>2, <2>4, <2>5, <2>6
<1>2. IInv /\ Spread => EnoughForAll
  BY <1>1 DEF EnoughForAll
<1> QED
  BY <1>2, Spreading, PTL

=============================================================================
