--------------------------- MODULE ConsoleFormProofs ---------------------------
(***************************************************************************)
(* Theorems about ConsoleForm, for every form, every set of fields and     *)
(* every number of values, requests and timeouts: what holds of any user   *)
(* and any order of answers, then what an edit was based on, what Cancel   *)
(* takes back, and what is said to be saved.                               *)
(***************************************************************************)
EXTENDS ConsoleForm, SequenceTheorems, TLAPS

Request ==
    [what : {"save", "create", "delete", "act", "test", "operate"},
     rec : Moments \cup {None}, began : Moments \cup {None},
     mine : BOOLEAN, served : BOOLEAN,
     answer : {"none", "ok", "err", "lost", "auth"}]

\* What a form shows is there: a copy of its own is never given up, and a
\* form in which something can be done has a record.
Shape ==
    /\ writes \in Seq(Request)
    /\ \A i \in Sent : writes[i].what \in {"save", "create"} => writes[i].rec # None
    /\ OwnCopy => copy # None /\ props # None
    /\ ~locked => props # None
    /\ timers["drop"] + timers["both"] > 0 => ~OwnCopy
    /\ timers["again"] > 0 => OwnCopy
    /\ news => OwnCopy
    /\ 0 \in stored

\* A timeout that will enable the form is the only one, and while it runs the
\* form has no request in flight.
Waiting ==
    ~form.enter =>
      /\ timers["again"] + timers["enable"] <= 1
      /\ timers["again"] + timers["enable"] > 0
           => disabled /\ \A i \in Sent : ~writes[i].mine

IInv == TypeOK /\ Shape /\ OneWrite /\ Waiting

LEMMA NoneIsNoRecord == TypeOK => None \notin Moments
<1> SUFFICES ASSUME TypeOK, None \in Moments PROVE FALSE
  OBVIOUS
<1>1. 0..MaxMoment \subseteq Nat
  BY ConstantsAssumption
<1>2. None \in [Inputs -> Nat]
  BY <1>1 DEF Moments
<1> QED
  BY <1>2, FormsAssumption DEF TypeOK, Inputs

LEMMA FormStays ==
  ASSUME [Next]_vars
  PROVE  /\ form' = form /\ Inputs' = Inputs /\ Moments' = Moments
         /\ OwnCopy' = OwnCopy /\ Request' = Request
<1>1. form' = form
  BY DEF Next, Edit, Save, SaveNothing, Delete, Act, Cancel, Leave, Drop, Unmount,
         Other, Refresh, Return, OnChange, Serve, Resolve, Reject, Forget, Fire, vars
<1> QED
  BY <1>1 DEF Inputs, Moments, OwnCopy, Request

LEMMA InitIInv == Init => IInv
<1> SUFFICES ASSUME Init PROVE IInv
  OBVIOUS
<1>1. form \in Forms /\ srv = Unset /\ Unset \in Moments /\ 0 \in 0..MaxMoment
  BY ConstantsAssumption DEF Init, Moments, Unset
<1>2. None \notin Moments
  <2>1. 0..MaxMoment \subseteq Nat
    BY ConstantsAssumption
  <2>2. None \notin [Inputs -> Nat]
    BY <1>1, FormsAssumption DEF Inputs
  <2> QED
    BY <2>1, <2>2 DEF Moments
<1>3. writes = <<>> /\ Len(writes) = 0 /\ Sent = {}
  BY DEF Init, Sent
<1>4. timers \in [TimerKinds -> 0..MaxTimers]
  BY ConstantsAssumption DEF Init, NoTimers
<1>5. TypeOK
  <2>1. /\ srv \in Moments \cup {None} /\ props \in Moments \cup {None}
        /\ copy \in Moments \cup {None} /\ ~changed
        /\ wanted \in Moments /\ seen \in Moments
    BY <1>1 DEF Init
  <2>2. moment \in 0..MaxMoment /\ Len(writes) <= MaxWrites
    BY <1>1, <1>3, ConstantsAssumption DEF Init
  <2>3. discarded \subseteq 1..MaxMoment /\ stored \subseteq 0..MaxMoment
    BY <1>1 DEF Init
  <2> QED
    BY <1>1, <1>4, <2>1, <2>2, <2>3 DEF Init, TypeOK
<1>6. \A k \in TimerKinds : timers[k] = 0
  BY DEF Init, NoTimers
<1>7. Shape
  BY <1>1, <1>2, <1>3, <1>6 DEF Init, Shape, TimerKinds
<1>8. OneWrite /\ Waiting
  BY <1>3, <1>6 DEF OneWrite, Waiting, TimerKinds
<1> QED
  BY <1>5, <1>7, <1>8 DEF IInv
-----------------------------------------------------------------------------
(* The requests.                                                           *)

LEMMA AppendRequest ==
  ASSUME TypeOK, Shape, NEW what, NEW rec \in Moments \cup {None},
         NEW began \in Moments \cup {None}, Send(what, rec, began),
         what \in {"save", "create", "delete", "act", "test", "operate"},
         what \in {"save", "create"} => rec # None
  PROVE  /\ writes' \in Seq(Request) /\ Len(writes') <= MaxWrites
         /\ Len(writes') = Len(writes) + 1
         /\ \A i \in Sent : writes'[i] = writes[i]
         /\ \A i \in Sent' : writes'[i].what \in {"save", "create"} => writes'[i].rec # None
         /\ \A i \in Sent' : i \in Sent \/ i = Len(writes')
<1> DEFINE w == [what |-> what, rec |-> rec, began |-> began, mine |-> TRUE,
                 served |-> FALSE, answer |-> "none"]
<1>1. w \in Request /\ (w.what \in {"save", "create"} => w.rec # None)
  BY DEF Request
<1>2. writes' = Append(writes, w) /\ Len(writes) < MaxWrites
  BY DEF Send
<1> HIDE DEF w
<1>3. writes' \in Seq(Request) /\ Len(writes') = Len(writes) + 1 /\ Len(writes) \in Nat
  BY <1>1, <1>2 DEF Shape
<1>4. \A i \in 1..Len(writes) : writes'[i] = writes[i]
  BY <1>2 DEF Shape
<1>5. writes'[Len(writes')] = w
  BY <1>1, <1>2, <1>3 DEF Shape
<1>6. \A i \in 1..Len(writes') : i \in 1..Len(writes) \/ i = Len(writes')
  BY <1>3
<1> QED
  BY <1>1, <1>2, <1>3, <1>4, <1>5, <1>6, ConstantsAssumption DEF Sent, Shape

LEMMA RemovedAt ==
  ASSUME Shape, NEW i \in Sent, Done(i)
  PROVE  /\ writes' \in Seq(Request) /\ Len(writes') = Len(writes) - 1
         /\ Len(writes) \in Nat /\ i \in 1..Len(writes)
         /\ \A j \in 1..Len(writes) - 1 :
              writes'[j] = IF j < i THEN writes[j] ELSE writes[j + 1]
<1> DEFINE a == SubSeq(writes, 1, i - 1)
           b == SubSeq(writes, i + 1, Len(writes))
<1>1. Len(writes) \in Nat /\ i \in 1..Len(writes)
  BY DEF Shape, Sent
<1>2. /\ a \in Seq(Request) /\ Len(a) = i - 1
      /\ \A j \in 1..i - 1 : a[j] = writes[j]
  BY <1>1 DEF Shape
<1>3. /\ b \in Seq(Request) /\ Len(b) = Len(writes) - i
      /\ \A j \in 1..Len(writes) - i : b[j] = writes[i + j]
  BY <1>1 DEF Shape
<1>4. writes' = a \o b
  BY DEF Done
<1> HIDE DEF a, b
<1>5. writes' \in Seq(Request) /\ Len(writes') = Len(writes) - 1
  <2>1. writes' \in Seq(Request) /\ Len(writes') = Len(a) + Len(b)
    BY <1>2, <1>3, <1>4, ConcatProperties
  <2>2. Len(a) = i - 1 /\ Len(b) = Len(writes) - i
    BY <1>2, <1>3
  <2>3. (i - 1) + (Len(writes) - i) = Len(writes) - 1
    BY <1>1
  <2> QED
    BY <2>1, <2>2, <2>3
<1>6. \A j \in 1..Len(writes) - 1 :
        writes'[j] = IF j < i THEN writes[j] ELSE writes[j + 1]
  <2> SUFFICES ASSUME NEW j \in 1..Len(writes) - 1
               PROVE  writes'[j] = IF j < i THEN writes[j] ELSE writes[j + 1]
    OBVIOUS
  <2>1. CASE j < i
    <3>1. j \in 1..i - 1
      BY <1>1, <2>1
    <3>2. writes'[j] = a[j]
      BY <1>2, <1>3, <1>4, <3>1
    <3> QED
      BY <1>2, <2>1, <3>1, <3>2
  <2>2. CASE j >= i
    <3>1. writes'[j] = b[j - (i - 1)] /\ j - (i - 1) \in 1..Len(writes) - i
      BY <1>1, <1>2, <1>3, <1>4, <2>2
    <3>2. i + (j - (i - 1)) = j + 1
      BY <1>1
    <3> QED
      BY <1>1, <1>3, <2>2, <3>1, <3>2
  <2> QED
    BY <1>1, <2>1, <2>2
<1> QED
  BY <1>1, <1>5, <1>6

LEMMA Removed ==
  ASSUME Shape, NEW i \in Sent, Done(i)
  PROVE  /\ writes' \in Seq(Request) /\ Len(writes') = Len(writes) - 1
         /\ \A j \in Sent' : \E k \in Sent \ {i} : writes'[j] = writes[k]
         /\ \A j, k \in Sent' : j # k =>
              \E l, m \in Sent \ {i} : l # m /\ writes'[j] = writes[l] /\ writes'[k] = writes[m]
<1> DEFINE at(j) == IF j < i THEN j ELSE j + 1
<1>1. /\ writes' \in Seq(Request) /\ Len(writes') = Len(writes) - 1
      /\ Len(writes) \in Nat /\ i \in 1..Len(writes)
      /\ \A j \in 1..Len(writes) - 1 :
           writes'[j] = IF j < i THEN writes[j] ELSE writes[j + 1]
  BY RemovedAt
<1>2. \A j \in Sent' : at(j) \in Sent \ {i} /\ writes'[j] = writes[at(j)]
  BY <1>1 DEF Sent
<1>3. \A j, k \in Sent' : j # k => at(j) # at(k)
  BY <1>1 DEF Sent
<1> HIDE DEF at
<1> QED
  BY <1>1, <1>2, <1>3
-----------------------------------------------------------------------------
(* The steps.                                                              *)

\* A step that neither sends nor answers leaves the requests as they were.
LEMMA QuietRequests ==
  ASSUME IInv, [Next]_vars, UNCHANGED <<writes, timers>>,
         disabled /\ ~form.enter => disabled'
  PROVE  /\ writes' \in Seq(Request)' /\ Len(writes') <= MaxWrites
         /\ \A i \in Sent' : writes'[i].what \in {"save", "create"} => writes'[i].rec # None
         /\ OneWrite' /\ Waiting'
<1>1. Sent' = Sent /\ Request' = Request /\ form' = form
  BY FormStays DEF Sent
<1> QED
  BY <1>1 DEF IInv, TypeOK, Shape, OneWrite, Waiting

LEMMA EditIInv ==
  ASSUME IInv, [Next]_vars, NEW f \in Inputs, Edit(f)
  PROVE  IInv'
<1> DEFINE B == Base
<1>1. None \notin Moments
  BY NoneIsNoRecord DEF IInv
<1>2. B \in Moments /\ props \in Moments
  BY <1>1 DEF Base, Edit, IInv, TypeOK, Shape
<1>3. (IF OwnCopy THEN copy ELSE props) \in Moments
  BY <1>1 DEF Edit, IInv, TypeOK, Shape
<1>4. moment' = moment + 1 /\ moment' \in 0..MaxMoment
  BY ConstantsAssumption DEF Edit, IInv, TypeOK
<1> HIDE DEF B
<1>5. ASSUME NEW r \in Moments
      PROVE  [r EXCEPT ![f] = moment'] \in Moments
  BY <1>4, <1>5 DEF Moments
<1>6. copy' \in Moments
  BY <1>2, <1>5 DEF Edit, B
<1>7. props' \in Moments
  BY <1>2, <1>5 DEF Edit
<1>8. wanted' \in Moments /\ seen' \in Moments
  BY <1>3, <1>5 DEF Edit, IInv, TypeOK
<1>9. changed' \in BOOLEAN /\ message' \in {"none", "saved", "created", "discarded", "deleted"}
  BY DEF Edit, IInv, TypeOK
<1>10. UNCHANGED <<form, srv, stored, news, discarded, disabled, locked, timers, writes>>
  BY DEF Edit
<1>11. /\ writes' \in Seq(Request)' /\ Len(writes') <= MaxWrites
       /\ \A i \in Sent' : writes'[i].what \in {"save", "create"} => writes'[i].rec # None
       /\ OneWrite' /\ Waiting'
  BY <1>10, QuietRequests
<1>12. TypeOK'
  BY <1>1, <1>4, <1>6, <1>7, <1>8, <1>9, <1>10, <1>11, FormStays DEF IInv, TypeOK
<1>13. Shape'
  BY <1>1, <1>6, <1>7, <1>10, <1>11, FormStays DEF IInv, Shape
<1> QED
  BY <1>11, <1>12, <1>13 DEF IInv

\* The buttons find the form enabled, and so nothing in flight and no timeout
\* that enables it.
LEMMA SendIInv ==
  ASSUME IInv, [Next]_vars, NEW what, NEW rec \in Moments \cup {None},
         NEW began \in Moments \cup {None}, Send(what, rec, began), Busy,
         what \in {"save", "create", "delete", "act", "test", "operate"},
         what \in {"save", "create"} => rec # None,
         disabled => form.enter, UNCHANGED <<form, record, shown, edit, message, locked, timers>>
  PROVE  IInv'
<1>0. TypeOK /\ Shape
  BY DEF IInv
<1>1. /\ writes' \in Seq(Request) /\ Len(writes') <= MaxWrites
      /\ Len(writes') = Len(writes) + 1
      /\ \A i \in Sent : writes'[i] = writes[i]
      /\ \A i \in Sent' : writes'[i].what \in {"save", "create"} => writes'[i].rec # None
      /\ \A i \in Sent' : i \in Sent \/ i = Len(writes')
  BY <1>0, AppendRequest
<1>2. ~form.enter => \A i \in Sent : ~writes[i].mine
  BY DEF IInv, OneWrite
<1>3. disabled' /\ form' = form
  BY DEF Busy
<1>4. OneWrite'
  BY <1>1, <1>2, <1>3 DEF OneWrite
<1>5. ~form.enter => timers["again"] + timers["enable"] <= 0
  BY DEF IInv, Waiting, TypeOK, TimerKinds
<1>6. Waiting'
  BY <1>3, <1>5 DEF Waiting, IInv, TypeOK, TimerKinds
<1>7. TypeOK'
  BY <1>1, <1>3, FormStays DEF IInv, TypeOK, record, shown, edit, Busy
<1>8. Shape'
  BY <1>1, FormStays DEF IInv, Shape, record, shown, edit
<1> QED
  BY <1>4, <1>6, <1>7, <1>8 DEF IInv

LEMMA ButtonIInv ==
  ASSUME IInv, [Next]_vars, Save \/ Delete \/ Act
  PROVE  IInv'
<1>1. None \notin Moments
  BY NoneIsNoRecord DEF IInv
<1>2. CASE Save
  <2>1. copy # None /\ copy \in Moments /\ seen \in Moments
    BY <1>2 DEF Save, Pressed, IInv, TypeOK
  <2>2. PICK what \in {"save", "create"} : Send(what, copy, seen)
    BY <1>2 DEF Save
  <2>3. disabled => form.enter
    BY <1>2 DEF Save, Pressed
  <2> QED
    BY <1>2, <2>1, <2>2, <2>3, SendIInv DEF Save
<1>3. CASE Delete
  BY <1>3, SendIInv DEF Delete
<1>4. CASE Act
  <2>1. CASE Send("act", props, props)
    BY <1>4, <2>1, SendIInv DEF Act, IInv, TypeOK
  <2>2. CASE Send("act", Base, IF changed THEN seen ELSE props)
    <3>1. Base \in Moments \cup {None}
      BY DEF Base, IInv, TypeOK
    <3>2. (IF changed THEN seen ELSE props) \in Moments \cup {None}
      BY DEF IInv, TypeOK
    <3> QED
      BY <1>4, <2>2, <3>1, <3>2, SendIInv DEF Act
  <2>3. CASE Send("test", None, None) \/ Send("operate", None, None)
    BY <1>4, <2>3, SendIInv DEF Act
  <2> QED
    BY <1>4, <2>1, <2>2, <2>3 DEF Act
<1> QED
  BY <1>2, <1>3, <1>4

LEMMA NothingIInv ==
  ASSUME IInv, [Next]_vars, SaveNothing
  PROVE  IInv'
<1>1. /\ UNCHANGED <<form, srv, moment, stored, props, news, copy, changed, wanted,
                    seen, discarded, message, locked, timers, writes>>
      /\ form.enter /\ disabled' = FALSE
  BY DEF SaveNothing, record, shown, edit
<1>2. disabled' \in BOOLEAN
  BY <1>1
<1>3. TypeOK'
  BY <1>1, <1>2, FormStays DEF IInv, TypeOK
<1>4. Shape'
  BY <1>1, FormStays DEF IInv, Shape, Sent
<1>5. OneWrite' /\ Waiting'
  BY <1>1, QuietRequests
<1> QED
  BY <1>3, <1>4, <1>5 DEF IInv

LEMMA CancelIInv ==
  ASSUME IInv, [Next]_vars, Cancel
  PROVE  IInv'
<1>1. None \notin Moments
  BY NoneIsNoRecord DEF IInv
<1>2. copy \in Moments /\ wanted \in Moments
  BY DEF Cancel, IInv, TypeOK
<1>3. discarded' \subseteq 1..MaxMoment
  <2>1. ASSUME NEW f \in Inputs, TakenBack(f)
        PROVE  copy[f] \in 1..MaxMoment
    <3>1. copy[f] \in 0..MaxMoment /\ copy[f] = wanted[f] /\ wanted[f] \notin stored
      BY <1>2, <2>1 DEF TakenBack, Saved, Moments
    <3>2. copy[f] # 0
      BY <3>1 DEF IInv, Shape
    <3> QED
      BY <3>1, <3>2, ConstantsAssumption
  <2>2. discarded' = discarded \cup {copy[f] : f \in {g \in Inputs : TakenBack(g)}}
    BY DEF Cancel
  <2> QED
    BY <2>1, <2>2 DEF IInv, TypeOK
<1>4. wanted' \in Moments
  BY <1>2, ConstantsAssumption DEF Cancel, Discard, Moments
<1>5. changed' = FALSE /\ copy' = (IF OwnCopy THEN props ELSE None)
  BY DEF Cancel, GiveUp
<1>6. /\ UNCHANGED <<form, srv, moment, stored, props, news, seen, disabled,
                    locked, timers, writes>>
      /\ message' \in {"none", "saved", "created", "discarded", "deleted"}
  BY DEF Cancel, record, shown, IInv, TypeOK
<1>7. /\ writes' \in Seq(Request)' /\ Len(writes') <= MaxWrites
      /\ \A i \in Sent' : writes'[i].what \in {"save", "create"} => writes'[i].rec # None
      /\ OneWrite' /\ Waiting'
  BY <1>6, QuietRequests
<1>8. TypeOK'
  BY <1>3, <1>4, <1>5, <1>6, <1>7, FormStays DEF IInv, TypeOK
<1>9. Shape'
  BY <1>5, <1>6, <1>7, FormStays DEF IInv, Shape
<1> QED
  BY <1>7, <1>8, <1>9 DEF IInv

LEMMA LeaveIInv ==
  ASSUME IInv, [Next]_vars, Leave \/ Drop
  PROVE  IInv'
<1>1. None \notin Moments
  BY NoneIsNoRecord DEF IInv
<1>0. Unmount
  BY DEF Leave, Drop
<1>2. wanted' \in Moments
  BY <1>0, ConstantsAssumption DEF Unmount, Discard, Moments, IInv, TypeOK
<1>3. changed' = FALSE /\ copy' = (IF OwnCopy THEN props ELSE None)
  BY <1>0 DEF Unmount, GiveUp
<1>4. timers' \in [TimerKinds -> 0..MaxTimers] /\ \A k \in TimerKinds : timers'[k] = 0
  BY <1>0, ConstantsAssumption DEF Unmount, NoTimers
<1>5. Len(writes) \in Nat /\ Sent = 1..Len(writes)
  BY DEF IInv, Shape, Sent
<1>6. /\ writes' \in Seq(Request) /\ Len(writes') = Len(writes)
      /\ \A i \in Sent : /\ ~writes'[i].mine
                          /\ writes'[i].what = writes[i].what
                          /\ writes'[i].rec = writes[i].rec
  <2> DEFINE left == [i \in DOMAIN writes |-> [writes[i] EXCEPT !.mine = FALSE]]
  <2>1. DOMAIN writes = Sent
    BY <1>5 DEF IInv, Shape
  <2>2. \A i \in Sent : writes[i] \in Request
    BY <1>5 DEF IInv, Shape
  <2>3. \A i \in Sent : left[i] = [writes[i] EXCEPT !.mine = FALSE]
    BY <2>1
  <2>4. \A i \in Sent : /\ left[i] \in Request /\ ~left[i].mine
                        /\ left[i].what = writes[i].what
                        /\ left[i].rec = writes[i].rec
    <3>1. ASSUME NEW w \in Request
          PROVE  LET v == [w EXCEPT !.mine = FALSE]
                 IN  v \in Request /\ ~v.mine /\ v.what = w.what /\ v.rec = w.rec
      BY <3>1 DEF Request
    <3> HIDE DEF left
    <3> QED
      BY <2>2, <2>3, <3>1
  <2>5. left \in Seq(Request) /\ Len(left) = Len(writes)
    <3>1. left \in [1..Len(writes) -> Request]
      BY <1>5, <2>1, <2>4
    <3> HIDE DEF left
    <3> QED
      BY <1>5, <3>1
  <2>6. writes' = left
    BY <1>0 DEF Unmount
  <2> QED
    BY <2>4, <2>5, <2>6
<1>7. Sent' = Sent
  BY <1>6 DEF Sent
<1>8. /\ UNCHANGED <<form, srv, moment, stored, news, seen, discarded>>
      /\ disabled' = FALSE /\ message' = "none"
  BY <1>0 DEF Unmount, Leave, Drop, record, shown
<1>9. /\ props' \in Moments \cup {None} /\ locked' \in BOOLEAN
      /\ OwnCopy => props' # None /\ props # None
      /\ ~locked' => props' # None
  <2>1. CASE Leave
    BY <2>1 DEF Leave, shown, IInv, TypeOK, Shape
  <2>2. CASE Drop
    BY <2>2 DEF Drop, OwnCopy
  <2> QED
    BY <2>1, <2>2
<1>10. TypeOK'
  BY <1>2, <1>3, <1>4, <1>6, <1>8, <1>9, FormStays DEF IInv, TypeOK
<1>11. Shape'
  BY <1>3, <1>4, <1>6, <1>7, <1>8, <1>9, FormStays DEF IInv, Shape, TimerKinds
<1>12. OneWrite' /\ Waiting'
  BY <1>4, <1>6, <1>7 DEF OneWrite, Waiting, TimerKinds
<1> QED
  BY <1>10, <1>11, <1>12 DEF IInv

LEMMA OtherIInv ==
  ASSUME IInv, [Next]_vars, Other \/ Refresh \/ Return \/ OnChange
  PROVE  IInv'
<1>1. None \notin Moments
  BY NoneIsNoRecord DEF IInv
<1>2. UNCHANGED <<form, disabled, timers, writes>>
  BY DEF Other, Refresh, Return, OnChange, state
<1>3. /\ writes' \in Seq(Request)' /\ Len(writes') <= MaxWrites
      /\ \A i \in Sent' : writes'[i].what \in {"save", "create"} => writes'[i].rec # None
      /\ OneWrite' /\ Waiting'
  BY <1>2, QuietRequests
<1>4. CASE Other
  <2>1. UNCHANGED <<shown, edit, state>>
    BY <1>4 DEF Other
  <2>2. /\ srv' \in Moments \cup {None} /\ moment' \in 0..MaxMoment
        /\ stored' \subseteq 0..MaxMoment /\ stored \subseteq stored'
    <3>1. CASE srv' = None /\ UNCHANGED <<moment, stored>>
      BY <3>1 DEF IInv, TypeOK
    <3>2. ASSUME NEW f \in Inputs, moment < MaxMoment, moment' = moment + 1,
                 srv' = [srv EXCEPT ![f] = moment'], stored' = stored \cup {moment'}
          PROVE  /\ srv' \in Moments \cup {None} /\ moment' \in 0..MaxMoment
                 /\ stored' \subseteq 0..MaxMoment /\ stored \subseteq stored'
      <4>1. moment' \in 0..MaxMoment
        BY <3>2, ConstantsAssumption DEF IInv, TypeOK
      <4>2. srv \in Moments
        BY <1>4 DEF Other, IInv, TypeOK
      <4>3. srv' \in Moments
        BY <3>2, <4>1, <4>2 DEF Moments
      <4> QED
        BY <3>2, <4>1, <4>3 DEF IInv, TypeOK
    <3> QED
      BY <1>4, <3>1, <3>2 DEF Other
  <2>3. TypeOK'
    BY <1>2, <1>3, <2>1, <2>2, FormStays DEF IInv, TypeOK, shown, edit, state
  <2>4. Shape'
    BY <1>2, <1>3, <2>1, <2>2, FormStays DEF IInv, Shape, shown, edit, state
  <2> QED
    BY <1>3, <2>3, <2>4 DEF IInv
<1>5. CASE Refresh \/ Return
  <2>1. UNCHANGED <<record, edit, message>>
    BY <1>5 DEF Refresh, Return, state
  <2>2. /\ props' \in Moments \cup {None} /\ news' \in BOOLEAN /\ locked' \in BOOLEAN
        /\ props' # None
    <3>1. props' = srv /\ srv # None
      BY <1>5 DEF Refresh, Return
    <3>2. news' \in BOOLEAN /\ locked' \in BOOLEAN
      BY <1>5 DEF Refresh, Return, state, OwnCopy, IInv, TypeOK
    <3> QED
      BY <3>1, <3>2 DEF IInv, TypeOK
  <2>5. news' => OwnCopy
    BY <1>5 DEF Refresh, Return, IInv, Shape
  <2>3. TypeOK'
    BY <1>2, <1>3, <2>1, <2>2, FormStays DEF IInv, TypeOK, record, edit
  <2>4. Shape'
    BY <1>2, <1>3, <2>1, <2>2, <2>5, FormStays DEF IInv, Shape, record, edit
  <2> QED
    BY <1>3, <2>3, <2>4 DEF IInv
<1>6. CASE OnChange
  <2>1. UNCHANGED <<record, props, discarded, state>> /\ seen' = props
    BY <1>6 DEF OnChange
  <2>0. wanted' \in Moments
    BY <1>6, ConstantsAssumption DEF OnChange, Discard, Moments, IInv, TypeOK
  <2>2. /\ copy' = props /\ props # None /\ news' = FALSE
        /\ changed' \in BOOLEAN
    BY <1>6 DEF OnChange, IInv, TypeOK, Shape
  <2>3. TypeOK'
    BY <1>2, <1>3, <2>0, <2>1, <2>2, FormStays DEF IInv, TypeOK, record, state
  <2>4. Shape'
    BY <1>2, <1>3, <2>1, <2>2, FormStays DEF IInv, Shape, record, state
  <2> QED
    BY <1>3, <2>3, <2>4 DEF IInv
<1> QED
  BY <1>4, <1>5, <1>6

LEMMA ServeIInv ==
  ASSUME IInv, [Next]_vars, NEW i \in Sent, Serve(i)
  PROVE  IInv'
<1> DEFINE w == writes[i]
<1>1. w \in Request /\ Len(writes) \in Nat /\ i \in 1..Len(writes)
  BY DEF IInv, Shape, Sent
<1>2. PICK out \in Outcomes :
        /\ writes' = [writes EXCEPT ![i].served = TRUE, ![i].answer = out]
        /\ srv' = IF out \in {"err", "auth"} THEN srv
                  ELSE CASE w.what \in {"save", "act"} -> w.rec
                         [] w.what = "delete" -> None
                         [] OTHER -> srv
  BY DEF Serve
<1> DEFINE v == [w EXCEPT !.served = TRUE, !.answer = out]
<1>3. /\ v \in Request /\ v.what = w.what /\ v.rec = w.rec /\ v.mine = w.mine
  BY <1>1, ConstantsAssumption DEF Request
<1>4. writes' = [writes EXCEPT ![i] = v]
  BY <1>2
<1> HIDE DEF v
<1>5. /\ writes' \in Seq(Request) /\ Len(writes') = Len(writes) /\ Sent' = Sent
      /\ writes'[i] = v
      /\ \A j \in Sent \ {i} : writes'[j] = writes[j]
  BY <1>1, <1>3, <1>4 DEF IInv, Shape, Sent
<1>6. \A j \in Sent : /\ writes'[j].what = writes[j].what
                      /\ writes'[j].rec = writes[j].rec
                      /\ writes'[j].mine = writes[j].mine
  BY <1>3, <1>5
<1>7. UNCHANGED <<form, moment, shown, edit, state>>
  BY DEF Serve
<1>8. srv' \in Moments \cup {None}
  BY <1>1, <1>2 DEF Request, IInv, TypeOK
<1>9. stored' \subseteq 0..MaxMoment /\ 0 \in stored'
  <2>1. stored' = stored \cup {srv'[f] : f \in IF srv' = None THEN {} ELSE Inputs}
    BY DEF Serve
  <2>2. srv' # None => \A f \in Inputs : srv'[f] \in 0..MaxMoment
    BY <1>8 DEF Moments
  <2> QED
    BY <2>1, <2>2 DEF IInv, TypeOK, Shape
<1>10. TypeOK'
  BY <1>5, <1>7, <1>8, <1>9, FormStays DEF IInv, TypeOK, shown, edit, state
<1>11. Shape'
  BY <1>5, <1>6, <1>7, <1>9, FormStays DEF IInv, Shape, shown, edit, state
<1>12. OneWrite' /\ Waiting'
  BY <1>5, <1>6, <1>7 DEF IInv, OneWrite, Waiting, state
<1> QED
  BY <1>10, <1>11, <1>12 DEF IInv

\* A request that is done was the only one of the form, or not the form's.
LEMMA DoneRequests ==
  ASSUME IInv, [Next]_vars, NEW i \in Sent, Done(i)
  PROVE  /\ writes' \in Seq(Request)' /\ Len(writes') <= MaxWrites
         /\ \A j \in Sent' : writes'[j].what \in {"save", "create"} => writes'[j].rec # None
         /\ ~form.enter => \A j, k \in Sent' :
              writes'[j].mine => disabled /\ (writes'[k].mine => j = k)
         /\ ~form.enter /\ writes[i].mine => \A j \in Sent' : ~writes'[j].mine
         /\ (\A j \in Sent : ~writes[j].mine) => \A j \in Sent' : ~writes'[j].mine
<1>1. /\ writes' \in Seq(Request) /\ Len(writes') = Len(writes) - 1
      /\ \A j \in Sent' : \E k \in Sent \ {i} : writes'[j] = writes[k]
      /\ \A j, k \in Sent' : j # k =>
           \E l, m \in Sent \ {i} : l # m /\ writes'[j] = writes[l] /\ writes'[k] = writes[m]
  BY Removed DEF IInv
<1>2. Len(writes') <= MaxWrites
  BY <1>1, ConstantsAssumption DEF IInv, TypeOK, Shape
<1>3. \A j \in Sent' : writes'[j].what \in {"save", "create"} => writes'[j].rec # None
  BY <1>1 DEF IInv, Shape
<1>4. ~form.enter => \A l, m \in Sent : writes[l].mine => disabled /\ (writes[m].mine => l = m)
  BY DEF IInv, OneWrite
<1>5. ASSUME ~form.enter, NEW j \in Sent', NEW k \in Sent', writes'[j].mine
      PROVE  disabled /\ (writes'[k].mine => j = k)
  <2>1. disabled
    BY <1>1, <1>4, <1>5
  <2>2. writes'[k].mine => j = k
    BY <1>1, <1>4, <1>5
  <2> QED
    BY <2>1, <2>2
<1>6. ~form.enter /\ writes[i].mine => \A j \in Sent' : ~writes'[j].mine
  BY <1>1, <1>4
<1>7. (\A j \in Sent : ~writes[j].mine) => \A j \in Sent' : ~writes'[j].mine
  BY <1>1
<1> QED
  BY <1>1, <1>2, <1>3, <1>5, <1>6, <1>7, FormStays

LEMMA ResolveIInv ==
  ASSUME IInv, [Next]_vars, NEW i \in Sent, Resolve(i)
  PROVE  IInv'
<1> DEFINE w == writes[i]
           saves == w.what \in {"save", "create"}
           ends == w.what = "delete" /\ form.base = "store"
           kinds == IF saves THEN form.timers
                    ELSE IF w.what = "operate" THEN {"enable"} ELSE {}
<1>1. w \in Request /\ w.mine /\ (saves => w.rec # None)
  BY DEF Resolve, IInv, Shape, Sent
<1>2. /\ writes' \in Seq(Request)' /\ Len(writes') <= MaxWrites
      /\ \A j \in Sent' : writes'[j].what \in {"save", "create"} => writes'[j].rec # None
      /\ ~form.enter => \A j \in Sent' : ~writes'[j].mine
  BY <1>1, DoneRequests DEF Resolve
<1>3. form \in Forms /\ form.timers \subseteq {"drop", "clear", "both", "again"}
  BY FormsAssumption DEF IInv, TypeOK
<1>4. /\ \A k \in kinds : timers[k] < MaxTimers
      /\ timers' = [k \in TimerKinds |-> IF k \in kinds THEN timers[k] + 1 ELSE timers[k]]
  BY DEF Resolve, Started
<1>5. /\ disabled' = (w.what = "operate" \/ (saves /\ "again" \in form.timers))
      /\ changed' = (changed /\ ~saves /\ ~ends)
      /\ locked' = (locked \/ ends \/ (saves /\ form.locks) \/ w.answer = "auth")
      /\ UNCHANGED <<form, record, copy, wanted, seen, discarded>>
  BY DEF Resolve
<1>6. \/ saves /\ form.answers /\ props' = w.rec /\ news' = TRUE
      \/ UNCHANGED shown
  BY DEF Resolve
<1>7. message' \in {"none", "saved", "created", "discarded", "deleted"}
  BY <1>3, FormsAssumption DEF Resolve, IInv, TypeOK
<1> HIDE DEF w, saves, ends, kinds
\* A request of the form was in flight: no timeout that enables it was.
<1>8. ~form.enter => timers["again"] = 0 /\ timers["enable"] = 0
  <2>1. ~form.enter => ~(timers["again"] + timers["enable"] > 0)
    BY <1>1 DEF IInv, Waiting, w
  <2>2. timers["again"] \in Nat /\ timers["enable"] \in Nat
    BY ConstantsAssumption DEF IInv, TypeOK, TimerKinds
  <2> QED
    BY <2>1, <2>2
<1>9. timers' \in [TimerKinds -> 0..MaxTimers]
  BY <1>4, ConstantsAssumption DEF IInv, TypeOK
<1>10. /\ props' \in Moments \cup {None} /\ news' \in BOOLEAN
       /\ props # None => props' # None
       /\ news' => OwnCopy
  <2>1. CASE saves /\ form.answers /\ props' = w.rec /\ news' = TRUE
    BY <1>1, <1>3, <2>1, FormsAssumption DEF Request, OwnCopy
  <2>2. CASE UNCHANGED shown
    BY <2>2 DEF shown, IInv, TypeOK, Shape
  <2> QED
    BY <1>6, <2>1, <2>2
<1>11. TypeOK'
  BY <1>2, <1>5, <1>7, <1>9, <1>10, FormStays DEF IInv, TypeOK, record
<1>12. kinds \subseteq {"drop", "clear", "both", "again", "enable"}
  BY <1>3 DEF kinds
<1>13. timers'["drop"] + timers'["both"] > 0 => ~OwnCopy
  <2>1. CASE "drop" \in kinds \/ "both" \in kinds
    <3>1. form.timers \cap {"drop", "both"} # {}
      BY <2>1 DEF kinds
    <3> QED
      BY <1>3, <3>1, FormsAssumption DEF OwnCopy
  <2>2. CASE "drop" \notin kinds /\ "both" \notin kinds
    BY <1>4, <2>2 DEF IInv, Shape, TimerKinds
  <2> QED
    BY <2>1, <2>2
<1>14. timers'["again"] > 0 => OwnCopy
  <2>1. CASE "again" \in kinds
    <3>1. "again" \in form.timers
      BY <2>1 DEF kinds
    <3> QED
      BY <1>3, <2>1, <3>1, FormsAssumption DEF OwnCopy
  <2>2. CASE "again" \notin kinds
    BY <1>4, <2>2 DEF IInv, Shape, TimerKinds
  <2> QED
    BY <2>1, <2>2
<1>15. Shape'
  <2>1. /\ OwnCopy => copy # None /\ props' # None
        /\ ~locked' => props' # None
    BY <1>5, <1>10 DEF IInv, Shape
  <2> QED
    BY <1>2, <1>5, <1>10, <1>13, <1>14, <2>1, FormStays DEF IInv, Shape, record
<1>16. OneWrite'
  BY <1>2, <1>5 DEF OneWrite
<1>17. Waiting'
  <2> SUFFICES ASSUME ~form.enter
               PROVE  /\ timers'["again"] + timers'["enable"] <= 1
                      /\ timers'["again"] + timers'["enable"] > 0
                           => disabled' /\ \A j \in Sent' : ~writes'[j].mine
    BY <1>5 DEF Waiting
  <2>1. /\ timers'["again"] = (IF "again" \in kinds THEN 1 ELSE 0)
        /\ timers'["enable"] = (IF "enable" \in kinds THEN 1 ELSE 0)
    BY <1>4, <1>8 DEF TimerKinds
  <2>2. /\ "again" \in kinds => saves /\ "again" \in form.timers
        /\ "enable" \in kinds => w.what = "operate" /\ ~saves
    BY <1>3 DEF kinds
  <2>3. timers'["again"] + timers'["enable"] <= 1
    BY <2>1, <2>2
  <2>4. timers'["again"] + timers'["enable"] > 0 => "again" \in kinds \/ "enable" \in kinds
    BY <2>1
  <2> QED
    BY <1>2, <1>5, <2>2, <2>3, <2>4
<1> QED
  BY <1>11, <1>15, <1>16, <1>17 DEF IInv

LEMMA RejectIInv ==
  ASSUME IInv, [Next]_vars, NEW i \in Sent, Reject(i) \/ Forget(i)
  PROVE  IInv'
<1>1. Done(i)
  BY DEF Reject, Forget
<1>2. /\ writes' \in Seq(Request)' /\ Len(writes') <= MaxWrites
      /\ \A j \in Sent' : writes'[j].what \in {"save", "create"} => writes'[j].rec # None
      /\ ~form.enter => \A j, k \in Sent' :
           writes'[j].mine => disabled /\ (writes'[k].mine => j = k)
      /\ ~form.enter /\ writes[i].mine => \A j \in Sent' : ~writes'[j].mine
      /\ (\A j \in Sent : ~writes[j].mine) => \A j \in Sent' : ~writes'[j].mine
  BY <1>1, DoneRequests
<1>3. UNCHANGED <<form, record, shown, edit, locked, timers>>
  BY DEF Reject, Forget, state
<1>4. /\ message' \in {"none", "saved", "created", "discarded", "deleted"}
      /\ disabled' \in BOOLEAN
  BY DEF Reject, Forget, state, IInv, TypeOK
<1>5. TypeOK'
  BY <1>2, <1>3, <1>4, FormStays DEF IInv, TypeOK, record, shown, edit
<1>6. Shape'
  BY <1>2, <1>3, FormStays DEF IInv, Shape, record, shown, edit
<1>7. CASE Reject(i)
  <2>1. ~form.enter => writes[i].mine /\ \A j \in Sent' : ~writes'[j].mine
    BY <1>2, <1>7 DEF Reject
  <2>2. OneWrite'
    BY <1>3, <2>1 DEF OneWrite
  <2>3. ~form.enter => ~(timers["again"] + timers["enable"] > 0)
    BY <2>1 DEF IInv, Waiting
  <2>4. Waiting'
    BY <1>3, <2>1, <2>3 DEF IInv, Waiting
  <2> QED
    BY <1>5, <1>6, <2>2, <2>4 DEF IInv
<1>8. CASE Forget(i)
  <2>1. disabled' = disabled
    BY <1>8 DEF Forget, state
  <2>2. OneWrite'
    BY <1>2, <1>3, <2>1 DEF OneWrite
  <2>3. Waiting'
    BY <1>2, <1>3, <2>1 DEF IInv, Waiting
  <2> QED
    BY <1>5, <1>6, <2>2, <2>3 DEF IInv
<1> QED
  BY <1>7, <1>8

LEMMA FireIInv ==
  ASSUME IInv, [Next]_vars, NEW k \in TimerKinds, Fire(k)
  PROVE  IInv'
<1>1. /\ timers[k] > 0 /\ timers' = [timers EXCEPT ![k] = @ - 1]
      /\ UNCHANGED <<form, record, shown, wanted, seen, discarded, locked, writes>>
  BY DEF Fire
<1>2. \A q \in TimerKinds : timers[q] \in 0..MaxTimers /\ timers[q] \in Nat
  BY ConstantsAssumption DEF IInv, TypeOK
<1>3. timers' \in [TimerKinds -> 0..MaxTimers]
  BY <1>1, <1>2, ConstantsAssumption DEF IInv, TypeOK
<1>4. \A q \in TimerKinds : timers'[q] \in Nat /\ timers'[q] <= timers[q]
  BY <1>1, <1>2 DEF IInv, TypeOK
<1>5. /\ "drop" \in TimerKinds /\ "both" \in TimerKinds
      /\ "again" \in TimerKinds /\ "enable" \in TimerKinds
  BY DEF TimerKinds
<1>6. k \in {"drop", "both"} => ~OwnCopy
  <2>1. k \in {"drop", "both"} => timers["drop"] + timers["both"] > 0
    BY <1>1, <1>2, <1>5
  <2> QED
    BY <2>1 DEF IInv, Shape
<1>7. k = "again" => OwnCopy /\ copy # None
  <2>1. k = "again" => timers["again"] > 0
    BY <1>1
  <2> QED
    BY <2>1 DEF IInv, Shape
<1>8. /\ copy' \in Moments \cup {None}
      /\ OwnCopy => copy' = copy
      /\ changed' \in BOOLEAN /\ (changed' => copy' # None)
  <2>1. CASE k \in {"drop", "both"} /\ Idle
    BY <1>6, <2>1 DEF Fire
  <2>2. CASE ~(k \in {"drop", "both"} /\ Idle)
    <3>1. copy' = copy /\ changed' = (changed \/ k = "again")
      BY <2>2 DEF Fire
    <3> QED
      BY <1>7, <3>1 DEF IInv, TypeOK
  <2> QED
    BY <2>1, <2>2
<1>9. /\ message' \in {"none", "saved", "created", "discarded", "deleted"}
      /\ disabled' = (disabled /\ k \notin {"again", "enable"})
  BY DEF Fire, IInv, TypeOK
<1>10. /\ writes' \in Seq(Request)' /\ Len(writes') <= MaxWrites /\ Sent' = Sent
  BY <1>1, FormStays DEF IInv, TypeOK, Shape, Sent
<1>11. TypeOK'
  BY <1>1, <1>3, <1>8, <1>9, <1>10, FormStays DEF IInv, TypeOK, record, shown
<1>12. Shape'
  <2>1. timers'["drop"] + timers'["both"] > 0 => timers["drop"] + timers["both"] > 0
    BY <1>2, <1>4, <1>5
  <2>2. timers'["again"] > 0 => timers["again"] > 0
    BY <1>2, <1>4, <1>5
  <2> QED
    BY <1>1, <1>8, <1>10, <2>1, <2>2, FormStays DEF IInv, Shape, record, shown
<1>0. form' = form
  BY <1>1
<1>15. CASE form.enter
  BY <1>0, <1>11, <1>12, <1>15 DEF IInv, OneWrite, Waiting
<1>13. CASE ~form.enter /\ k \in {"again", "enable"}
  <2>1. timers["again"] + timers["enable"] > 0 /\ timers["again"] + timers["enable"] <= 1
    BY <1>1, <1>2, <1>5, <1>13 DEF IInv, Waiting
  <2>2. timers'["again"] + timers'["enable"] = 0
    <3>1. timers'[k] = timers[k] - 1 /\ \A q \in TimerKinds \ {k} : timers'[q] = timers[q]
      BY <1>1 DEF IInv, TypeOK
    <3>2. CASE k = "again"
      <4>1. timers["enable"] = 0 /\ timers["again"] = 1
        BY <1>1, <1>2, <1>5, <2>1, <3>2
      <4> QED
        BY <1>5, <3>1, <3>2, <4>1
    <3>3. CASE k = "enable"
      <4>1. timers["again"] = 0 /\ timers["enable"] = 1
        BY <1>1, <1>2, <1>5, <2>1, <3>3
      <4> QED
        BY <1>5, <3>1, <3>3, <4>1
    <3> QED
      BY <1>13, <3>2, <3>3
  <2>3. \A i \in Sent' : ~writes'[i].mine
    BY <1>1, <1>10, <1>13, <2>1 DEF IInv, Waiting
  <2>4. OneWrite' /\ Waiting'
    BY <1>0, <2>2, <2>3 DEF OneWrite, Waiting
  <2> QED
    BY <1>11, <1>12, <2>4 DEF IInv
<1>14. CASE ~form.enter /\ k \notin {"again", "enable"}
  <2>1. disabled' = disabled
    BY <1>9, <1>14 DEF IInv, TypeOK
  <2>2. timers'["again"] = timers["again"] /\ timers'["enable"] = timers["enable"]
    BY <1>1, <1>5, <1>14 DEF IInv, TypeOK
  <2>3. OneWrite' /\ Waiting'
    BY <1>0, <1>1, <1>10, <2>1, <2>2 DEF IInv, OneWrite, Waiting
  <2> QED
    BY <1>11, <1>12, <2>3 DEF IInv
<1> QED
  BY <1>13, <1>14, <1>15
-----------------------------------------------------------------------------
LEMMA StepIInv ==
  ASSUME IInv, [Next]_vars
  PROVE  IInv'
<1>1. CASE UNCHANGED vars
  <2>1. UNCHANGED <<form, srv, moment, stored, props, news, copy, changed, wanted,
                   seen, discarded, disabled, message, locked, timers, writes>>
    BY <1>1 DEF vars, record, shown, edit, state
  <2>2. TypeOK' /\ Shape'
    BY <2>1, FormStays DEF IInv, TypeOK, Shape, Sent
  <2>3. OneWrite' /\ Waiting'
    BY <2>1, QuietRequests
  <2> QED
    BY <2>2, <2>3 DEF IInv
<1>2. ASSUME NEW f \in Inputs, Edit(f) PROVE IInv'
  BY <1>2, EditIInv
<1>3. CASE Save \/ SaveNothing \/ Delete \/ Act
  BY <1>3, ButtonIInv, NothingIInv
<1>4. CASE Cancel
  BY <1>4, CancelIInv
<1>5. CASE Leave \/ Drop
  BY <1>5, LeaveIInv
<1>6. CASE Other \/ Refresh \/ Return \/ OnChange
  BY <1>6, OtherIInv
<1>7. ASSUME NEW i \in Sent, Serve(i) \/ Resolve(i) \/ Reject(i) \/ Forget(i)
      PROVE  IInv'
  BY <1>7, ServeIInv, ResolveIInv, RejectIInv
<1>8. ASSUME NEW k \in TimerKinds, Fire(k) PROVE IInv'
  BY <1>8, FireIInv
<1> QED
  BY <1>1, <1>2, <1>3, <1>4, <1>5, <1>6, <1>7, <1>8 DEF Next

LEMMA Invariance == Spec => []IInv
BY InitIInv, StepIInv, PTL DEF Spec

\* A form's state is what it may be; above all it has a copy whenever it has
\* changes (set and its like in every form).
THEOREM TypeCorrect == Spec => []TypeOK
BY Invariance, PTL DEF IInv

\* Whichever of its buttons are pressed, and whatever timeouts enable it
\* again, a form never has two requests in flight (state.disabled).
THEOREM OneWriteAtATime == Spec => []OneWrite
BY Invariance, PTL DEF IInv
-----------------------------------------------------------------------------
(* Edits.                                                                  *)

LEMMA StepEditsKept ==
  ASSUME ~OwnCopy, IInv, [Next]_vars, changed
  PROVE  /\ ~changed' => \/ Cancel \/ Leave \/ Drop
                          \/ \E i \in Sent : writes[i].what \in {"save", "create"} /\ Resolve(i)
         /\ changed' /\ copy' # copy => \E f \in Inputs : Edit(f)
<1>1. ~news
  BY DEF IInv, Shape
<1>2. CASE UNCHANGED <<copy, changed>>
  BY <1>2
<1>3. ASSUME NEW f \in Inputs, Edit(f) PROVE changed'
  BY <1>3 DEF Edit
<1>4. CASE Save \/ SaveNothing \/ Delete \/ Act \/ Other \/ Refresh \/ Return
  BY <1>2, <1>4 DEF Save, SaveNothing, Delete, Act, Other, Refresh, Return, edit
<1>5. ASSUME NEW i \in Sent, Serve(i) \/ Reject(i) \/ Forget(i)
      PROVE  UNCHANGED <<copy, changed>>
  BY <1>5 DEF Serve, Reject, Forget, edit
<1>6. ASSUME NEW i \in Sent, Resolve(i)
      PROVE  copy' = copy /\ (~changed' => writes[i].what \in {"save", "create"})
  <2>1. ~(writes[i].what = "delete" /\ form.base = "store")
    BY DEF OwnCopy
  <2> QED
    BY <1>6, <2>1 DEF Resolve
<1>7. CASE Cancel \/ Leave \/ Drop
  BY <1>7 DEF Cancel, Leave, Drop, Unmount, GiveUp
<1>8. ASSUME NEW k \in TimerKinds, Fire(k) PROVE changed' /\ copy' = copy
  BY <1>8 DEF Fire, Idle
<1>9. CASE UNCHANGED vars
  BY <1>2, <1>9 DEF vars, edit
<1>10. ~OnChange
  BY <1>1 DEF OnChange
<1> QED
  BY <1>2, <1>3, <1>4, <1>5, <1>6, <1>7, <1>8, <1>9, <1>10 DEF Next

\* In a row no timeout of an earlier save and no change of the list ends or
\* alters what the user is editing (the tests of state.changed in onSave's
\* timeouts).
THEOREM EditsAreKept == Spec => EditsKept
<1>1. IInv /\ [Next]_vars
        => [~OwnCopy =>
              /\ changed /\ ~changed' =>
                   \/ Cancel \/ Leave \/ Drop
                   \/ \E i \in Sent : writes[i].what \in {"save", "create"} /\ Resolve(i)
              /\ changed /\ changed' /\ copy' # copy => \E f \in Inputs : Edit(f)]_vars
  BY StepEditsKept
<1> QED
  BY Invariance, <1>1, PTL DEF Spec, EditsKept
-----------------------------------------------------------------------------
(* What a record, a request and a timeout can hold.                        *)

Upto(r, n) == r # None => \A f \in Inputs : r[f] <= n
Written(w) == w.what \in {"save", "act"}

\* No value is later than the last one given.
Dated ==
    /\ Upto(srv, moment) /\ Upto(props, moment) /\ Upto(copy, moment)
    /\ Upto(wanted, moment) /\ Upto(seen, moment)
    /\ \A v \in stored \cup discarded : v <= moment
    /\ \A i \in Sent : Upto(writes[i].rec, moment)

\* Only a form that makes a record sends or waits as such forms do, and a
\* request that writes has what to write.
Sound ==
    /\ timers["again"] > 0 => form.base = "new"
    /\ \A i \in Sent :
         /\ writes[i].what = "create" => form.base = "new"
         /\ Written(writes[i]) => writes[i].rec \in Moments /\ writes[i].began \in Moments

FInv == IInv /\ Dated /\ Sound

\* Where the requests of a state come from.
LEMMA RequestsOf ==
  ASSUME IInv, [Next]_vars
  PROVE  \/ UNCHANGED writes
         \/ Save \/ Delete \/ Act \/ Leave \/ Drop
         \/ \E i \in Sent : Serve(i) \/ Resolve(i) \/ Reject(i) \/ Forget(i)
<1>1. ASSUME NEW f \in Inputs, Edit(f) PROVE UNCHANGED writes
  BY <1>1 DEF Edit
<1>2. SaveNothing \/ Cancel \/ Other \/ Refresh \/ Return \/ OnChange => UNCHANGED writes
  BY DEF SaveNothing, Cancel, Other, Refresh, Return, OnChange, state
<1>3. ASSUME NEW k \in TimerKinds, Fire(k) PROVE UNCHANGED writes
  BY <1>3 DEF Fire
<1>4. UNCHANGED vars => UNCHANGED writes
  BY DEF vars
<1> QED
  BY <1>1, <1>2, <1>3, <1>4 DEF Next

LEMMA LeaveRequests ==
  ASSUME IInv, Leave \/ Drop
  PROVE  /\ Sent' = Sent
         /\ \A i \in Sent : /\ ~writes'[i].mine
                            /\ writes'[i].what = writes[i].what
                            /\ writes'[i].rec = writes[i].rec
                            /\ writes'[i].began = writes[i].began
                            /\ writes'[i].served = writes[i].served
                            /\ writes'[i].answer = writes[i].answer
<1> DEFINE left == [i \in DOMAIN writes |-> [writes[i] EXCEPT !.mine = FALSE]]
<1>1. Len(writes) \in Nat /\ Sent = 1..Len(writes) /\ DOMAIN writes = Sent
  BY DEF IInv, Shape, Sent
<1>2. \A i \in Sent : writes[i] \in Request /\ left[i] = [writes[i] EXCEPT !.mine = FALSE]
  BY <1>1 DEF IInv, Shape
<1>3. ASSUME NEW w \in Request
      PROVE  LET v == [w EXCEPT !.mine = FALSE]
             IN  /\ v \in Request /\ ~v.mine /\ v.what = w.what /\ v.rec = w.rec
                 /\ v.began = w.began /\ v.served = w.served /\ v.answer = w.answer
  BY DEF Request
<1>4. left \in [1..Len(writes) -> Request]
  BY <1>1, <1>2, <1>3
<1>5. writes' = left
  BY DEF Leave, Drop, Unmount
<1> HIDE DEF left
<1>6. Len(writes') = Len(writes)
  BY <1>1, <1>4, <1>5
<1> QED
  BY <1>1, <1>2, <1>3, <1>5, <1>6 DEF Sent

LEMMA ServeRequests ==
  ASSUME IInv, NEW i \in Sent, Serve(i)
  PROVE  /\ Sent' = Sent
         /\ \A j \in Sent \ {i} : writes'[j] = writes[j]
         /\ ~writes[i].served /\ writes'[i].served
         /\ writes'[i].what = writes[i].what /\ writes'[i].rec = writes[i].rec
         /\ writes'[i].began = writes[i].began /\ writes'[i].mine = writes[i].mine
         /\ writes'[i].answer \in Outcomes
         /\ \/ srv' = srv /\ writes'[i].answer # "ok"
            \/ srv' = writes[i].rec /\ Written(writes[i]) /\ srv # None
            \/ srv' = None /\ writes[i].what = "delete"
            \/ srv' = srv /\ ~Written(writes[i])
         /\ \A v : v \in stored' <=> v \in stored \/ (srv' # None /\ \E f \in Inputs : v = srv'[f])
         /\ UNCHANGED <<form, moment, shown, edit, state>>
<1> DEFINE w == writes[i]
<1>1. w \in Request /\ Len(writes) \in Nat /\ i \in 1..Len(writes)
  BY DEF IInv, Shape, Sent
<1>2. PICK out \in Outcomes :
        /\ srv = None /\ w.what # "delete" => out \notin {"ok", "lost"}
        /\ writes' = [writes EXCEPT ![i].served = TRUE, ![i].answer = out]
        /\ srv' = IF out \in {"err", "auth"} THEN srv
                  ELSE CASE w.what \in {"save", "act"} -> w.rec
                         [] w.what = "delete" -> None
                         [] OTHER -> srv
  BY DEF Serve
<1> DEFINE v == [w EXCEPT !.served = TRUE, !.answer = out]
<1>3. /\ v.what = w.what /\ v.rec = w.rec /\ v.began = w.began /\ v.mine = w.mine
      /\ v.served /\ v.answer = out /\ v \in Request
  BY <1>1, ConstantsAssumption DEF Request
<1>4. writes' = [writes EXCEPT ![i] = v]
  BY <1>2
<1> HIDE DEF v
<1>5. /\ Sent' = Sent /\ writes'[i] = v
      /\ \A j \in Sent \ {i} : writes'[j] = writes[j]
  BY <1>1, <1>3, <1>4 DEF IInv, Shape, Sent
<1>6. ~w.served /\ UNCHANGED <<form, moment, shown, edit, state>>
  BY DEF Serve
<1>7. \/ srv' = srv /\ out # "ok"
      \/ srv' = w.rec /\ Written(w) /\ srv # None
      \/ srv' = None /\ w.what = "delete"
      \/ srv' = srv /\ ~Written(w)
  <2>1. out \in {"ok", "err", "lost", "auth"}
    BY <1>2, ConstantsAssumption
  <2>2. CASE out \in {"err", "auth"}
    BY <1>2, <2>2
  <2>3. CASE out \in {"ok", "lost"}
    BY <1>2, <2>3 DEF Written
  <2> QED
    BY <2>1, <2>2, <2>3
<1>8. stored' = stored \cup {srv'[f] : f \in IF srv' = None THEN {} ELSE Inputs}
  BY DEF Serve
<1>9. \A u : u \in stored' <=> u \in stored \/ (srv' # None /\ \E f \in Inputs : u = srv'[f])
  BY <1>8
<1> QED
  BY <1>2, <1>3, <1>5, <1>6, <1>7, <1>9

\* A button sends one request, of what the form shows.
LEMMA ButtonRequests ==
  ASSUME IInv, [Next]_vars, Save \/ Delete \/ Act
  PROVE  /\ UNCHANGED <<form, record, shown, edit, message, locked, timers>>
         /\ (disabled => form.enter) /\ disabled' /\ ~locked /\ Len(writes') = Len(writes) + 1
         /\ \A i \in Sent : /\ writes'[i] = writes[i] /\ i # Len(writes')
                            /\ writes[i].mine => form.enter
         /\ \A i \in Sent' : i \in Sent \/ i = Len(writes')
         /\ LET w == writes'[Len(writes')]
            IN  /\ w.mine /\ ~w.served
                /\ \/ /\ Save /\ w.rec = copy /\ w.began = seen
                      /\ w.what = IF form.base = "new" THEN "create" ELSE "save"
                      /\ IF form.gate = "copy" THEN copy # None ELSE changed
                   \/ w.what \in {"delete", "test", "operate"} /\ w.rec = None
                   \/ /\ Act /\ w.what = "act" /\ form.acts = "sync"
                      /\ w.rec = props /\ w.began = props
                   \/ /\ Act /\ w.what = "act" /\ form.acts = "restore"
                      /\ w.rec = Base /\ w.began = IF changed THEN seen ELSE props
<1> DEFINE new == writes'[Len(writes')]
<1>1. ASSUME NEW wh, NEW rec \in Moments \cup {None}, NEW began \in Moments \cup {None},
             wh \in {"save", "create", "delete", "act", "test", "operate"},
             Send(wh, rec, began)
      PROVE  /\ Len(writes') = Len(writes) + 1
             /\ \A i \in Sent : writes'[i] = writes[i] /\ i # Len(writes')
             /\ \A i \in Sent' : i \in Sent \/ i = Len(writes')
             /\ new.what = wh /\ new.rec = rec /\ new.began = began
             /\ new.mine /\ ~new.served
  <2> DEFINE w == [what |-> wh, rec |-> rec, began |-> began, mine |-> TRUE,
                   served |-> FALSE, answer |-> "none"]
  <2>1. w \in Request
    BY <1>1 DEF Request
  <2>2. writes' = Append(writes, w) /\ writes \in Seq(Request)
    BY <1>1 DEF Send, IInv, Shape
  <2>5. /\ w.what = wh /\ w.rec = rec /\ w.began = began
        /\ w.mine /\ ~w.served
    OBVIOUS
  <2> HIDE DEF w
  <2>3. /\ Len(writes') = Len(writes) + 1 /\ Len(writes) \in Nat
        /\ \A i \in 1..Len(writes) : writes'[i] = writes[i]
        /\ writes'[Len(writes) + 1] = w
    BY <2>1, <2>2
  <2>4. Sent = 1..Len(writes) /\ Sent' = 1..Len(writes')
    BY DEF Sent
  <2>6. new = w
    BY <2>3
  <2> HIDE DEF new
  <2> QED
    BY <2>3, <2>4, <2>5, <2>6
<1>2. UNCHANGED <<form, record, shown, edit, message, locked, timers>> 
      /\ (disabled => form.enter) /\ ~locked
  BY DEF Save, Pressed, Delete, Act
<1>3. disabled'
  BY DEF Save, Delete, Act, Busy
<1>4. \A i \in Sent : writes[i].mine => form.enter
  BY <1>2 DEF IInv, OneWrite
<1> DEFINE Kind(what, rec, began) ==
             \/ /\ Save /\ rec = copy /\ began = seen
                /\ what = IF form.base = "new" THEN "create" ELSE "save"
                /\ IF form.gate = "copy" THEN copy # None ELSE changed
             \/ what \in {"delete", "test", "operate"} /\ rec = None
             \/ /\ Act /\ what = "act" /\ form.acts = "sync"
                /\ rec = props /\ began = props
             \/ /\ Act /\ what = "act" /\ form.acts = "restore"
                /\ rec = Base /\ began = IF changed THEN seen ELSE props
<1>5. \E wh \in {"save", "create", "delete", "act", "test", "operate"} :
      \E rec, began \in Moments \cup {None} :
        Send(wh, rec, began) /\ Kind(wh, rec, began)
  <2>1. CASE Save
    <3>1. copy \in Moments \cup {None} /\ seen \in Moments \cup {None}
      BY DEF IInv, TypeOK
    <3>2. Send(IF form.base = "new" THEN "create" ELSE "save", copy, seen)
      BY <2>1 DEF Save
    <3>3. IF form.gate = "copy" THEN copy # None ELSE changed
      BY <2>1, FormsAssumption DEF Save, Pressed, IInv, TypeOK
    <3> QED
      BY <2>1, <3>1, <3>2, <3>3
  <2>2. CASE Delete
    <3>1. Send("delete", None, None)
      BY <2>2 DEF Delete
    <3> QED
      BY <3>1
  <2>3. CASE Act
    <3>1. /\ props \in Moments \cup {None} /\ Base \in Moments \cup {None}
          /\ (IF changed THEN seen ELSE props) \in Moments \cup {None}
      BY DEF Base, IInv, TypeOK
    <3>2. CASE form.acts = "sync" /\ Send("act", props, props)
      BY <2>3, <3>1, <3>2
    <3>3. CASE form.acts = "restore" /\ Send("act", Base, IF changed THEN seen ELSE props)
      <4> DEFINE b == Base
                 s == IF changed THEN seen ELSE props
      <4>1. /\ b \in Moments \cup {None} /\ s \in Moments \cup {None}
            /\ Send("act", b, s) /\ Kind("act", b, s)
        BY <2>3, <3>1, <3>3
      <4> HIDE DEF b, s, Kind
      <4> QED
        BY <4>1
    <3>4. CASE Send("test", None, None) \/ Send("operate", None, None)
      BY <3>4
    <3> QED
      BY <2>3, <3>2, <3>3, <3>4 DEF Act
  <2> QED
    BY <2>1, <2>2, <2>3
<1> HIDE DEF Kind
<1>6. PICK wh \in {"save", "create", "delete", "act", "test", "operate"},
           rec \in Moments \cup {None}, began \in Moments \cup {None} :
        Send(wh, rec, began) /\ Kind(wh, rec, began)
  BY <1>5
<1>7. /\ Len(writes') = Len(writes) + 1
      /\ \A i \in Sent : writes'[i] = writes[i] /\ i # Len(writes')
      /\ \A i \in Sent' : i \in Sent \/ i = Len(writes')
      /\ new.mine /\ ~new.served
      /\ Kind(new.what, new.rec, new.began)
  BY <1>1, <1>6
<1> HIDE DEF new
<1>8. /\ UNCHANGED <<form, record, shown, edit, message, locked, timers>>
      /\ (disabled => form.enter) /\ disabled' /\ ~locked /\ Len(writes') = Len(writes) + 1
      /\ \A i \in Sent : /\ writes'[i] = writes[i] /\ i # Len(writes')
                            /\ writes[i].mine => form.enter
      /\ \A i \in Sent' : i \in Sent \/ i = Len(writes')
      /\ new.mine /\ ~new.served
  BY <1>2, <1>3, <1>4, <1>7
<1> QED
  BY <1>7, <1>8 DEF Kind, new

-----------------------------------------------------------------------------
(* No value is later than the last one given.                              *)

\* The next value is none that was ever saved or taken back.
LEMMA NextIsNew ==
  ASSUME FInv
  PROVE  moment \in Nat /\ moment + 1 \notin stored /\ moment + 1 \notin discarded
<1>1. moment \in Nat /\ \A v \in stored : v \in Nat
  BY ConstantsAssumption DEF FInv, IInv, TypeOK
<1>2. \A v \in discarded : v \in Nat
  BY ConstantsAssumption DEF FInv, IInv, TypeOK
<1>3. \A v \in stored \cup discarded : v <= moment
  BY DEF FInv, Dated
<1> QED
  BY <1>1, <1>2, <1>3

LEMMA InitFInv == Init => FInv
<1> SUFFICES ASSUME Init PROVE FInv
  OBVIOUS
<1>1. IInv
  BY InitIInv
<1>2. moment = 0 /\ srv = Unset /\ props = srv /\ (copy = srv \/ copy = None) /\ wanted = Unset
      /\ seen = srv /\ stored = {0} /\ discarded = {}
  BY DEF Init
<1>3. writes = <<>> /\ Sent = {} /\ timers["again"] = 0
  BY DEF Init, Sent, NoTimers, TimerKinds
<1>4. Upto(Unset, 0) /\ Upto(None, 0)
  BY DEF Upto, Unset
<1>5. Dated
  BY <1>2, <1>3, <1>4 DEF Dated
<1> QED
  BY <1>1, <1>3, <1>5 DEF FInv, Sound

LEMMA UptoGrows ==
  ASSUME NEW r \in Moments \cup {None}, NEW m \in Nat, NEW n \in Nat, m <= n, Upto(r, m)
  PROVE  Upto(r, n)
<1>1. ASSUME r # None, NEW f \in Inputs PROVE r[f] <= n
  <2>1. r[f] <= m /\ r[f] \in Nat
    BY <1>1, ConstantsAssumption DEF Upto, Moments
  <2> QED
    BY <2>1
<1> QED
  BY <1>1 DEF Upto

LEMMA DatesGrow ==
  ASSUME FInv, [Next]_vars
  PROVE  /\ moment \in Nat /\ moment' \in Nat /\ moment <= moment'
         /\ Upto(srv, moment') /\ Upto(props, moment') /\ Upto(copy, moment')
         /\ Upto(wanted, moment') /\ Upto(seen, moment') /\ Upto(Unset, moment')
         /\ \A v \in stored \cup discarded : v <= moment'
         /\ \A i \in Sent : Upto(writes[i].rec, moment')
<1>1. moment \in Nat
  BY ConstantsAssumption DEF FInv, IInv, TypeOK
<1>2. moment' \in Nat /\ moment <= moment'
  <2>1. UNCHANGED moment \/ moment' = moment + 1
    BY DEF Next, Edit, Save, SaveNothing, Delete, Act, Cancel, Leave, Drop, Unmount,
           Other, Refresh, Return, OnChange, Serve, Resolve, Reject, Forget, Fire,
           vars, record
  <2> QED
    BY <1>1, <2>1
<1>3. /\ Upto(srv, moment') /\ Upto(props, moment') /\ Upto(copy, moment')
      /\ Upto(wanted, moment') /\ Upto(seen, moment')
  BY <1>1, <1>2, UptoGrows DEF FInv, Dated, IInv, TypeOK
<1>4. ASSUME NEW v \in stored \cup discarded PROVE v <= moment'
  <2>1. v <= moment
    BY DEF FInv, Dated
  <2>2. v \in Nat
    BY ConstantsAssumption DEF FInv, IInv, TypeOK
  <2> QED
    BY <1>1, <1>2, <2>1, <2>2
<1>5. ASSUME NEW i \in Sent PROVE Upto(writes[i].rec, moment')
  <2>1. writes[i] \in Request
    BY DEF FInv, IInv, Shape, Sent
  <2>2. writes[i].rec \in Moments \cup {None} /\ Upto(writes[i].rec, moment)
    BY <2>1 DEF Request, FInv, Dated
  <2> QED
    BY <1>1, <1>2, <2>2, UptoGrows
<1>6. Upto(Unset, moment')
  BY <1>2 DEF Upto, Unset
<1> QED
  BY <1>1, <1>2, <1>3, <1>4, <1>5, <1>6

LEMMA EditDates ==
  ASSUME FInv, [Next]_vars, NEW f \in Inputs, Edit(f)
  PROVE  Dated'
<1>1. /\ moment \in Nat /\ moment' \in Nat
      /\ Upto(srv, moment') /\ Upto(props, moment') /\ Upto(copy, moment')
      /\ Upto(wanted, moment') /\ Upto(seen, moment')
      /\ \A v \in stored \cup discarded : v <= moment'
      /\ \A i \in Sent : Upto(writes[i].rec, moment')
  BY DatesGrow
<1>2. None \notin Moments
  BY NoneIsNoRecord DEF FInv, IInv
<1>3. Inputs' = Inputs /\ Sent' = Sent
  BY FormStays DEF Edit, Sent
<1> DEFINE B == Base
<1>4. B \in Moments /\ Upto(B, moment') /\ props \in Moments
  BY <1>1, <1>2 DEF Base, Edit, FInv, IInv, TypeOK, Shape
<1>5. ASSUME NEW r \in Moments, Upto(r, moment')
      PROVE  \A g \in Inputs : [r EXCEPT ![f] = moment'][g] <= moment'
  BY <1>1, <1>2, <1>5 DEF Upto, Moments
<1> HIDE DEF B
<1>6. copy' = [B EXCEPT ![f] = moment']
  BY DEF Edit, B
<1>7. props' = props \/ props' = [props EXCEPT ![f] = moment']
  BY DEF Edit
<1>8. wanted' = [wanted EXCEPT ![f] = moment'] /\ wanted \in Moments
  BY DEF Edit, FInv, IInv, TypeOK
<1>9. seen' = seen \/ seen' = copy \/ seen' = props
  BY DEF Edit
<1>10. Upto(copy', moment') /\ Upto(props', moment') /\ Upto(wanted', moment') /\ Upto(seen', moment')
  <2>1. Upto(copy', moment')
    BY <1>4, <1>5, <1>6 DEF Upto
  <2>2. Upto(props', moment')
    BY <1>1, <1>4, <1>5, <1>7 DEF Upto
  <2>3. Upto(wanted', moment')
    BY <1>1, <1>5, <1>8 DEF Upto
  <2>4. Upto(seen', moment')
    BY <1>1, <1>9
  <2> QED
    BY <2>1, <2>2, <2>3, <2>4
<1>11. UNCHANGED <<srv, stored, discarded, writes>>
  BY DEF Edit
<1> QED
  BY <1>1, <1>3, <1>10, <1>11 DEF Dated, Upto

\* In the other steps a record of the form comes from another.
LEMMA OtherDates ==
  ASSUME FInv, [Next]_vars,
         NEW S, S = {srv, props, copy, seen, None} \cup {writes[i].rec : i \in Sent},
         Upto(srv', moment'), Upto(wanted', moment'),
         props' \in S, copy' \in S, seen' \in S,
         \A v \in stored' : v \in stored \/ v = moment' \/ \E f \in Inputs : srv' # None /\ v = srv'[f],
         \A v \in discarded' : v \in discarded \/ \E f \in Inputs : v = wanted[f],
         \A i \in Sent' : writes'[i].rec \in S
  PROVE  Dated'
<1>1. /\ moment \in Nat /\ moment' \in Nat
      /\ Upto(srv, moment') /\ Upto(props, moment') /\ Upto(copy, moment')
      /\ Upto(wanted, moment') /\ Upto(seen, moment')
      /\ \A v \in stored \cup discarded : v <= moment'
      /\ \A i \in Sent : Upto(writes[i].rec, moment')
  BY DatesGrow
<1>2. None \notin Moments
  BY NoneIsNoRecord DEF FInv, IInv
<1>3. Inputs' = Inputs
  BY FormStays
<1>4. \A r \in S : Upto(r, moment')
  BY <1>1 DEF Upto
<1>5. \A f \in Inputs : wanted[f] <= moment'
  BY <1>1, <1>2 DEF Upto, FInv, IInv, TypeOK
<1>6. \A v \in stored' \cup discarded' : v <= moment'
  BY <1>1, <1>5 DEF Upto
<1>7. \A i \in Sent' : Upto(writes'[i].rec, moment')
  BY <1>4
<1> QED
  BY <1>3, <1>4, <1>6, <1>7 DEF Dated, Upto

LEMMA DiscardDates ==
  ASSUME FInv, [Next]_vars, Discard
  PROVE  Upto(wanted', moment')
<1>1. moment' \in Nat /\ Upto(wanted, moment')
  BY DatesGrow
<1>2. wanted \in Moments /\ None \notin Moments
  BY NoneIsNoRecord DEF FInv, IInv, TypeOK
<1> QED
  BY <1>1, <1>2 DEF Upto, Discard

LEMMA ServeDates ==
  ASSUME FInv, [Next]_vars, NEW i \in Sent, Serve(i)
  PROVE  Dated'
<1> DEFINE S == {srv, props, copy, seen, None} \cup {writes[j].rec : j \in Sent}
<1>1. /\ Sent' = Sent /\ \A j \in Sent : writes'[j].rec = writes[j].rec
      /\ srv' \in S
      /\ \A v : v \in stored' <=> v \in stored \/ (srv' # None /\ \E f \in Inputs : v = srv'[f])
      /\ UNCHANGED <<shown, edit>>
  BY ServeRequests DEF FInv
<1>2. /\ Upto(srv, moment') /\ Upto(props, moment') /\ Upto(copy, moment')
      /\ Upto(wanted, moment') /\ Upto(seen, moment') /\ Upto(None, moment')
      /\ \A j \in Sent : Upto(writes[j].rec, moment')
  BY DatesGrow DEF Upto
<1>3. \A r \in S : Upto(r, moment')
  BY <1>2
<1>4. /\ props' = props /\ copy' = copy /\ seen' = seen /\ discarded' = discarded
      /\ wanted' = wanted
  BY <1>1 DEF shown, edit
<1>5. props' \in S /\ copy' \in S /\ seen' \in S
  BY <1>4
<1>6. \A j \in Sent' : writes'[j].rec \in S
  BY <1>1
<1>7. \A v \in stored' : v \in stored \/ v = moment' \/ \E f \in Inputs : srv' # None /\ v = srv'[f]
  BY <1>1
<1>8. Upto(srv', moment') /\ Upto(wanted', moment')
  BY <1>1, <1>2, <1>3, <1>4
<1> HIDE DEF S
<1> QED
  BY <1>4, <1>5, <1>6, <1>7, <1>8, OtherDates DEF S

LEMMA ButtonDates ==
  ASSUME FInv, [Next]_vars, Save \/ Delete \/ Act
  PROVE  Dated'
<1> DEFINE S == {srv, props, copy, seen, None} \cup {writes[j].rec : j \in Sent}
           w == writes'[Len(writes')]
<1>1. /\ UNCHANGED <<record, shown, edit>>
      /\ \A j \in Sent : writes'[j] = writes[j]
      /\ \A j \in Sent' : j \in Sent \/ j = Len(writes')
      /\ w.rec = copy \/ w.rec = props \/ w.rec = None \/ w.rec = Base
  BY ButtonRequests DEF FInv
<1>2. Base = copy \/ Base = props
  BY DEF Base
<1>3. \A j \in Sent' : writes'[j].rec \in S
  BY <1>1, <1>2
<1>4. Upto(srv, moment') /\ Upto(wanted, moment')
  BY DatesGrow
<1>5. /\ UNCHANGED <<srv, moment, stored, props, copy, wanted, seen, discarded>>
      /\ props' \in S /\ copy' \in S /\ seen' \in S
  BY <1>1 DEF record, shown, edit
<1>6. \A v \in stored' : v \in stored
  BY <1>5
<1> HIDE DEF S
<1> QED
  BY <1>3, <1>4, <1>5, <1>6, OtherDates DEF S

LEMMA AnswerDates ==
  ASSUME FInv, [Next]_vars, NEW i \in Sent, Resolve(i) \/ Reject(i) \/ Forget(i)
  PROVE  Dated'
<1> DEFINE S == {srv, props, copy, seen, None} \cup {writes[j].rec : j \in Sent}
<1>1. \A j \in Sent' : writes'[j].rec \in S
  <2>1. Done(i) /\ Shape
    BY DEF Resolve, Reject, Forget, FInv, IInv
  <2>2. \A j \in Sent' : \E k \in Sent \ {i} : writes'[j] = writes[k]
    BY <2>1, Removed
  <2> QED
    BY <2>2
<1>2. UNCHANGED <<srv, moment, stored, copy, wanted, seen, discarded>>
  BY DEF Resolve, Reject, Forget, record, edit
<1>3. props' \in S
  BY DEF Resolve, Reject, Forget, shown
<1>4. Upto(srv, moment') /\ Upto(wanted, moment')
  BY DatesGrow
<1>5. copy' \in S /\ seen' \in S /\ \A v \in stored' : v \in stored
  BY <1>2
<1> HIDE DEF S
<1> QED
  BY <1>1, <1>2, <1>3, <1>4, <1>5, OtherDates DEF S

LEMMA LeaveDates ==
  ASSUME FInv, [Next]_vars, Leave \/ Drop \/ Cancel
  PROVE  Dated'
<1> DEFINE S == {srv, props, copy, seen, None} \cup {writes[j].rec : j \in Sent}
<1>1. \A j \in Sent' : writes'[j].rec \in S
  <2>1. CASE Leave \/ Drop
    BY <2>1, LeaveRequests DEF FInv
  <2>2. CASE Cancel
    <3>1. writes' = writes
      BY <2>2 DEF Cancel
    <3> QED
      BY <3>1 DEF Sent
  <2> QED
    BY <2>1, <2>2
<1>2. /\ UNCHANGED <<srv, moment, stored, seen>> /\ Discard
      /\ props' = props \/ props' = None
  BY DEF Leave, Drop, Unmount, Cancel, record, shown
<1>3. copy' = props \/ copy' = None
  BY DEF Leave, Drop, Unmount, Cancel, GiveUp
<1>4. Upto(srv, moment') /\ Upto(wanted', moment')
  BY <1>2, DatesGrow, DiscardDates
<1>5. \A v \in discarded' : v \in discarded \/ \E f \in Inputs : v = wanted[f]
  BY DEF Leave, Drop, Unmount, Cancel, TakenBack
<1>6. /\ copy' \in S /\ props' \in S /\ seen' \in S /\ srv' = srv
      /\ \A v \in stored' : v \in stored
  BY <1>2, <1>3
<1> HIDE DEF S
<1> QED
  BY <1>1, <1>4, <1>5, <1>6, OtherDates DEF S

LEMMA RecordDates ==
  ASSUME FInv, [Next]_vars, Other \/ Refresh \/ Return \/ OnChange \/ SaveNothing \/ UNCHANGED vars
  PROVE  Dated'
<1> DEFINE S == {srv, props, copy, seen, None} \cup {writes[j].rec : j \in Sent}
<1>1. UNCHANGED <<writes, discarded>>
  BY DEF Other, Refresh, Return, OnChange, SaveNothing, edit, vars
<1>2. \A j \in Sent' : writes'[j].rec \in S
  BY <1>1 DEF Sent
<1>3. props' \in S /\ copy' \in S /\ seen' \in S
  BY DEF Other, Refresh, Return, OnChange, SaveNothing, record, shown, edit, vars
<1>4. Upto(wanted', moment')
  <2>1. CASE OnChange
    BY <2>1, DiscardDates DEF OnChange
  <2>2. CASE Other \/ Refresh \/ Return \/ SaveNothing \/ UNCHANGED vars
    <3>1. wanted' = wanted
      BY <2>2 DEF Other, Refresh, Return, SaveNothing, edit, vars
    <3> QED
      BY <3>1, DatesGrow
  <2> QED
    BY <2>1, <2>2
<1>5. Upto(srv, moment') /\ moment' \in Nat
  BY DatesGrow
<1>6. Upto(srv', moment') /\ \A v \in stored' : v \in stored \/ v = moment'
  <2>1. CASE Other
    <3>1. CASE srv' = None /\ UNCHANGED <<moment, stored>>
      BY <3>1 DEF Upto
    <3>2. ASSUME NEW f \in Inputs, srv' = [srv EXCEPT ![f] = moment'],
                 stored' = stored \cup {moment'}
          PROVE  Upto(srv', moment') /\ \A v \in stored' : v \in stored \/ v = moment'
      <4>1. srv \in Moments /\ srv # None
        BY <2>1 DEF Other, FInv, IInv, TypeOK
      <4>2. \A g \in Inputs : srv'[g] <= moment'
        BY <1>5, <3>2, <4>1 DEF Upto, Moments
      <4> QED
        BY <3>2, <4>2 DEF Upto
    <3> QED
      BY <2>1, <3>1, <3>2 DEF Other
  <2>2. CASE Refresh \/ Return \/ OnChange \/ SaveNothing \/ UNCHANGED vars
    <3>1. srv' = srv /\ stored' = stored
      BY <2>2 DEF Refresh, Return, OnChange, SaveNothing, record, vars
    <3> QED
      BY <1>5, <3>1
  <2> QED
    BY <2>1, <2>2
<1> HIDE DEF S
<1> QED
  BY <1>1, <1>2, <1>3, <1>4, <1>6, OtherDates DEF S

LEMMA FireDates ==
  ASSUME FInv, [Next]_vars, NEW k \in TimerKinds, Fire(k)
  PROVE  Dated'
<1> DEFINE S == {srv, props, copy, seen, None} \cup {writes[j].rec : j \in Sent}
<1>1. UNCHANGED <<srv, moment, stored, props, wanted, seen, discarded, writes>>
  BY DEF Fire, record, shown
<1>2. props' \in S /\ copy' \in S /\ seen' \in S
  BY <1>1 DEF Fire
<1>3. Upto(srv, moment') /\ Upto(wanted, moment')
  BY DatesGrow
<1>4. (\A j \in Sent' : writes'[j].rec \in S) /\ \A v \in stored' : v \in stored
  BY <1>1 DEF Sent
<1> HIDE DEF S
<1> QED
  BY <1>1, <1>2, <1>3, <1>4, OtherDates DEF S

LEMMA StepAgain ==
  ASSUME FInv, [Next]_vars
  PROVE  timers'["again"] > 0 => form.base = "new"
<1>1. timers["again"] > 0 => form.base = "new"
  BY DEF FInv, Sound
<1>2. timers["again"] \in Nat /\ "again" \in TimerKinds
  BY ConstantsAssumption DEF FInv, IInv, TypeOK, TimerKinds
<1>3. CASE UNCHANGED timers
  BY <1>1, <1>3
<1>4. ASSUME NEW i \in Sent, Resolve(i) PROVE timers'["again"] > 0 => form.base = "new"
  <2> DEFINE kinds == IF writes[i].what \in {"save", "create"} THEN form.timers
                      ELSE IF writes[i].what = "operate" THEN {"enable"} ELSE {}
  <2>1. timers' = [k \in TimerKinds |-> IF k \in kinds THEN timers[k] + 1 ELSE timers[k]]
    BY <1>4 DEF Resolve, Started
  <2>2. CASE "again" \in kinds
    BY <2>2, FormsAssumption DEF FInv, IInv, TypeOK
  <2>3. CASE "again" \notin kinds
    BY <1>1, <1>2, <2>1, <2>3
  <2> QED
    BY <2>2, <2>3
<1>5. ASSUME NEW k \in TimerKinds, Fire(k) PROVE timers'["again"] > 0 => form.base = "new"
  <2>1. timers' = [timers EXCEPT ![k] = @ - 1] /\ timers \in [TimerKinds -> 0..MaxTimers]
    BY <1>5 DEF Fire, FInv, IInv, TypeOK
  <2>2. timers'["again"] = timers["again"] \/ timers'["again"] = timers["again"] - 1
    BY <1>2, <2>1
  <2> QED
    BY <1>1, <1>2, <2>2
<1>6. Leave \/ Drop => timers'["again"] = 0
  BY <1>2 DEF Leave, Drop, Unmount, NoTimers
<1>7. ASSUME NEW f \in Inputs, Edit(f) PROVE UNCHANGED timers
  BY <1>7 DEF Edit
<1>8. Save \/ SaveNothing \/ Delete \/ Act \/ Cancel
      \/ Other \/ Refresh \/ Return \/ OnChange \/ UNCHANGED vars
        => UNCHANGED timers
  BY DEF Save, SaveNothing, Delete, Act, Cancel, Other, Refresh, Return, OnChange, vars, state
<1>9. ASSUME NEW i \in Sent, Serve(i) \/ Reject(i) \/ Forget(i) PROVE UNCHANGED timers
  BY <1>9 DEF Serve, Reject, Forget, state
<1> QED
  BY <1>3, <1>4, <1>5, <1>6, <1>7, <1>8, <1>9 DEF Next

LEMMA StepSound ==
  ASSUME FInv, [Next]_vars
  PROVE  Sound'
<1> DEFINE OK(what, rec, began) ==
             /\ what = "create" => form.base = "new"
             /\ what \in {"save", "act"} => rec \in Moments /\ began \in Moments
<1> SUFFICES \A i \in Sent' : OK(writes'[i].what, writes'[i].rec, writes'[i].began)
  BY StepAgain, FormStays DEF Sound, Written
<1>1. \A i \in Sent : OK(writes[i].what, writes[i].rec, writes[i].began)
  BY DEF FInv, Sound, Written
<1>2. None \notin Moments
  BY NoneIsNoRecord DEF FInv, IInv
<1>3. CASE UNCHANGED writes
  BY <1>1, <1>3 DEF Sent
<1>4. CASE Save \/ Delete \/ Act
  <2> DEFINE w == writes'[Len(writes')]
  <2>1. /\ \A i \in Sent : writes'[i] = writes[i]
        /\ \A i \in Sent' : i \in Sent \/ i = Len(writes')
        /\ ~locked
        /\ \/ /\ Save /\ w.rec = copy /\ w.began = seen
              /\ w.what = IF form.base = "new" THEN "create" ELSE "save"
              /\ IF form.gate = "copy" THEN copy # None ELSE changed
           \/ w.what \in {"delete", "test", "operate"} /\ w.rec = None
           \/ /\ Act /\ w.what = "act" /\ form.acts = "sync"
              /\ w.rec = props /\ w.began = props
           \/ /\ Act /\ w.what = "act" /\ form.acts = "restore"
              /\ w.rec = Base /\ w.began = IF changed THEN seen ELSE props
    BY <1>4, ButtonRequests DEF FInv
  <2>2. /\ props \in Moments /\ seen \in Moments /\ Base \in Moments
        /\ changed => copy \in Moments
        /\ copy # None => copy \in Moments
    BY <1>2, <2>1 DEF Base, FInv, IInv, TypeOK, Shape
  <2> HIDE DEF w
  <2>3. OK(w.what, w.rec, w.began)
    BY <2>1, <2>2
  <2> QED
    BY <1>1, <2>1, <2>3 DEF w
<1>5. CASE Leave \/ Drop
  BY <1>1, <1>5, LeaveRequests DEF FInv
<1>6. ASSUME NEW k \in Sent, Serve(k)
      PROVE  \A i \in Sent' : OK(writes'[i].what, writes'[i].rec, writes'[i].began)
  BY <1>1, <1>6, ServeRequests DEF FInv
<1>7. ASSUME NEW k \in Sent, Resolve(k) \/ Reject(k) \/ Forget(k)
      PROVE  \A i \in Sent' : OK(writes'[i].what, writes'[i].rec, writes'[i].began)
  <2>1. Done(k) /\ Shape
    BY <1>7 DEF Resolve, Reject, Forget, FInv, IInv
  <2>2. \A j \in Sent' : \E i \in Sent \ {k} : writes'[j] = writes[i]
    BY <2>1, Removed
  <2> QED
    BY <1>1, <2>2
<1> QED
  BY <1>3, <1>4, <1>5, <1>6, <1>7, RequestsOf DEF FInv

LEMMA StepFInv ==
  ASSUME FInv, [Next]_vars
  PROVE  FInv'
<1>1. IInv' /\ Sound'
  BY StepIInv, StepSound DEF FInv
<1>2. Dated'
  <2>1. ASSUME NEW f \in Inputs, Edit(f) PROVE Dated'
    BY <2>1, EditDates
  <2>2. CASE Save \/ Delete \/ Act
    BY <2>2, ButtonDates
  <2>3. CASE Cancel \/ Leave \/ Drop
    BY <2>3, LeaveDates
  <2>4. CASE Other \/ Refresh \/ Return \/ OnChange \/ SaveNothing \/ UNCHANGED vars
    BY <2>4, RecordDates
  <2>5. ASSUME NEW i \in Sent, Serve(i) \/ Resolve(i) \/ Reject(i) \/ Forget(i)
        PROVE  Dated'
    BY <2>5, ServeDates, AnswerDates
  <2>6. ASSUME NEW k \in TimerKinds, Fire(k) PROVE Dated'
    BY <2>6, FireDates
  <2> QED
    BY <2>1, <2>2, <2>3, <2>4, <2>5, <2>6 DEF Next
<1> QED
  BY <1>1, <1>2 DEF FInv

LEMMA DatedInvariance == Spec => []FInv
BY InitFInv, StepFInv, PTL DEF Spec

-----------------------------------------------------------------------------
(* What the user saw.                                                      *)

Over(r, s) == \A f \in Inputs : r[f] >= s[f]

\* What is edited, and so what is sent, is nowhere older than the record the
\* edits began from.
Begun ==
    /\ form.base # "new" /\ (changed \/ (~OwnCopy /\ copy # None)) => Over(copy, seen)
    /\ \A i \in Sent : Written(writes[i]) => Over(writes[i].rec, writes[i].began)

LEMMA InitBegun == Init => Begun
<1> SUFFICES ASSUME Init PROVE Begun
  OBVIOUS
<1>1. ~changed /\ (~OwnCopy => copy = None) /\ writes = <<>> /\ Sent = {}
  BY DEF Init, Sent
<1> QED
  BY <1>1 DEF Begun

LEMMA SameOver ==
  ASSUME FInv, NEW r \in Moments PROVE Over(r, r)
BY ConstantsAssumption DEF Over, Moments

LEMMA EditBegun ==
  ASSUME FInv, Begun, [Next]_vars, NEW f \in Inputs, Edit(f), form.base # "new"
  PROVE  Over(copy', seen')
<1> DEFINE B == Base
<1>1. None \notin Moments /\ props \in Moments
  BY NoneIsNoRecord DEF Edit, FInv, IInv, TypeOK, Shape
<1>2. B \in Moments /\ seen \in Moments
  BY <1>1 DEF Base, FInv, IInv, TypeOK, Shape
<1>3. (IF OwnCopy THEN copy ELSE props) \in Moments
  BY <1>1 DEF FInv, IInv, TypeOK, Shape
<1>4. seen' \in Moments /\ Over(B, seen')
  <2>1. CASE changed
    BY <1>2, <2>1 DEF Begun, Edit, Base
  <2>2. CASE ~changed
    <3>1. seen' = B
      BY <2>2 DEF Edit, Base
    <3> QED
      BY <1>2, <3>1, SameOver
  <2> QED
    BY <2>1, <2>2
<1>5. \A g \in Inputs : seen'[g] <= moment' /\ seen'[g] \in Nat /\ moment' \in Nat
  <2>1. /\ moment' \in Nat /\ Upto(seen, moment') /\ Upto(props, moment') /\ Upto(copy, moment')
    BY DatesGrow
  <2>2. seen' = seen \/ seen' = props \/ seen' = copy
    BY DEF Edit
  <2> QED
    BY <1>1, <1>4, <2>1, <2>2, ConstantsAssumption DEF Upto, Moments
<1> HIDE DEF B
<1>6. copy' = [B EXCEPT ![f] = moment']
  BY DEF Edit, B
<1>7. ASSUME NEW g \in Inputs PROVE copy'[g] >= seen'[g]
  <2>1. copy'[g] = (IF g = f THEN moment' ELSE B[g])
    BY <1>2, <1>6 DEF Moments
  <2>2. B[g] >= seen'[g]
    BY <1>4 DEF Over
  <2> QED
    BY <1>5, <2>1, <2>2
<1> QED
  BY <1>7 DEF Over

LEMMA StepBegunCopy ==
  ASSUME FInv, Begun, [Next]_vars, form.base # "new",
         changed' \/ (~OwnCopy /\ copy' # None)
  PROVE  Over(copy', seen')
<1>1. CASE UNCHANGED <<copy, seen>> /\ (changed' => changed)
  BY <1>1 DEF Begun
<1>2. ASSUME NEW f \in Inputs, Edit(f) PROVE Over(copy', seen')
  BY <1>2, EditBegun
<1>3. Save \/ SaveNothing \/ Delete \/ Act
      \/ Other \/ Refresh \/ Return \/ UNCHANGED vars
        => UNCHANGED <<copy, changed, seen>>
  BY DEF Save, SaveNothing, Delete, Act, Other, Refresh, Return, edit, vars
<1>4. ~(Cancel \/ Leave \/ Drop)
  BY DEF Cancel, Leave, Drop, Unmount, GiveUp
<1>5. ASSUME NEW i \in Sent, Serve(i) \/ Resolve(i) \/ Reject(i) \/ Forget(i)
      PROVE  UNCHANGED <<copy, seen>> /\ (changed' => changed)
  <2>1. CASE Serve(i) \/ Reject(i) \/ Forget(i)
    <3>1. UNCHANGED edit
      BY <2>1 DEF Serve, Reject, Forget
    <3> QED
      BY <3>1 DEF edit
  <2>2. CASE Resolve(i)
    <3>1. UNCHANGED <<copy, seen>>
      BY <2>2 DEF Resolve
    <3>2. changed' => changed
      BY <2>2 DEF Resolve
    <3> QED
      BY <3>1, <3>2
  <2> QED
    BY <1>5, <2>1, <2>2
<1>6. CASE OnChange
  <2>1. copy' = props /\ seen' = props /\ props \in Moments
    BY <1>6 DEF OnChange, FInv, IInv, TypeOK, Shape
  <2> QED
    BY <2>1, SameOver
<1>7. ASSUME NEW k \in TimerKinds, Fire(k) PROVE Over(copy', seen')
  <2>1. k # "again"
    <3>1. timers[k] > 0
      BY <1>7 DEF Fire
    <3> QED
      BY <3>1 DEF FInv, Sound
  <2>2. k \in {"drop", "both"} => ~OwnCopy
    <3>1. timers[k] > 0 /\ \A q \in TimerKinds : timers[q] \in Nat
      BY <1>7, ConstantsAssumption DEF Fire, FInv, IInv, TypeOK
    <3>2. k \in {"drop", "both"} => timers["drop"] + timers["both"] > 0
      BY <3>1 DEF TimerKinds
    <3> QED
      BY <3>2 DEF FInv, IInv, Shape
  <2>3. CASE k \in {"drop", "both"} /\ Idle
    BY <1>7, <2>2, <2>3 DEF Fire
  <2>4. CASE ~(k \in {"drop", "both"} /\ Idle)
    BY <1>1, <1>7, <2>1, <2>4 DEF Fire
  <2> QED
    BY <2>3, <2>4
<1> QED
  BY <1>1, <1>2, <1>3, <1>4, <1>5, <1>6, <1>7 DEF Next

LEMMA StepBegunRequests ==
  ASSUME FInv, Begun, [Next]_vars
  PROVE  \A i \in Sent' : writes'[i].what \in {"save", "act"}
                            => Over(writes'[i].rec, writes'[i].began)
<1> DEFINE OK(what, rec, began) == what \in {"save", "act"} => Over(rec, began)
<1> SUFFICES \A i \in Sent' : OK(writes'[i].what, writes'[i].rec, writes'[i].began)
  OBVIOUS
<1>1. \A i \in Sent : OK(writes[i].what, writes[i].rec, writes[i].began)
  BY DEF Begun, Written
<1>2. None \notin Moments
  BY NoneIsNoRecord DEF FInv, IInv
<1>3. CASE UNCHANGED writes
  BY <1>1, <1>3 DEF Sent
<1>4. CASE Save \/ Delete \/ Act
  <2> DEFINE w == writes'[Len(writes')]
  <2>1. /\ \A i \in Sent : writes'[i] = writes[i]
        /\ \A i \in Sent' : i \in Sent \/ i = Len(writes')
        /\ ~locked
        /\ \/ /\ Save /\ w.rec = copy /\ w.began = seen
              /\ w.what = IF form.base = "new" THEN "create" ELSE "save"
              /\ IF form.gate = "copy" THEN copy # None ELSE changed
           \/ w.what \in {"delete", "test", "operate"} /\ w.rec = None
           \/ /\ Act /\ w.what = "act" /\ form.acts = "sync"
              /\ w.rec = props /\ w.began = props
           \/ /\ Act /\ w.what = "act" /\ form.acts = "restore"
              /\ w.rec = Base /\ w.began = IF changed THEN seen ELSE props
    BY <1>4, ButtonRequests DEF FInv
  <2> HIDE DEF w
  <2>2. props \in Moments /\ Over(props, props)
    BY <2>1, SameOver DEF FInv, IInv, TypeOK, Shape
  <2>3. form \in Forms
    BY DEF FInv, IInv, TypeOK
  <2>4. CASE Save /\ w.what = "save" /\ w.rec = copy /\ w.began = seen
    <3>1. form.base # "new" /\ (IF form.gate = "copy" THEN copy # None ELSE changed)
      BY <2>1, <2>4 DEF Save
    <3>2. changed \/ (~OwnCopy /\ copy # None)
      BY <2>3, <3>1, FormsAssumption DEF OwnCopy
    <3> QED
      BY <1>1, <2>1, <2>4, <3>1, <3>2 DEF Begun, w
  <2>5. CASE w.what = "act" /\ form.acts = "sync" /\ w.rec = props /\ w.began = props
    BY <1>1, <2>1, <2>2, <2>5 DEF w
  <2>6. CASE w.what = "act" /\ form.acts = "restore" /\ w.rec = Base
             /\ w.began = IF changed THEN seen ELSE props
    <3>1. ~OwnCopy
      BY <2>3, <2>6, FormsAssumption DEF OwnCopy
    <3>2. Over(w.rec, w.began)
      BY <2>2, <2>6, <3>1 DEF Base, Begun, OwnCopy
    <3> QED
      BY <1>1, <2>1, <3>2 DEF w
  <2>7. CASE w.what \notin {"save", "act"}
    BY <1>1, <2>1, <2>7 DEF w
  <2> QED
    BY <2>1, <2>4, <2>5, <2>6, <2>7
<1>5. CASE Leave \/ Drop
  BY <1>1, <1>5, LeaveRequests DEF FInv
<1>6. ASSUME NEW k \in Sent, Serve(k)
      PROVE  \A i \in Sent' : OK(writes'[i].what, writes'[i].rec, writes'[i].began)
  BY <1>1, <1>6, ServeRequests DEF FInv
<1>7. ASSUME NEW k \in Sent, Resolve(k) \/ Reject(k) \/ Forget(k)
      PROVE  \A i \in Sent' : OK(writes'[i].what, writes'[i].rec, writes'[i].began)
  <2>1. Done(k) /\ Shape
    BY <1>7 DEF Resolve, Reject, Forget, FInv, IInv
  <2>2. \A j \in Sent' : \E i \in Sent \ {k} : writes'[j] = writes[i]
    BY <2>1, Removed
  <2> QED
    BY <1>1, <2>2
<1> QED
  BY <1>3, <1>4, <1>5, <1>6, <1>7, RequestsOf DEF FInv

LEMMA BegunInvariance == Spec => [](FInv /\ Begun)
<1>1. FInv /\ Begun /\ [Next]_vars => FInv' /\ Begun'
  <2> SUFFICES ASSUME FInv, Begun, [Next]_vars PROVE FInv' /\ Begun'
    OBVIOUS
  <2>1. FInv'
    BY StepFInv
  <2>2. Begun'
    BY StepBegunCopy, StepBegunRequests, FormStays DEF Begun, Over, Written
  <2> QED
    BY <2>1, <2>2
<1> QED
  BY InitFInv, InitBegun, <1>1, PTL DEF Spec

\* A save that is served late, or of a form closed since, may write over what
\* others saved, but over nothing the user had before him when he began: the
\* record is sent as a whole, starting from what is shown (set, onSave).
THEOREM SeenIsKept == Spec => SeenKept
<1>1. FInv /\ Begun /\ [Next]_vars =>
        [\A i \in Sent :
           Serve(i) /\ srv # None /\ srv' # None
             => \A f \in Inputs : srv'[f] < srv[f] => srv[f] > writes[i].began[f]]_vars
  <2> SUFFICES ASSUME FInv, Begun, NEW i \in Sent, Serve(i), srv # None, srv' # None,
                      NEW f \in Inputs, srv'[f] < srv[f]
               PROVE  srv[f] > writes[i].began[f]
    OBVIOUS
  <2>1. srv \in Moments /\ srv[f] \in Nat
    BY ConstantsAssumption DEF FInv, IInv, TypeOK, Moments
  <2>2. srv' = writes[i].rec /\ Written(writes[i])
    <3>1. \/ srv' = srv
          \/ srv' = writes[i].rec /\ Written(writes[i])
          \/ srv' = None
      BY ServeRequests DEF FInv
    <3> QED
      BY <2>1, <3>1
  <2>3. /\ writes[i].rec[f] >= writes[i].began[f]
        /\ writes[i].rec[f] \in Nat /\ writes[i].began[f] \in Nat
    BY <2>2, ConstantsAssumption DEF Begun, Over, FInv, Sound, Moments
  <2> QED
    BY <2>1, <2>2, <2>3
<1> QED
  BY BegunInvariance, <1>1, PTL DEF Spec, SeenKept

-----------------------------------------------------------------------------
(* What Cancel takes back.                                                 *)

\* No field that is looked at is edited in the record itself.
Untouched == form.inplace \cap Inputs = {}

Within(r, S) == \A f \in Inputs : r[f] \in S
Clear(r, S) == \A f \in Inputs : r[f] \notin S

\* What is on the server, or comes from it, the server has had.
Known ==
    /\ srv # None => Within(srv, stored)
    /\ form.base # "new" /\ props # None => Within(props, stored)
    /\ \A i \in Sent :
         writes[i].what = "save" /\ writes[i].served /\ writes[i].answer = "ok"
           => Within(writes[i].rec, stored)

\* A value that was taken back the server has never had, and it is in nothing
\* that may still go there.  What a form that was left has sent is not what
\* the user of the form now open may take back.
Taken ==
    /\ \A v \in discarded : v \notin stored
    /\ form.base = "new" => discarded = {}
    /\ copy # None => Clear(copy, discarded)
    /\ \A i \in Sent : Written(writes[i]) /\ ~writes[i].served =>
         /\ Clear(writes[i].rec, discarded)
         /\ ~writes[i].mine =>
              \A f, g \in Inputs : writes[i].rec[g] = wanted[f] => wanted[f] \in stored

CInv == FInv /\ Known /\ Taken

LEMMA InitCInv == Init => CInv
<1> SUFFICES ASSUME Init PROVE CInv
  OBVIOUS
<1>1. /\ srv = Unset /\ props = srv /\ stored = {0} /\ discarded = {}
      /\ writes = <<>> /\ Sent = {}
  BY DEF Init, Sent
<1>2. Within(Unset, {0})
  BY DEF Within, Unset
<1>3. Known
  BY <1>1, <1>2 DEF Known
<1>4. Taken
  BY <1>1 DEF Taken, Clear
<1> QED
  BY <1>3, <1>4, InitFInv DEF CInv

LEMMA StoredGrows ==
  ASSUME [Next]_vars
  PROVE  \A v \in stored : v \in stored'
<1>1. ASSUME NEW i \in Sent, Serve(i) PROVE \A v \in stored : v \in stored'
  BY <1>1 DEF Serve
<1>2. ASSUME NEW f \in Inputs, Edit(f) PROVE stored' = stored
  BY <1>2 DEF Edit
<1>3. Other => \A v \in stored : v \in stored'
  BY DEF Other
<1>4. Save \/ SaveNothing \/ Delete \/ Act \/ Cancel \/ Leave \/ Drop
      \/ Refresh \/ Return \/ OnChange \/ UNCHANGED vars
        => stored' = stored
  BY DEF Save, SaveNothing, Delete, Act, Cancel, Leave, Drop, Unmount, Refresh, Return,
         OnChange, record, vars
<1>5. ASSUME NEW i \in Sent, Resolve(i) \/ Reject(i) \/ Forget(i) PROVE stored' = stored
  BY <1>5 DEF Resolve, Reject, Forget, record
<1>6. ASSUME NEW k \in TimerKinds, Fire(k) PROVE stored' = stored
  BY <1>6 DEF Fire, record
<1> QED
  BY <1>1, <1>2, <1>3, <1>4, <1>5, <1>6 DEF Next

LEMMA StepServerKnown ==
  ASSUME CInv, [Next]_vars, srv' # None
  PROVE  Within(srv', stored')
<1>1. \A v \in stored : v \in stored'
  BY StoredGrows
<1>2. srv # None => Within(srv, stored')
  BY <1>1 DEF Within, CInv, Known
<1>3. ASSUME NEW i \in Sent, Serve(i) PROVE Within(srv', stored')
  BY <1>3, ServeRequests DEF Within, CInv, FInv
<1>4. CASE Other
  <2>1. PICK f \in Inputs : srv' = [srv EXCEPT ![f] = moment'] /\ stored' = stored \cup {moment'}
    BY <1>4 DEF Other
  <2>2. srv # None /\ srv \in Moments
    BY <1>4 DEF Other, CInv, FInv, IInv, TypeOK
  <2> QED
    BY <1>2, <2>1, <2>2 DEF Within, Moments
<1>5. ASSUME NEW f \in Inputs, Edit(f) PROVE srv' = srv
  BY <1>5 DEF Edit
<1>6. Save \/ SaveNothing \/ Delete \/ Act \/ Cancel \/ Leave \/ Drop
      \/ Refresh \/ Return \/ OnChange \/ UNCHANGED vars
        => srv' = srv
  BY DEF Save, SaveNothing, Delete, Act, Cancel, Leave, Drop, Unmount, Refresh, Return,
         OnChange, record, vars
<1>7. ASSUME NEW i \in Sent, Resolve(i) \/ Reject(i) \/ Forget(i) PROVE srv' = srv
  BY <1>7 DEF Resolve, Reject, Forget, record
<1>8. ASSUME NEW k \in TimerKinds, Fire(k) PROVE srv' = srv
  BY <1>8 DEF Fire, record
<1> QED
  BY <1>2, <1>3, <1>4, <1>5, <1>6, <1>7, <1>8 DEF Next

LEMMA StepShownKnown ==
  ASSUME Untouched, CInv, [Next]_vars, form.base # "new", props' # None
  PROVE  Within(props', stored')
<1>1. \A v \in stored : v \in stored'
  BY StoredGrows
<1>2. props # None => Within(props, stored')
  BY <1>1 DEF Within, CInv, Known
<1>3. srv # None => Within(srv, stored')
  BY <1>1 DEF Within, CInv, Known
<1>4. ASSUME NEW f \in Inputs, Edit(f) PROVE props' = props
  <2>1. ~InPlace(f)
    BY DEF Untouched, InPlace
  <2> QED
    BY <1>4, <2>1 DEF Edit
<1>5. Refresh \/ Return \/ Drop => props' = srv \/ props' = None
  BY DEF Refresh, Return, Drop
<1>6. ASSUME NEW i \in Sent, Resolve(i) PROVE Within(props', stored')
  <2>1. CASE props' = props
    BY <1>2, <2>1
  <2>2. CASE props' # props
    <3>1. /\ props' = writes[i].rec /\ writes[i].what \in {"save", "create"}
          /\ writes[i].answer = "ok" /\ writes[i].served
      BY <1>6, <2>2 DEF Resolve, shown
    <3>2. writes[i].what = "save"
      BY <3>1 DEF CInv, FInv, Sound
    <3>3. Within(writes[i].rec, stored)
      BY <3>1, <3>2 DEF CInv, Known
    <3> QED
      BY <1>1, <3>1, <3>3 DEF Within
  <2> QED
    BY <2>1, <2>2
<1>7. Save \/ SaveNothing \/ Delete \/ Act \/ Cancel \/ Leave
      \/ Other \/ OnChange \/ UNCHANGED vars
        => props' = props
  BY DEF Save, SaveNothing, Delete, Act, Cancel, Leave, Other, OnChange, shown, vars
<1>8. ASSUME NEW i \in Sent, Serve(i) \/ Reject(i) \/ Forget(i) PROVE props' = props
  BY <1>8 DEF Serve, Reject, Forget, shown
<1>9. ASSUME NEW k \in TimerKinds, Fire(k) PROVE props' = props
  BY <1>9 DEF Fire, shown
<1> QED
  BY <1>2, <1>3, <1>4, <1>5, <1>6, <1>7, <1>8, <1>9 DEF Next

LEMMA StepKnown ==
  ASSUME Untouched, CInv, [Next]_vars
  PROVE  Known'
<1> DEFINE OK(what, served, answer, rec) ==
             what = "save" /\ served /\ answer = "ok" => Within(rec, stored')
<1> SUFFICES \A i \in Sent' : OK(writes'[i].what, writes'[i].served,
                                 writes'[i].answer, writes'[i].rec)
  BY StepServerKnown, StepShownKnown, FormStays DEF Known, Within
<1>1. \A i \in Sent : OK(writes[i].what, writes[i].served, writes[i].answer, writes[i].rec)
  BY StoredGrows DEF CInv, Known, Within
<1>2. CASE UNCHANGED writes
  BY <1>1, <1>2 DEF Sent
<1>3. CASE Save \/ Delete \/ Act
  <2>1. /\ \A i \in Sent : writes'[i] = writes[i]
        /\ \A i \in Sent' : i \in Sent \/ i = Len(writes')
        /\ ~writes'[Len(writes')].served
    BY <1>3, ButtonRequests DEF CInv, FInv
  <2> QED
    BY <1>1, <2>1
<1>4. CASE Leave \/ Drop
  BY <1>1, <1>4, LeaveRequests DEF CInv, FInv
<1>5. ASSUME NEW k \in Sent, Serve(k)
      PROVE  \A i \in Sent' : OK(writes'[i].what, writes'[i].served,
                                writes'[i].answer, writes'[i].rec)
  <2>1. /\ Sent' = Sent /\ \A j \in Sent \ {k} : writes'[j] = writes[j]
        /\ writes'[k].what = writes[k].what /\ writes'[k].rec = writes[k].rec
        /\ \/ srv' = srv /\ writes'[k].answer # "ok"
           \/ srv' = writes[k].rec /\ Written(writes[k]) /\ srv # None
           \/ srv' = None /\ writes[k].what = "delete"
           \/ srv' = srv /\ ~Written(writes[k])
    BY <1>5, ServeRequests DEF CInv, FInv
  <2>2. OK(writes'[k].what, writes'[k].served, writes'[k].answer, writes'[k].rec)
    <3>1. SUFFICES ASSUME writes[k].what = "save", writes'[k].answer = "ok"
                   PROVE  Within(writes[k].rec, stored')
      BY <2>1
    <3>2. srv' = writes[k].rec /\ writes[k].rec \in Moments
      BY <2>1, <3>1 DEF Written, CInv, FInv, Sound
    <3>3. srv' # None
      BY <3>2, NoneIsNoRecord DEF CInv, FInv, IInv
    <3> QED
      BY <3>2, <3>3, StepServerKnown
  <2> QED
    BY <1>1, <2>1, <2>2
<1>6. ASSUME NEW k \in Sent, Resolve(k) \/ Reject(k) \/ Forget(k)
      PROVE  \A i \in Sent' : OK(writes'[i].what, writes'[i].served,
                                writes'[i].answer, writes'[i].rec)
  <2>1. Done(k) /\ Shape
    BY <1>6 DEF Resolve, Reject, Forget, CInv, FInv, IInv
  <2>2. \A j \in Sent' : \E i \in Sent \ {k} : writes'[j] = writes[i]
    BY <2>1, Removed
  <2> QED
    BY <1>1, <2>2
<1> QED
  BY <1>2, <1>3, <1>4, <1>5, <1>6, RequestsOf DEF CInv, FInv

LEMMA PropsClear ==
  ASSUME CInv, props # None
  PROVE  Clear(props, discarded)
BY DEF CInv, Known, Taken, Within, Clear

\* What Discard leaves wanted the server has had.
LEMMA Discarded ==
  ASSUME CInv, [Next]_vars, Discard
  PROVE  /\ \A f \in Inputs : wanted'[f] \in stored
         /\ \A f \in Inputs : wanted'[f] = wanted[f] \/ wanted'[f] = 0
BY DEF Discard, Saved, CInv, FInv, IInv, Shape

LEMMA StepDiscarded ==
  ASSUME CInv, [Next]_vars
  PROVE  \/ discarded' = discarded
         \/ /\ Cancel /\ form.base # "new"
            /\ \A v \in discarded' : v \in discarded \/ (v \notin stored /\ \E f \in Inputs : v = wanted[f])
<1>1. CASE Cancel
  BY <1>1 DEF Cancel, TakenBack, Saved
<1>2. ASSUME NEW f \in Inputs, Edit(f) PROVE discarded' = discarded
  BY <1>2 DEF Edit
<1>3. Save \/ SaveNothing \/ Delete \/ Act \/ Leave \/ Drop
      \/ Other \/ Refresh \/ Return \/ OnChange \/ UNCHANGED vars
        => discarded' = discarded
  BY DEF Save, SaveNothing, Delete, Act, Leave, Drop, Unmount, Other, Refresh, Return,
         OnChange, edit, vars
<1>4. ASSUME NEW i \in Sent, Serve(i) \/ Resolve(i) \/ Reject(i) \/ Forget(i)
      PROVE  discarded' = discarded
  BY <1>4 DEF Serve, Resolve, Reject, Forget, edit
<1>5. ASSUME NEW k \in TimerKinds, Fire(k) PROVE discarded' = discarded
  BY <1>5 DEF Fire
<1> QED
  BY <1>1, <1>2, <1>3, <1>4, <1>5 DEF Next

LEMMA StepNotStored ==
  ASSUME CInv, [Next]_vars
  PROVE  \A v \in discarded' : v \notin stored'
<1>1. \A v \in discarded : v \notin stored
  BY DEF CInv, Taken
<1>2. CASE Cancel
  <2>1. stored' = stored
    BY <1>2 DEF Cancel, record
  <2> QED
    BY <1>1, <1>2, <2>1, StepDiscarded
<1>3. CASE Other
  <2>1. discarded' = discarded
    BY <1>3 DEF Other, edit
  <2>2. stored' = stored \/ (stored' = stored \cup {moment'} /\ moment' = moment + 1)
    BY <1>3 DEF Other
  <2>3. moment + 1 \notin discarded
    BY NextIsNew DEF CInv
  <2> QED
    BY <1>1, <2>1, <2>2, <2>3
<1>4. ASSUME NEW i \in Sent, Serve(i) PROVE \A v \in discarded' : v \notin stored'
  <2>1. discarded' = discarded
    BY <1>4 DEF Serve, edit
  <2>2. /\ ~writes[i].served
        /\ \/ srv' = srv
           \/ srv' = writes[i].rec /\ Written(writes[i])
           \/ srv' = None
        /\ \A v : v \in stored' <=> v \in stored \/ (srv' # None /\ \E f \in Inputs : v = srv'[f])
    BY <1>4, ServeRequests DEF CInv, FInv
  <2>3. srv' # None => Clear(srv', discarded)
    BY <2>2 DEF CInv, Known, Taken, Within, Clear
  <2> QED
    BY <1>1, <2>1, <2>2, <2>3 DEF Clear
<1>5. ASSUME NEW f \in Inputs, Edit(f) PROVE UNCHANGED <<stored, discarded>>
  BY <1>5 DEF Edit
<1>6. Save \/ SaveNothing \/ Delete \/ Act \/ Leave \/ Drop
      \/ Refresh \/ Return \/ OnChange \/ UNCHANGED vars
        => UNCHANGED <<stored, discarded>>
  BY DEF Save, SaveNothing, Delete, Act, Leave, Drop, Unmount, Refresh, Return,
         OnChange, record, edit, vars
<1>7. ASSUME NEW i \in Sent, Resolve(i) \/ Reject(i) \/ Forget(i)
      PROVE  UNCHANGED <<stored, discarded>>
  BY <1>7 DEF Resolve, Reject, Forget, record, edit
<1>8. ASSUME NEW k \in TimerKinds, Fire(k) PROVE UNCHANGED <<stored, discarded>>
  BY <1>8 DEF Fire, record
<1> QED
  BY <1>1, <1>2, <1>3, <1>4, <1>5, <1>6, <1>7, <1>8 DEF Next

LEMMA StepCopyClear ==
  ASSUME CInv, [Next]_vars, copy' # None
  PROVE  Clear(copy', discarded')
<1>1. copy # None => Clear(copy, discarded)
  BY DEF CInv, Taken
<1>2. props # None => Clear(props, discarded)
  BY PropsClear
<1>3. ASSUME NEW f \in Inputs, Edit(f) PROVE Clear(copy', discarded')
  <2> DEFINE B == Base
  <2>1. None \notin Moments
    BY NoneIsNoRecord DEF CInv, FInv, IInv
  <2>2. B \in Moments /\ Clear(B, discarded)
    BY <1>1, <1>2, <1>3, <2>1 DEF Base, Edit, CInv, FInv, IInv, TypeOK, Shape
  <2> HIDE DEF B
  <2>3. copy' = [B EXCEPT ![f] = moment'] /\ moment' = moment + 1 /\ discarded' = discarded
    BY <1>3 DEF Edit, B
  <2>4. moment' \notin discarded
    BY <2>3, NextIsNew DEF CInv
  <2> QED
    BY <2>2, <2>3, <2>4 DEF Clear, Moments
<1>4. CASE Cancel
  <2>1. copy' = props /\ OwnCopy /\ form.base # "new"
    BY <1>4 DEF Cancel, GiveUp
  <2>2. Within(props, stored) /\ props # None
    BY <2>1 DEF CInv, Known, FInv, IInv, Shape
  <2>3. \A v \in discarded' : v \in discarded \/ v \notin stored
    BY <1>4, StepDiscarded
  <2> QED
    BY <1>2, <2>1, <2>2, <2>3 DEF Clear, Within
<1>5. CASE Leave \/ Drop \/ OnChange
  <2>1. copy' = props /\ discarded' = discarded
    BY <1>5 DEF Leave, Drop, Unmount, GiveUp, OnChange
  <2> QED
    BY <1>2, <2>1
<1>6. Save \/ SaveNothing \/ Delete \/ Act
      \/ Other \/ Refresh \/ Return \/ UNCHANGED vars
        => UNCHANGED <<copy, discarded>>
  BY DEF Save, SaveNothing, Delete, Act, Other, Refresh, Return, edit, vars
<1>7. ASSUME NEW i \in Sent, Serve(i) \/ Resolve(i) \/ Reject(i) \/ Forget(i)
      PROVE  UNCHANGED <<copy, discarded>>
  BY <1>7 DEF Serve, Resolve, Reject, Forget, edit
<1>8. ASSUME NEW k \in TimerKinds, Fire(k)
      PROVE  discarded' = discarded /\ (copy' = None \/ copy' = copy)
  BY <1>8 DEF Fire
<1> QED
  BY <1>1, <1>3, <1>4, <1>5, <1>6, <1>7, <1>8 DEF Next

\* How what the user wants, and what he took back, may change.
LEMMA StepWanted ==
  ASSUME CInv, [Next]_vars
  PROVE  \A f \in Inputs : \/ wanted'[f] = wanted[f]
                           \/ wanted'[f] \in stored
                           \/ wanted'[f] = moment + 1
<1>1. ASSUME NEW f \in Inputs, Edit(f)
      PROVE  \A g \in Inputs : wanted'[g] = wanted[g] \/ wanted'[g] = moment + 1
  <2>1. wanted' = [wanted EXCEPT ![f] = moment + 1] /\ wanted \in Moments
    BY <1>1 DEF Edit, CInv, FInv, IInv, TypeOK
  <2> QED
    BY <2>1 DEF Moments
<1>2. CASE Cancel \/ Leave \/ Drop \/ OnChange
  BY <1>2, Discarded DEF Cancel, Leave, Drop, Unmount, OnChange
<1>3. Save \/ SaveNothing \/ Delete \/ Act
      \/ Other \/ Refresh \/ Return \/ UNCHANGED vars
        => wanted' = wanted
  BY DEF Save, SaveNothing, Delete, Act, Other, Refresh, Return, edit, vars
<1>4. ASSUME NEW i \in Sent, Serve(i) \/ Resolve(i) \/ Reject(i) \/ Forget(i)
      PROVE  wanted' = wanted
  BY <1>4 DEF Serve, Resolve, Reject, Forget, edit
<1>5. ASSUME NEW k \in TimerKinds, Fire(k) PROVE wanted' = wanted
  BY <1>5 DEF Fire
<1> QED
  BY <1>1, <1>2, <1>3, <1>4, <1>5 DEF Next

LEMMA OldRequestsTaken ==
  ASSUME CInv, [Next]_vars, NEW i \in Sent, Written(writes[i]), ~writes[i].served
  PROVE  /\ Clear(writes[i].rec, discarded')
         /\ ~writes[i].mine =>
              \A f, g \in Inputs : writes[i].rec[g] = wanted'[f] => wanted'[f] \in stored'
<1>1. /\ Clear(writes[i].rec, discarded)
      /\ ~writes[i].mine =>
           \A f, g \in Inputs : writes[i].rec[g] = wanted[f] => wanted[f] \in stored
  BY DEF CInv, Taken
<1>2. Clear(writes[i].rec, discarded')
  <2>1. CASE Cancel
    <3>0. ~form.enter
      BY <2>1, FormsAssumption DEF Cancel, CInv, FInv, IInv, TypeOK
    <3>1. ~writes[i].mine
      BY <2>1, <3>0 DEF Cancel, CInv, FInv, IInv, OneWrite
    <3> QED
      BY <1>1, <3>1, StepDiscarded DEF Clear
  <2> QED
    BY <1>1, <2>1, StepDiscarded
<1>3. ASSUME ~writes[i].mine, NEW f \in Inputs, NEW g \in Inputs, writes[i].rec[g] = wanted'[f]
      PROVE  wanted'[f] \in stored'
  <2>1. writes[i].rec \in Moments /\ Upto(writes[i].rec, moment)
    BY DEF CInv, FInv, Sound, Dated
  <2>2. writes[i].rec[g] <= moment /\ writes[i].rec[g] \in Nat /\ moment \in Nat
    <3>1. None \notin Moments
      BY NoneIsNoRecord DEF CInv, FInv, IInv
    <3>2. writes[i].rec[g] <= moment
      BY <2>1, <3>1 DEF Upto
    <3>3. writes[i].rec[g] \in 0..MaxMoment /\ moment \in 0..MaxMoment
      BY <2>1 DEF Moments, CInv, FInv, IInv, TypeOK
    <3> QED
      BY <3>2, <3>3, ConstantsAssumption
  <2>3. wanted'[f] # moment + 1
    BY <1>3, <2>2
  <2>4. \A v \in stored : v \in stored'
    BY StoredGrows
  <2> QED
    BY <1>1, <1>3, <2>3, <2>4, StepWanted
<1> QED
  BY <1>2, <1>3

LEMMA StepTakenRequests ==
  ASSUME CInv, [Next]_vars
  PROVE  \A i \in Sent' : writes'[i].what \in {"save", "act"} /\ ~writes'[i].served =>
           /\ Clear(writes'[i].rec, discarded')
           /\ ~writes'[i].mine =>
                \A f, g \in Inputs : writes'[i].rec[g] = wanted'[f] => wanted'[f] \in stored'
<1> DEFINE Free(rec) == \A f, g \in Inputs : rec[g] = wanted'[f] => wanted'[f] \in stored'
           OK(what, served, mine, rec) ==
             what \in {"save", "act"} /\ ~served
               => Clear(rec, discarded') /\ (~mine => Free(rec))
<1> SUFFICES \A i \in Sent' : OK(writes'[i].what, writes'[i].served,
                                 writes'[i].mine, writes'[i].rec)
  OBVIOUS
<1>1. \A i \in Sent : OK(writes[i].what, writes[i].served, writes[i].mine, writes[i].rec)
  BY OldRequestsTaken DEF Written
<1>2. CASE UNCHANGED writes
  BY <1>1, <1>2 DEF Sent
<1>3. CASE Save \/ Delete \/ Act
  <2> DEFINE w == writes'[Len(writes')]
  <2>1. /\ \A i \in Sent : writes'[i] = writes[i]
        /\ \A i \in Sent' : i \in Sent \/ i = Len(writes')
        /\ w.mine
        /\ \/ /\ Save /\ w.rec = copy
              /\ IF form.gate = "copy" THEN copy # None ELSE changed
           \/ w.what \in {"delete", "test", "operate"}
           \/ /\ Act /\ w.rec \in {props, Base}
        /\ ~locked /\ UNCHANGED edit
    BY <1>3, ButtonRequests DEF CInv, FInv
  <2> HIDE DEF w
  <2>2. props # None /\ Clear(props, discarded) /\ (copy # None => Clear(copy, discarded))
    BY <2>1, PropsClear DEF CInv, Taken, FInv, IInv, Shape
  <2>3. (changed \/ OwnCopy => copy # None) /\ discarded' = discarded
    BY <2>1 DEF CInv, FInv, IInv, TypeOK, Shape, edit
  <2>4. Base # None /\ Clear(Base, discarded)
    BY <2>2, <2>3 DEF Base
  <2>5. w.what \in {"delete", "test", "operate"} \/ Clear(w.rec, discarded')
    <3>1. CASE Save /\ w.rec = copy /\ (IF form.gate = "copy" THEN copy # None ELSE changed)
      BY <2>2, <2>3, <3>1
    <3>2. CASE w.rec \in {props, Base}
      BY <2>2, <2>3, <2>4, <3>2
    <3> QED
      BY <2>1, <3>1, <3>2
  <2>6. OK(w.what, w.served, w.mine, w.rec)
    BY <2>1, <2>5
  <2> QED
    BY <1>1, <2>1, <2>6 DEF w
<1>4. CASE Leave \/ Drop
  <2>1. \A rec : Free(rec)
    BY <1>4, Discarded, StoredGrows DEF Leave, Drop, Unmount
  <2> HIDE DEF Free
  <2> QED
    BY <1>1, <1>4, <2>1, LeaveRequests DEF CInv, FInv
<1>5. ASSUME NEW k \in Sent, Serve(k)
      PROVE  \A i \in Sent' : OK(writes'[i].what, writes'[i].served,
                                writes'[i].mine, writes'[i].rec)
  <2>1. Sent' = Sent /\ writes'[k].served /\ \A j \in Sent \ {k} : writes'[j] = writes[j]
    BY <1>5, ServeRequests DEF CInv, FInv
  <2> HIDE DEF Free
  <2> QED
    BY <1>1, <2>1
<1>6. ASSUME NEW k \in Sent, Resolve(k) \/ Reject(k) \/ Forget(k)
      PROVE  \A i \in Sent' : OK(writes'[i].what, writes'[i].served,
                                writes'[i].mine, writes'[i].rec)
  <2>1. Done(k) /\ Shape
    BY <1>6 DEF Resolve, Reject, Forget, CInv, FInv, IInv
  <2>2. \A j \in Sent' : \E i \in Sent \ {k} : writes'[j] = writes[i]
    BY <2>1, Removed
  <2> HIDE DEF Free
  <2> QED
    BY <1>1, <2>2
<1> QED
  BY <1>2, <1>3, <1>4, <1>5, <1>6, RequestsOf DEF CInv, FInv

LEMMA StepCInv ==
  ASSUME Untouched, CInv, [Next]_vars
  PROVE  CInv'
<1>1. FInv' /\ Known'
  BY StepFInv, StepKnown DEF CInv
<1>2. form' = form /\ Inputs' = Inputs
  BY FormStays
<1>3. form.base = "new" => discarded' = {}
  BY StepDiscarded DEF CInv, Taken
<1>4. copy' # None => \A f \in Inputs : copy'[f] \notin discarded'
  BY StepCopyClear DEF Clear
<1>5. Taken'
  BY <1>2, <1>3, <1>4, StepNotStored, StepTakenRequests DEF Taken, Clear, Written
<1> QED
  BY <1>1, <1>5 DEF CInv

LEMMA TakenInvariance == Spec => [](FInv /\ (Untouched => CInv))
<1>1. (FInv /\ (Untouched => CInv)) /\ [Next]_vars => (FInv /\ (Untouched => CInv))'
  <2> SUFFICES ASSUME FInv, Untouched => CInv, [Next]_vars
               PROVE  FInv' /\ (Untouched' => CInv')
    OBVIOUS
  <2>1. Untouched' => Untouched
    BY FormStays DEF Untouched
  <2> QED
    BY <2>1, StepFInv, StepCInv
<1> QED
  BY InitFInv, InitCInv, <1>1, PTL DEF Spec

\* What the user took back by Cancel never reaches the server after all, also
\* by a save of a form that was closed or by another button (onCancel,
\* GiveUp), as long as the handlers edit copies of the lists of a record.
THEOREM CancelTakesBack == Spec => []CancelCancels
<1>1. FInv /\ (Untouched => CInv) => CancelCancels
  BY DEF Untouched, CInv, Known, Taken, Within, CancelCancels
<1> QED
  BY TakenInvariance, <1>1, PTL

-----------------------------------------------------------------------------
(* What is said to be saved.                                               *)

\* The fields that cannot be used while a request runs.
Closed == Inputs \ form.open

\* What a record has of the fields in Closed is what the user wants, unless
\* that is saved already.
Carries(rec) == \A f \in Closed : rec[f] = wanted[f] \/ Saved(f)

\* In a form without changes all of Closed is saved; changes, and then the
\* save that is sent, carry what is not.  While the row is off the list the
\* form waits for nothing, so that no answer finds it there.
Saving ==
    /\ props = None => ~disabled
    /\ ~changed /\ (locked => props = None) => \A f \in Closed : Saved(f)
    /\ changed => Carries(copy)
    /\ \A i \in Sent : writes[i].mine /\ writes[i].what = "save" =>
         /\ Carries(writes[i].rec)
         /\ writes[i].served /\ writes[i].answer = "ok" => Within(writes[i].rec, stored)

\* Only a form that says so has said that its changes are saved.
Honest == message = "saved" => form.says = "saved"

SInv == FInv /\ Honest /\ (form.says = "saved" => Saving)

LEMMA InitSInv == Init => SInv
<1> SUFFICES ASSUME Init PROVE SInv
  OBVIOUS
<1>1. props = Unset /\ wanted = Unset /\ stored = {0} /\ ~disabled /\ ~changed /\ Sent = {}
  BY DEF Init, Sent
<1>2. \A f \in Inputs : Saved(f)
  BY <1>1 DEF Saved, Unset
<1>3. Saving
  BY <1>1, <1>2 DEF Saving, Closed
<1>4. Honest
  BY DEF Init, Honest
<1> QED
  BY <1>3, <1>4, InitFInv DEF SInv

\* A form that says its changes are saved marks every field it looks at, is
\* that of a record there is, and has its button only.
LEMMA Says ==
  ASSUME FInv, form.says = "saved"
  PROVE  /\ form.base # "new" /\ form.gate = "changed" /\ ~form.enter
         /\ \A f \in Inputs : f \notin form.quiet
         /\ \A i \in Sent : writes[i].what # "create"
         /\ \A i \in Sent : writes[i].mine => disabled
<1>1. form \in Forms
  BY DEF FInv, IInv, TypeOK
<1>2. form.base # "new" /\ form.gate = "changed" /\ ~form.enter /\ form.quiet \cap Fields = {}
  BY <1>1, FormsAssumption
<1> QED
  BY <1>2 DEF Inputs, FInv, IInv, OneWrite, Sound

LEMMA DiscardSaves ==
  ASSUME FInv, [Next]_vars, Discard
  PROVE  \A f \in Inputs : wanted'[f] \in stored'
<1>1. \A f \in Inputs : wanted'[f] \in stored
  BY DEF Discard, Saved, FInv, IInv, Shape
<1> QED
  BY <1>1, StoredGrows

\* What the user wants changes by what he enters, or is discarded.
LEMMA StepWants ==
  ASSUME [Next]_vars
  PROVE  (\E f \in Inputs : Edit(f)) \/ Discard \/ wanted' = wanted
<1>1. Cancel \/ Leave \/ Drop \/ OnChange => Discard
  BY DEF Cancel, Leave, Drop, Unmount, OnChange
<1>2. Save \/ SaveNothing \/ Delete \/ Act \/ Other \/ Refresh \/ Return \/ UNCHANGED vars
        => wanted' = wanted
  BY DEF Save, SaveNothing, Delete, Act, Other, Refresh, Return, edit, vars
<1>3. ASSUME NEW i \in Sent, Serve(i) \/ Resolve(i) \/ Reject(i) \/ Forget(i)
      PROVE  wanted' = wanted
  BY <1>3 DEF Serve, Resolve, Reject, Forget, edit
<1>4. ASSUME NEW k \in TimerKinds, Fire(k) PROVE wanted' = wanted
  BY <1>4 DEF Fire
<1> QED
  BY <1>1, <1>2, <1>3, <1>4 DEF Next

\* What carries the fields in Closed does so while the form is disabled.
LEMMA CarriesStays ==
  ASSUME FInv, [Next]_vars, disabled \/ wanted' = wanted, NEW rec, Carries(rec)
  PROVE  \A f \in Closed : rec[f] = wanted'[f] \/ wanted'[f] \in stored'
<1>1. CASE wanted' = wanted
  BY <1>1, StoredGrows DEF Carries, Saved
<1>2. CASE Discard
  BY <1>2, DiscardSaves DEF Closed
<1>3. ASSUME NEW g \in Inputs, Edit(g), disabled
      PROVE  \A f \in Closed : rec[f] = wanted'[f] \/ wanted'[f] \in stored'
  <2>1. g \notin Closed
    BY <1>3 DEF Edit, Editable, Closed
  <2>2. wanted' = [wanted EXCEPT ![g] = moment']
    BY <1>3 DEF Edit
  <2>3. wanted \in [Inputs -> 0..MaxMoment]
    BY DEF FInv, IInv, TypeOK, Moments
  <2>4. \A f \in Closed : wanted'[f] = wanted[f]
    BY <2>1, <2>2, <2>3 DEF Closed
  <2> QED
    BY <2>4, StoredGrows DEF Carries, Saved
<1> QED
  BY <1>1, <1>2, <1>3, StepWants

LEMMA StepDisabled ==
  ASSUME FInv, Saving, form.says = "saved", [Next]_vars, props' = None
  PROVE  ~disabled'
<1>1. locked'
  BY StepIInv DEF FInv, IInv, Shape
<1>2. CASE UNCHANGED props /\ (disabled' => disabled)
  BY <1>2 DEF Saving
<1>3. ASSUME NEW f \in Inputs, Edit(f) PROVE FALSE
  BY <1>1, <1>3 DEF Edit
<1>4. ~(Save \/ SaveNothing \/ Delete \/ Act \/ Cancel \/ Refresh \/ Return)
  BY <1>1 DEF Save, SaveNothing, Delete, Act, Cancel, Refresh, Return, state
<1>5. Leave \/ Drop => disabled' = FALSE
  BY DEF Leave, Drop, Unmount
<1>6. Other \/ OnChange \/ UNCHANGED vars => UNCHANGED <<props, disabled>>
  BY DEF Other, OnChange, shown, state, vars
<1>7. ASSUME NEW i \in Sent, Serve(i) \/ Reject(i) \/ Forget(i)
      PROVE  UNCHANGED props /\ (disabled' => disabled)
  BY <1>7 DEF Serve, Reject, Forget, shown, state
<1>8. ASSUME NEW i \in Sent, Resolve(i) PROVE FALSE
  <2>1. disabled /\ props # None
    BY <1>8, Says DEF Resolve, Saving
  <2>2. props' = props \/ (writes[i].what \in {"save", "create"} /\ props' = writes[i].rec)
    BY <1>8 DEF Resolve, shown
  <2> QED
    BY <2>1, <2>2 DEF FInv, IInv, Shape
<1>9. ASSUME NEW k \in TimerKinds, Fire(k) PROVE UNCHANGED props /\ (disabled' => disabled)
  BY <1>9 DEF Fire, shown
<1> QED
  BY <1>2, <1>3, <1>4, <1>5, <1>6, <1>7, <1>8, <1>9 DEF Next

\* The answer that ends the changes is that to a save which carried them.
LEMMA ResolveSaves ==
  ASSUME FInv, Saving, form.says = "saved", [Next]_vars, NEW i \in Sent, Resolve(i),
         ~changed', locked' => props' = None
  PROVE  \A f \in Closed : Saved(f)
<1> DEFINE w == writes[i]
           saves == w.what \in {"save", "create"}
           ends == w.what = "delete" /\ form.base = "store"
<1>1. w.mine /\ w.served /\ w.answer \in {"ok", "auth"}
  BY DEF Resolve
<1>2. disabled /\ props # None
  BY <1>1, Says DEF Saving
<1>3. props' # None
  <2>1. props' = props \/ (saves /\ props' = w.rec)
    BY DEF Resolve, shown
  <2> QED
    BY <1>2, <2>1 DEF FInv, IInv, Shape
<1>4. /\ locked' = (locked \/ ends \/ (saves /\ form.locks) \/ w.answer = "auth")
      /\ changed' = (changed /\ ~saves /\ ~ends)
  BY DEF Resolve
<1>5. ~locked'
  BY <1>3
<1>6. w.answer = "ok" /\ ~locked /\ ~ends
  BY <1>1, <1>4, <1>5
<1>7. CASE saves
  <2>1. w.what = "save"
    BY <1>7, Says
  <2>2. Carries(w.rec) /\ Within(w.rec, stored)
    BY <1>1, <1>6, <2>1 DEF Saving
  <2> QED
    BY <2>2 DEF Carries, Within, Saved, Closed
<1>8. CASE ~saves
  BY <1>4, <1>6, <1>8 DEF Saving
<1> QED
  BY <1>7, <1>8

LEMMA StepUnchanged ==
  ASSUME FInv, Saving, form.says = "saved", [Next]_vars,
         ~changed', locked' => props' = None
  PROVE  \A f \in Closed : wanted'[f] \in stored'
<1>1. ASSUME wanted' = wanted, ~changed, locked => props = None
      PROVE  \A f \in Closed : wanted'[f] \in stored'
  BY <1>1, StoredGrows DEF Saving, Saved
<1>2. CASE Discard
  BY <1>2, DiscardSaves DEF Closed
<1>3. ASSUME NEW f \in Inputs, Edit(f) PROVE FALSE
  BY <1>3, Says DEF Edit
<1>4. CASE wanted' = wanted
  <2>1. Save \/ SaveNothing \/ Delete \/ Act \/ Other \/ UNCHANGED vars
          => UNCHANGED <<changed, locked, props>>
    BY DEF Save, SaveNothing, Delete, Act, Other, shown, edit, state, vars
  <2>2. Refresh => ~locked /\ changed' = changed
    BY DEF Refresh, edit
  <2>3. Return => props = None /\ changed' = changed
    BY DEF Return, edit
  <2>4. Cancel \/ Leave \/ Drop \/ OnChange => Discard
    BY DEF Cancel, Leave, Drop, Unmount, OnChange
  <2>5. ASSUME NEW i \in Sent, Serve(i) \/ Reject(i) \/ Forget(i)
        PROVE  UNCHANGED <<changed, locked, props>>
    BY <2>5 DEF Serve, Reject, Forget, shown, edit, state
  <2>6. ASSUME NEW i \in Sent, Resolve(i)
        PROVE  \A f \in Closed : wanted'[f] \in stored'
    BY <1>4, <2>6, ResolveSaves, StoredGrows DEF Saved
  <2>7. ASSUME NEW k \in TimerKinds, Fire(k) PROVE ~changed /\ UNCHANGED <<locked, props>>
    BY <2>7 DEF Fire, Idle, shown
  <2> QED
    BY <1>1, <1>2, <1>3, <1>4, <2>1, <2>2, <2>3, <2>4, <2>5, <2>6, <2>7 DEF Next
<1> QED
  BY <1>2, <1>3, <1>4, StepWants

LEMMA EditCarries ==
  ASSUME FInv, Saving, form.says = "saved", [Next]_vars, NEW g \in Inputs, Edit(g)
  PROVE  \A f \in Closed : copy'[f] = wanted'[f] \/ wanted'[f] \in stored'
<1> DEFINE B == Base
<1>1. None \notin Moments
  BY NoneIsNoRecord DEF FInv, IInv
<1>2. B \in Moments /\ wanted \in Moments
  BY <1>1 DEF Base, Edit, FInv, IInv, TypeOK, Shape
<1>3. \A f \in Closed : B[f] = wanted[f] \/ Saved(f)
  <2>1. CASE changed
    BY <2>1 DEF Base, Saving, Carries
  <2>2. CASE ~changed
    BY <2>2 DEF Edit, Saving
  <2> QED
    BY <2>1, <2>2
<1> HIDE DEF B
<1>4. copy' = [B EXCEPT ![g] = moment'] /\ wanted' = [wanted EXCEPT ![g] = moment']
  BY DEF Edit, B
<1>5. \A f \in Inputs : \/ f = g /\ copy'[f] = moment' /\ wanted'[f] = moment'
                        \/ copy'[f] = B[f] /\ wanted'[f] = wanted[f]
  BY <1>2, <1>4 DEF Moments
<1> QED
  BY <1>3, <1>5, StoredGrows DEF Saved, Closed

LEMMA StepChanged ==
  ASSUME FInv, Saving, form.says = "saved", [Next]_vars, changed'
  PROVE  \A f \in Closed : copy'[f] = wanted'[f] \/ wanted'[f] \in stored'
<1>1. CASE changed /\ UNCHANGED <<copy, wanted>>
  BY <1>1, CarriesStays DEF Saving
<1>2. ASSUME NEW g \in Inputs, Edit(g)
      PROVE  \A f \in Closed : copy'[f] = wanted'[f] \/ wanted'[f] \in stored'
  BY <1>2, EditCarries
<1>3. CASE OnChange
  <2>1. Discard
    BY <1>3 DEF OnChange
  <2> QED
    BY <2>1, DiscardSaves DEF Closed
<1>4. ~(Cancel \/ Leave \/ Drop)
  BY DEF Cancel, Leave, Drop, Unmount, GiveUp
<1>5. Save \/ SaveNothing \/ Delete \/ Act \/ Other \/ Refresh \/ Return \/ UNCHANGED vars
        => UNCHANGED <<copy, changed, wanted>>
  BY DEF Save, SaveNothing, Delete, Act, Other, Refresh, Return, edit, vars
<1>6. ASSUME NEW i \in Sent, Serve(i) \/ Reject(i) \/ Forget(i)
      PROVE  UNCHANGED <<copy, changed, wanted>>
  BY <1>6 DEF Serve, Reject, Forget, edit
<1>7. ASSUME NEW i \in Sent, Resolve(i) PROVE changed /\ UNCHANGED <<copy, wanted>>
  BY <1>7 DEF Resolve
<1>8. ASSUME NEW k \in TimerKinds, Fire(k) PROVE changed /\ UNCHANGED <<copy, wanted>>
  <2>1. k # "again"
    <3>1. timers[k] > 0
      BY <1>8 DEF Fire
    <3> QED
      BY <3>1, Says DEF FInv, Sound
  <2>2. wanted' = wanted /\ ~(k \in {"drop", "both"} /\ Idle)
    BY <1>8 DEF Fire
  <2> QED
    BY <1>8, <2>1, <2>2 DEF Fire
<1> QED
  BY <1>1, <1>2, <1>3, <1>4, <1>5, <1>6, <1>7, <1>8 DEF Next

LEMMA StepSends ==
  ASSUME FInv, Saving, form.says = "saved", [Next]_vars
  PROVE  \A i \in Sent' : writes'[i].mine /\ writes'[i].what = "save" =>
           /\ \A f \in Closed : writes'[i].rec[f] = wanted'[f] \/ wanted'[f] \in stored'
           /\ writes'[i].served /\ writes'[i].answer = "ok" => Within(writes'[i].rec, stored')
<1> DEFINE Holds(rec) == \A f \in Closed : rec[f] = wanted'[f] \/ wanted'[f] \in stored'
           OK(mine, what, rec, served, answer) ==
             mine /\ what = "save" =>
               Holds(rec) /\ (served /\ answer = "ok" => Within(rec, stored'))
<1> SUFFICES \A i \in Sent' : OK(writes'[i].mine, writes'[i].what, writes'[i].rec,
                                 writes'[i].served, writes'[i].answer)
  OBVIOUS
<1>1. \A i \in Sent : OK(writes[i].mine, writes[i].what, writes[i].rec,
                         writes[i].served, writes[i].answer)
  <2> SUFFICES ASSUME NEW i \in Sent, writes[i].mine, writes[i].what = "save"
               PROVE  Holds(writes[i].rec)
                      /\ (writes[i].served /\ writes[i].answer = "ok" => Within(writes[i].rec, stored'))
    OBVIOUS
  <2>1. disabled /\ Carries(writes[i].rec)
    BY Says DEF Saving
  <2>2. Holds(writes[i].rec)
    BY <2>1, CarriesStays
  <2> QED
    BY <2>2, StoredGrows DEF Saving, Within
<1>2. CASE UNCHANGED writes
  BY <1>1, <1>2 DEF Sent
<1>3. CASE Save \/ Delete \/ Act
  <2> DEFINE w == writes'[Len(writes')]
  <2>1. /\ \A i \in Sent : writes'[i] = writes[i]
        /\ \A i \in Sent' : i \in Sent \/ i = Len(writes')
        /\ ~w.served /\ UNCHANGED edit
        /\ \/ w.rec = copy /\ (IF form.gate = "copy" THEN copy # None ELSE changed)
           \/ w.what \in {"delete", "test", "operate", "act"}
    BY <1>3, ButtonRequests DEF FInv
  <2> HIDE DEF w
  <2>2. ASSUME w.what = "save" PROVE Holds(w.rec)
    <3>1. w.rec = copy /\ changed /\ wanted' = wanted
      BY <2>1, <2>2, Says DEF edit
    <3> QED
      BY <3>1, CarriesStays DEF Saving
  <2> HIDE DEF Holds
  <2>3. OK(w.mine, w.what, w.rec, w.served, w.answer)
    BY <2>1, <2>2
  <2> QED
    BY <1>1, <2>1, <2>3 DEF w
<1> HIDE DEF Holds
<1>4. CASE Leave \/ Drop
  BY <1>4, LeaveRequests DEF FInv
<1>5. ASSUME NEW k \in Sent, Serve(k)
      PROVE  \A i \in Sent' : OK(writes'[i].mine, writes'[i].what, writes'[i].rec,
                                writes'[i].served, writes'[i].answer)
  <2>1. /\ Sent' = Sent /\ \A j \in Sent \ {k} : writes'[j] = writes[j]
        /\ writes'[k].what = writes[k].what /\ writes'[k].rec = writes[k].rec
        /\ writes'[k].mine = writes[k].mine
        /\ \/ srv' = srv /\ writes'[k].answer # "ok"
           \/ srv' = writes[k].rec /\ Written(writes[k])
           \/ srv' = None /\ writes[k].what = "delete"
           \/ srv' = srv /\ ~Written(writes[k])
        /\ \A v : v \in stored' <=> v \in stored \/ (srv' # None /\ \E f \in Inputs : v = srv'[f])
    BY <1>5, ServeRequests DEF FInv
  <2>2. ASSUME writes[k].what = "save", writes'[k].answer = "ok"
        PROVE  Within(writes[k].rec, stored')
    <3>1. srv' = writes[k].rec /\ writes[k].rec \in Moments
      BY <2>1, <2>2 DEF Written, FInv, Sound
    <3>2. srv' # None
      BY <3>1, NoneIsNoRecord DEF FInv, IInv
    <3> QED
      BY <2>1, <3>1, <3>2 DEF Within
  <2>3. OK(writes'[k].mine, writes'[k].what, writes'[k].rec,
           writes'[k].served, writes'[k].answer)
    BY <1>1, <2>1, <2>2
  <2> QED
    BY <1>1, <2>1, <2>3
<1>6. ASSUME NEW k \in Sent, Resolve(k) \/ Reject(k) \/ Forget(k)
      PROVE  \A i \in Sent' : OK(writes'[i].mine, writes'[i].what, writes'[i].rec,
                                writes'[i].served, writes'[i].answer)
  <2>1. Done(k) /\ Shape
    BY <1>6 DEF Resolve, Reject, Forget, FInv, IInv
  <2>2. \A j \in Sent' : \E i \in Sent \ {k} : writes'[j] = writes[i]
    BY <2>1, Removed
  <2> QED
    BY <1>1, <2>2
<1> QED
  BY <1>2, <1>3, <1>4, <1>5, <1>6, RequestsOf DEF FInv

LEMMA StepMessage ==
  ASSUME [Next]_vars, message' = "saved"
  PROVE  message = "saved" \/ form.says = "saved"
<1>1. ASSUME NEW f \in Inputs, Edit(f) PROVE message' \in {"none", message}
  BY <1>1 DEF Edit
<1>2. Save \/ SaveNothing \/ Delete \/ Act \/ Other \/ Refresh \/ Return \/ OnChange
        \/ UNCHANGED vars => message' = message
  BY DEF Save, SaveNothing, Delete, Act, Other, Refresh, Return, OnChange, state, vars
<1>3. Cancel => message' \in {"discarded", message}
  BY DEF Cancel
<1>4. Leave \/ Drop => message' = "none"
  BY DEF Leave, Drop, Unmount
<1>5. ASSUME NEW i \in Sent, Serve(i) \/ Forget(i) PROVE message' = message
  BY <1>5 DEF Serve, Forget, state
<1>6. ASSUME NEW i \in Sent, Resolve(i) PROVE message' \in {message, form.says, "deleted"}
  BY <1>6 DEF Resolve
<1>7. ASSUME NEW i \in Sent, Reject(i) PROVE message' \in {message, "none"}
  BY <1>7 DEF Reject
<1>8. ASSUME NEW k \in TimerKinds, Fire(k) PROVE message' \in {message, "none"}
  BY <1>8 DEF Fire
<1> QED
  BY <1>1, <1>2, <1>3, <1>4, <1>5, <1>6, <1>7, <1>8 DEF Next

LEMMA StepSInv ==
  ASSUME SInv, [Next]_vars
  PROVE  SInv'
<1>1. FInv' /\ form' = form /\ Inputs' = Inputs /\ Closed' = Closed
  BY StepFInv, FormStays DEF SInv, Closed
<1>2. ASSUME form.says = "saved" PROVE Saving'
  <2>1. FInv /\ Saving
    BY <1>2 DEF SInv
  <2>2. props' = None => ~disabled'
    BY <1>2, <2>1, StepDisabled
  <2>3. ~changed' /\ (locked' => props' = None) => \A f \in Closed' : Saved(f)'
    BY <1>1, <1>2, <2>1, StepUnchanged DEF Saved
  <2>4. changed' => Carries(copy)'
    BY <1>1, <1>2, <2>1, StepChanged DEF Saved, Carries
  <2>5. \A i \in Sent' : writes'[i].mine /\ writes'[i].what = "save" =>
          /\ \A f \in Closed' : writes'[i].rec[f] = wanted'[f] \/ Saved(f)'
          /\ writes'[i].served /\ writes'[i].answer = "ok"
               => \A f \in Inputs' : writes'[i].rec[f] \in stored'
    BY <1>1, <1>2, <2>1, StepSends DEF Saved, Within
  <2> QED
    BY <2>2, <2>3, <2>4, <2>5 DEF Saving, Carries, Within
<1>3. Honest'
  BY <1>1, StepMessage DEF SInv, Honest
<1> QED
  BY <1>1, <1>2, <1>3 DEF SInv

\* What a form says is saved the server has had, of every field that cannot be
\* used while the save runs, whenever the user edits and whichever request is
\* served first (onSave, .then, and the disabled inputs).
THEOREM SavedIsSaved == Spec => []GuardedSaved
<1>1. SInv => GuardedSaved
  BY DEF SInv, Honest, Saving, GuardedSaved, SaysSaved, Closed
<1> QED
  BY InitSInv, StepSInv, <1>1, PTL DEF Spec
=============================================================================
