------------------------ MODULE ConsoleSelectionProofs ------------------------
(***************************************************************************)
(* Theorems about ConsoleSelection, for every list, every change of its    *)
(* rows, every length of the hold and every number of presses.             *)
(***************************************************************************)
EXTENDS ConsoleSelection, FiniteSetTheorems, TLAPS

\* Who holds a button or has a dialog open was let to do so by buttons that
\* were enabled, and keeps every other request from being sent.
OneHand ==
    /\ confirming # 0 => dialog = None /\ bulk = {}
    /\ dialog # None => bulk = {}

\* Nothing is in flight, or one request is and the buttons are disabled.
OneRequest == bulk = {} \/ (disabled /\ \E b : bulk = {b})

\* The press that is on has not been let go.
HeldNow == confirming \notin ended

IInv == TypeOK /\ SelectedShown /\ OneHand /\ OneRequest /\ HeldNow

LEMMA InitIInv == Init => IInv
<1> SUFFICES ASSUME Init PROVE IInv
  OBVIOUS
<1>1. TypeOK
  <2>1. DOMAIN timers = {}
    BY DEF Init
  <2>2. presses = 0 /\ confirming = 0 /\ 0 \in 0..MaxPresses /\ 0 \in 0..0
    BY ConstantsAssumption DEF Init
  <2> QED
    BY <2>1, <2>2 DEF Init, TypeOK
<1> QED
  BY <1>1 DEF Init, IInv, SelectedShown, OneHand, OneRequest, HeldNow
-----------------------------------------------------------------------------
(* Type correctness.                                                       *)

\* The timers of a state that has one more press, or one timer less.
LEMMA PressTypeOK ==
  ASSUME TypeOK, NEW op \in Ops, Press(op)
  PROVE  TypeOK'
<1>1. presses' \in 0..MaxPresses /\ presses' = presses + 1
  BY ConstantsAssumption DEF TypeOK, Press
<1>2. DOMAIN timers' = DOMAIN timers \cup {presses'}
  BY DEF Press
<1>3. \A p \in DOMAIN timers' : timers'[p] \in 0..Ticks
  BY ConstantsAssumption DEF TypeOK, Press
<1> QED
  BY <1>1, <1>2, <1>3, ConstantsAssumption
     DEF TypeOK, Press, modal, table, Ops

LEMMA TickTypeOK ==
  ASSUME TypeOK, NEW p \in DOMAIN timers, Tick(p)
  PROVE  TypeOK'
<1>1. DOMAIN timers' \subseteq DOMAIN timers
  BY DEF Tick, Without
<1>2. \A q \in DOMAIN timers' : timers'[q] \in 0..Ticks
  BY ConstantsAssumption DEF TypeOK, Tick, Without
<1> QED
  BY <1>1, <1>2 DEF TypeOK, Tick, modal, table, Ops

LEMMA FireTypeOK ==
  ASSUME TypeOK, NEW p \in DOMAIN timers, Fire(p)
  PROVE  TypeOK'
<1>1. DOMAIN timers' \subseteq DOMAIN timers
  BY DEF Fire, Without
<1>2. \A q \in DOMAIN timers' : timers'[q] \in 0..Ticks
  BY DEF TypeOK, Fire, Without
<1>3. confirming' \in 0..presses' /\ fired' \subseteq 1..presses' /\ disabled' \in BOOLEAN
  <2>1. presses' = presses /\ p \in 1..presses /\ 0 \in 0..presses
    BY DEF TypeOK, Fire
  <2>2. CASE Mine(p)
    BY <2>1, <2>2 DEF TypeOK, Fire, Send
  <2>3. CASE ~Mine(p)
    BY <2>1, <2>3 DEF TypeOK, Fire
  <2> QED
    BY <2>2, <2>3
<1> QED
  BY <1>1, <1>2, <1>3 DEF TypeOK, Fire, modal, table, Ops

LEMMA NextTypeOK == TypeOK /\ [Next]_vars => TypeOK'
<1> SUFFICES ASSUME TypeOK, [Next]_vars PROVE TypeOK'
  OBVIOUS
<1> USE DEF TypeOK, table, modal, held, Ops
<1>1. CASE OnChange \/ CollapseAll \/ OnPage \/ New
  BY <1>1 DEF OnChange, CollapseAll, OnPage, New
<1>2. ASSUME NEW id \in Shown(rows), OnOpen(id) \/ \E shift \in BOOLEAN : OnSelect(id, shift)
      PROVE  TypeOK'
  BY <1>2 DEF OnOpen, OnSelect
<1>3. CASE Type \/ CloseDialog \/ CloseDialogConfirm
  BY <1>3 DEF Type, CloseDialog, CloseDialogConfirm, Send
<1>4. CASE ClearConfirm
  BY <1>4 DEF ClearConfirm
<1>5. ASSUME NEW op \in Ops, OpenDialog(op) \/ PressShift(op)
      PROVE  TypeOK'
  BY <1>5 DEF OpenDialog, PressShift, Send
<1>6. ASSUME NEW op \in Ops, Press(op)
      PROVE  TypeOK'
  BY <1>6, PressTypeOK
<1>7. ASSUME NEW p \in DOMAIN timers, Tick(p) \/ Fire(p)
      PROVE  TypeOK'
  BY <1>7, TickTypeOK, FireTypeOK
<1>8. ASSUME NEW b \in bulk, Resolved(b) \/ Rejected(b)
      PROVE  TypeOK'
  BY <1>8 DEF Resolved, Rejected
<1>9. CASE UNCHANGED vars
  BY <1>9 DEF vars
<1> QED
  BY <1>1, <1>2, <1>3, <1>4, <1>5, <1>6, <1>7, <1>8, <1>9 DEF Next
-----------------------------------------------------------------------------
(* The rows.                                                               *)

LEMMA NextSelectedShown == SelectedShown /\ [Next]_vars => SelectedShown'
<1> SUFFICES ASSUME SelectedShown, [Next]_vars PROVE SelectedShown'
  OBVIOUS
<1> USE DEF SelectedShown, table
<1>1. CASE OnChange
  BY <1>1 DEF OnChange
<1>2. CASE CollapseAll \/ OnPage \/ New
  BY <1>2 DEF CollapseAll, OnPage, New
<1>3. ASSUME NEW id \in Shown(rows), NEW shift \in BOOLEAN, OnSelect(id, shift)
      PROVE  SelectedShown'
  <2>1. \A a, c : Between(a, c) \subseteq Shown(rows)
    BY DEF Between, Shown
  <2>2. Toggled(selected, id) \subseteq Shown(rows)
    BY DEF Toggled
  <2>3. selected' \subseteq Shown(rows)
    BY <1>3, <2>1, <2>2 DEF OnSelect
  <2> QED
    BY <1>3, <2>3 DEF OnSelect, Shown
<1>4. ASSUME NEW id \in Shown(rows), OnOpen(id)
      PROVE  SelectedShown'
  BY <1>4 DEF OnOpen, Toggled, Shown
<1>5. CASE Type \/ CloseDialog \/ CloseDialogConfirm \/ ClearConfirm
  BY <1>5 DEF Type, CloseDialog, CloseDialogConfirm, ClearConfirm
<1>6. ASSUME NEW op \in Ops, OpenDialog(op) \/ Press(op) \/ PressShift(op)
      PROVE  SelectedShown'
  BY <1>6 DEF OpenDialog, Press, PressShift
<1>7. ASSUME NEW p \in DOMAIN timers, Tick(p) \/ Fire(p)
      PROVE  SelectedShown'
  BY <1>7 DEF Tick, Fire
<1>8. ASSUME NEW b \in bulk, Resolved(b) \/ Rejected(b)
      PROVE  SelectedShown'
  BY <1>8 DEF Resolved, Rejected
<1>9. CASE UNCHANGED vars
  BY <1>9 DEF vars
<1> QED
  BY <1>1, <1>2, <1>3, <1>4, <1>5, <1>6, <1>7, <1>8, <1>9 DEF Next
-----------------------------------------------------------------------------
(* One hand, one request.                                                  *)

\* Buttons that are enabled have nothing in flight.
LEMMA SendOnce ==
  ASSUME NEW op, bulk = {}, Send(op)
  PROVE  OneRequest'
<1>1. bulk' = {[op |-> list.bulk[op], ids |-> selected]} /\ disabled'
  BY DEF Send
<1> QED
  BY <1>1 DEF OneRequest

LEMMA NextOneRequest ==
  TypeOK /\ OneHand /\ OneRequest /\ [Next]_vars => OneHand' /\ OneRequest'
<1> SUFFICES ASSUME TypeOK, OneHand, OneRequest, [Next]_vars
             PROVE  OneHand' /\ OneRequest'
  OBVIOUS
<1> USE DEF OneHand, table, modal, held
<1>1. CASE OnChange \/ CollapseAll \/ OnPage
  BY <1>1 DEF OnChange, CollapseAll, OnPage, OneRequest
<1>2. CASE New
  <2>1. bulk = {} /\ dialog = None /\ confirming = 0
    BY <1>2 DEF New, Free, OneRequest
  <2>2. bulk' = {[op |-> "POST", ids |-> {}]} /\ disabled'
    BY <1>2, <2>1 DEF New
  <2> QED
    BY <1>2, <2>1, <2>2 DEF New, OneRequest
<1>3. ASSUME NEW id \in Shown(rows), OnOpen(id) \/ \E shift \in BOOLEAN : OnSelect(id, shift)
      PROVE  OneHand' /\ OneRequest'
  BY <1>3 DEF OnOpen, OnSelect, OneRequest
<1>4. CASE Type \/ CloseDialog \/ ClearConfirm
  BY <1>4 DEF Type, CloseDialog, ClearConfirm, OneRequest
<1>5. CASE CloseDialogConfirm
  <2>1. bulk = {} /\ confirming = 0
    BY <1>5 DEF CloseDialogConfirm
  <2> QED
    BY <1>5, <2>1, SendOnce DEF CloseDialogConfirm
<1>6. ASSUME NEW op \in Ops, OpenDialog(op) \/ Press(op)
      PROVE  OneHand' /\ OneRequest'
  <2>1. bulk = {} /\ bulk' = {}
    BY <1>6 DEF OpenDialog, Press, Enabled, OneRequest
  <2>2. confirming' # 0 => dialog' = None
    BY <1>6 DEF OpenDialog, Press, Free
  <2> QED
    BY <2>1, <2>2 DEF OneRequest
<1>7. ASSUME NEW op \in Ops, PressShift(op)
      PROVE  OneHand' /\ OneRequest'
  <2>1. bulk = {} /\ dialog = None /\ confirming = 0
    BY <1>7 DEF PressShift, Free, Enabled, OneRequest
  <2> QED
    BY <1>7, <2>1, SendOnce DEF PressShift
<1>8. ASSUME NEW p \in DOMAIN timers, Tick(p)
      PROVE  OneHand' /\ OneRequest'
  BY <1>8 DEF Tick, OneRequest
<1>9. ASSUME NEW p \in DOMAIN timers, Fire(p)
      PROVE  OneHand' /\ OneRequest'
  <2>1. CASE Mine(p)
    <3>1. confirming # 0
      BY <2>1 DEF Mine, TypeOK
    <3>2. bulk = {} /\ dialog' = None /\ confirming' = 0
      BY <1>9, <2>1, <3>1 DEF Fire
    <3> QED
      BY <1>9, <2>1, <3>2, SendOnce DEF Fire
  <2>2. CASE ~Mine(p)
    BY <1>9, <2>2 DEF Fire, OneRequest
  <2> QED
    BY <2>1, <2>2
<1>10. ASSUME NEW b \in bulk, Resolved(b) \/ Rejected(b)
       PROVE  OneHand' /\ OneRequest'
  <2>1. bulk' = {}
    BY <1>10 DEF Resolved, Rejected, OneRequest
  <2> QED
    BY <1>10, <2>1 DEF Resolved, Rejected, OneRequest
<1>11. CASE UNCHANGED vars
  BY <1>11 DEF vars, OneRequest
<1> QED
  BY <1>1, <1>2, <1>3, <1>4, <1>5, <1>6, <1>7, <1>8, <1>9, <1>10, <1>11 DEF Next

LEMMA OneBulkOfRequest == OneRequest => OneBulk
<1> SUFFICES ASSUME OneRequest PROVE OneBulk
  OBVIOUS
<1>1. CASE bulk = {}
  BY <1>1, FS_EmptySet DEF OneBulk
<1>2. CASE disabled /\ \E b : bulk = {b}
  BY <1>2, FS_Singleton DEF OneBulk
<1> QED
  BY <1>1, <1>2 DEF OneRequest
-----------------------------------------------------------------------------
(* The press that is on.                                                   *)

LEMMA NextHeldNow == TypeOK /\ HeldNow /\ [Next]_vars => HeldNow'
<1> SUFFICES ASSUME TypeOK, HeldNow, [Next]_vars PROVE HeldNow'
  OBVIOUS
<1> USE DEF HeldNow, held, table, modal
<1>1. CASE UNCHANGED <<confirming, ended>>
  BY <1>1
<1>2. CASE ClearConfirm
  <2>1. 0 \notin ended /\ confirming # 0
    BY <1>2 DEF ClearConfirm, TypeOK
  <2> QED
    BY <1>2, <2>1 DEF ClearConfirm
<1>3. ASSUME NEW op \in Ops, Press(op)
      PROVE  HeldNow'
  <2>1. presses + 1 \notin ended
    BY DEF TypeOK
  <2> QED
    BY <1>3, <2>1 DEF Press
<1>4. ASSUME NEW p \in DOMAIN timers, Fire(p)
      PROVE  HeldNow'
  <2>1. 0 \notin ended
    BY DEF TypeOK
  <2> QED
    BY <1>4, <2>1 DEF Fire
<1>5. CASE OnChange \/ CollapseAll \/ OnPage \/ New
  BY <1>5, <1>1 DEF OnChange, CollapseAll, OnPage, New
<1>6. ASSUME NEW id \in Shown(rows), OnOpen(id) \/ \E shift \in BOOLEAN : OnSelect(id, shift)
      PROVE  HeldNow'
  BY <1>6, <1>1 DEF OnOpen, OnSelect
<1>7. CASE Type \/ CloseDialog \/ CloseDialogConfirm
  BY <1>7, <1>1 DEF Type, CloseDialog, CloseDialogConfirm
<1>8. ASSUME NEW op \in Ops, OpenDialog(op) \/ PressShift(op)
      PROVE  HeldNow'
  BY <1>8, <1>1 DEF OpenDialog, PressShift
<1>9. ASSUME NEW p \in DOMAIN timers, Tick(p)
      PROVE  HeldNow'
  BY <1>9, <1>1 DEF Tick
<1>10. ASSUME NEW b \in bulk, Resolved(b) \/ Rejected(b)
       PROVE  HeldNow'
  BY <1>10, <1>1 DEF Resolved, Rejected
<1>11. CASE UNCHANGED vars
  BY <1>11, <1>1 DEF vars
<1> QED
  BY <1>2, <1>3, <1>4, <1>5, <1>6, <1>7, <1>8, <1>9, <1>10, <1>11 DEF Next

\* A press leads to its action only while it is on.
LEMMA FiredWhileHeld ==
  ASSUME TypeOK, HeldNow, [Next]_vars, NEW p \in fired' \ fired
  PROVE  p \notin ended
<1> USE DEF held, table, modal
<1>1. CASE UNCHANGED fired
  BY <1>1
<1>2. ASSUME NEW q \in DOMAIN timers, Fire(q)
      PROVE  p \notin ended
  <2>1. p = q /\ Mine(q)
    BY <1>2 DEF Fire
  <2> QED
    BY <2>1 DEF Mine, HeldNow
<1>3. CASE OnChange \/ CollapseAll \/ OnPage \/ New
  BY <1>1, <1>3 DEF OnChange, CollapseAll, OnPage, New
<1>4. ASSUME NEW id \in Shown(rows), OnOpen(id) \/ \E shift \in BOOLEAN : OnSelect(id, shift)
      PROVE  p \notin ended
  BY <1>1, <1>4 DEF OnOpen, OnSelect
<1>5. CASE Type \/ CloseDialog \/ CloseDialogConfirm \/ ClearConfirm
  BY <1>1, <1>5 DEF Type, CloseDialog, CloseDialogConfirm, ClearConfirm
<1>6. ASSUME NEW op \in Ops, OpenDialog(op) \/ Press(op) \/ PressShift(op)
      PROVE  p \notin ended
  BY <1>1, <1>6 DEF OpenDialog, Press, PressShift
<1>7. ASSUME NEW q \in DOMAIN timers, Tick(q)
      PROVE  p \notin ended
  BY <1>1, <1>7 DEF Tick
<1>8. ASSUME NEW b \in bulk, Resolved(b) \/ Rejected(b)
      PROVE  p \notin ended
  BY <1>1, <1>8 DEF Resolved, Rejected
<1>9. CASE UNCHANGED vars
  BY <1>1, <1>9 DEF vars
<1> QED
  BY <1>2, <1>3, <1>4, <1>5, <1>6, <1>7, <1>8, <1>9 DEF Next
-----------------------------------------------------------------------------
LEMMA Invariance == Spec => []IInv
<1>1. IInv /\ [Next]_vars => IInv'
  BY NextTypeOK, NextSelectedShown, NextOneRequest, NextHeldNow DEF IInv
<1> QED
  BY InitIInv, <1>1, PTL DEF Spec

\* The state of a list, its dialog and its held button is what it may be.
THEOREM TypeCorrect == Spec => []TypeOK
BY Invariance, PTL DEF IInv

\* Whatever the rows change to and whatever the user does, only rows that are
\* on the screen are selected or open (onChange and onSelect of the lists).
THEOREM SelectionShown == Spec => []SelectedShown
BY Invariance, PTL DEF IInv

\* The buttons of a list, its dialogs, its held button and its "New" button
\* never send a second request before the first is answered.
THEOREM OneBulkAtATime == Spec => []OneBulk
<1>1. IInv => OneBulk
  BY OneBulkOfRequest DEF IInv
<1> QED
  BY Invariance, <1>1, PTL

\* An interval that outlives its press never acts for it (ConfirmButton's
\* comparison of state.confirming with the id of the press).
THEOREM HeldThroughout == Spec => HeldToTheEnd
<1>1. IInv /\ [Next]_vars
        => [\A p \in 1..MaxPresses : p \in fired' \ fired => p \notin ended]_vars
  BY FiredWhileHeld DEF IInv
<1> QED
  BY Invariance, <1>1, PTL DEF Spec, HeldToTheEnd
=============================================================================
