--------------------------- MODULE ConsoleSelection ---------------------------
(***************************************************************************)
(* A list of the web console: which rows are selected and open while the   *)
(* rows change under the user, and how an action on the selected rows is   *)
(* confirmed and sent.  The rows are those of the last change announced;   *)
(* ConsoleSync is about where they come from.                              *)
(***************************************************************************)
EXTENDS ConsoleTables, Naturals, FiniteSets, Sequences

CONSTANTS
    None,
    Lists,       \* the lists looked at, one per behaviour
    Views,       \* what the rows may be: sequences of ids
    Ticks,       \* ticks of the interval of a ConfirmButton (46 in the code)
    MaxPresses   \* bound: presses of the button that is held

ASSUME ConstantsAssumption ==
    /\ Ticks \in Nat \ {0} /\ MaxPresses \in Nat
    /\ \A v \in Views : Len(v) \in Nat

VARIABLES
    list,        \* the list
    rows,        \* state.instances
    selected,    \* state.selected
    opened,      \* state.opened
    last,        \* state.lastSelected
    disabled,    \* state.disabled
    dialog,      \* the button whose dialog is open, or None
    input,       \* the input of the dialogs holds the word "delete"
    confirming,  \* state.confirming of the held button: a press, 0 for null
    timers,      \* interval or timeout of a press: ticks left
    presses,     \* history: presses made
    ended,       \* history: presses whose release was seen
    fired,       \* history: presses that led to their action
    bulk         \* requests in flight

table == <<rows, selected, opened, last>>
modal == <<dialog, input>>
held == <<confirming, timers, presses, ended, fired>>
vars == <<list, table, disabled, modal, held, bulk>>

Shown(v) == {v[i] : i \in 1..Len(v)}
Ops == DOMAIN list.buttons
HeldOps == {op \in Ops : ~list.buttons[op].dialog}

Init ==
    /\ list \in Lists /\ rows \in Views
    /\ selected = {} /\ opened = {} /\ last = None /\ disabled = FALSE
    /\ dialog = None /\ input = FALSE
    /\ confirming = 0 /\ timers = <<>> /\ presses = 0
    /\ ended = {} /\ fired = {} /\ bulk = {}
-----------------------------------------------------------------------------
(* The rows.                                                               *)

\* Mutant of OnChange: what is gone from the list stays selected.
OnChangeKeeps ==
    /\ rows' \in Views
    /\ opened' = opened \cap Shown(rows')
    /\ UNCHANGED <<list, selected, last, disabled, modal, held, bulk>>

OnChange ==
    /\ rows' \in Views
    /\ selected' = selected \cap Shown(rows')
    /\ opened' = opened \cap Shown(rows')
    /\ UNCHANGED <<list, last, disabled, modal, held, bulk>>

\* The user has one pointer, and a dialog lies over the list.
Free == dialog = None /\ confirming = 0

Toggled(S, id) == IF id \in S THEN S \ {id} ELSE S \cup {id}

\* onSelect with shift: from the row selected last to this one, in either
\* direction; as without shift when that row is gone or is this one.
Place(id) == CHOOSE i \in 1..Len(rows) : rows[i] = id
Between(a, b) ==
    {rows[i] : i \in {i \in 1..Len(rows) :
        \/ Place(a) <= i /\ i <= Place(b)
        \/ Place(b) <= i /\ i <= Place(a)}}

OnSelect(id, shift) ==
    /\ Free /\ id \in Shown(rows)
    /\ selected' = IF shift /\ last # id /\ last \in Shown(rows)
                   THEN selected \cup Between(id, last)
                   ELSE Toggled(selected, id)
    /\ last' = id
    /\ UNCHANGED <<list, rows, opened, disabled, modal, held, bulk>>

OnOpen(id) ==
    /\ Free /\ list.row.opens /\ id \in Shown(rows)
    /\ opened' = Toggled(opened, id)
    /\ UNCHANGED <<list, rows, selected, last, disabled, modal, held, bulk>>

CollapseAll ==
    /\ Free /\ opened # {} /\ opened' = {}
    /\ UNCHANGED <<list, rows, selected, last, disabled, modal, held, bulk>>

\* onPage: a page link was followed.  The rows change when it is answered.
OnPage ==
    /\ Free /\ selected' = {} /\ last' = None
    /\ UNCHANGED <<list, rows, opened, disabled, modal, held, bulk>>
-----------------------------------------------------------------------------
(* The bulk functions.                                                     *)

Enabled == selected # {} /\ ~disabled

\* Mutant of Send: the buttons stay enabled.
SendEnabled(op) ==
    /\ bulk' = bulk \cup {[op |-> list.bulk[op], ids |-> selected]}
    /\ UNCHANGED disabled

\* onDelete, onForceDelete, updateSelected, onSnapshot, onBackup.
Send(op) ==
    /\ disabled' = TRUE
    /\ bulk' = bulk \cup {[op |-> list.bulk[op], ids |-> selected]}

\* The button that makes a new record shares state.disabled with the others.
New ==
    /\ Free /\ list.creates /\ ~disabled /\ disabled' = TRUE
    /\ bulk' = bulk \cup {[op |-> "POST", ids |-> {}]}
    /\ UNCHANGED <<list, table, modal, held>>

\* A 401 resolves like an answer.
Resolved(b) ==
    /\ b \in bulk /\ bulk' = bulk \ {b}
    /\ selected' = (IF b.op = "POST" THEN selected ELSE {})
    /\ disabled' = FALSE
    /\ UNCHANGED <<list, rows, opened, last, modal, held>>

\* Mutant of Rejected: the buttons stay disabled after an error.
RejectedSilently(b) ==
    /\ b \in bulk /\ bulk' = bulk \ {b}
    /\ UNCHANGED <<list, table, disabled, modal, held>>

Rejected(b) ==
    /\ b \in bulk /\ bulk' = bulk \ {b}
    /\ disabled' = FALSE
    /\ UNCHANGED <<list, table, modal, held>>
-----------------------------------------------------------------------------
(* ConfirmButton with a dialog.  Its input lives as long as the button.    *)

OpenDialog(op) ==
    /\ Free /\ Enabled /\ list.buttons[op].dialog
    /\ dialog' = op
    /\ UNCHANGED <<list, table, disabled, input, held, bulk>>

Type ==
    /\ dialog # None /\ list.buttons[dialog].typed /\ Enabled
    /\ input' = TRUE
    /\ UNCHANGED <<list, table, disabled, dialog, held, bulk>>

CloseDialog ==
    /\ dialog # None /\ dialog' = None
    /\ UNCHANGED <<list, table, disabled, input, held, bulk>>

CloseDialogConfirm ==
    /\ dialog # None
    /\ list.buttons[dialog].typed => input
    /\ dialog' = None
    /\ Send(dialog)
    /\ UNCHANGED <<list, table, input, held>>
-----------------------------------------------------------------------------
(* ConfirmButton that is held.  confirm starts an interval; its last tick  *)
(* starts a timeout, which acts if this press is still the one.            *)

Press(op) ==
    /\ Free /\ Enabled /\ op \in HeldOps /\ presses < MaxPresses
    /\ presses' = presses + 1 /\ confirming' = presses'
    /\ timers' = [p \in DOMAIN timers \cup {presses'} |->
                    IF p = presses' THEN Ticks ELSE timers[p]]
    /\ UNCHANGED <<list, table, disabled, modal, ended, fired, bulk>>

\* With the shift key the action is taken at once.
PressShift(op) ==
    /\ Free /\ Enabled /\ op \in HeldOps
    /\ Send(op)
    /\ UNCHANGED <<list, table, modal, held>>

ClearConfirm ==
    /\ confirming # 0
    /\ ended' = ended \cup {confirming} /\ confirming' = 0
    /\ UNCHANGED <<list, table, disabled, modal, timers, presses, fired, bulk>>

Without(p) == [q \in DOMAIN timers \ {p} |-> timers[q]]

\* Mutant of Tick: the interval is not stopped at its end.
TickPast(p) ==
    /\ timers' = IF confirming = 0 THEN Without(p)
                 ELSE [timers EXCEPT ![p] = @ - 1]
    /\ UNCHANGED <<list, table, disabled, modal, confirming, presses, ended,
                   fired, bulk>>

\* A tick stops the interval when nothing is pressed; an interval of a press
\* that was let go goes on when the button is pressed again.
Tick(p) ==
    /\ timers[p] > 0
    /\ timers' = IF confirming = 0 THEN Without(p)
                 ELSE [timers EXCEPT ![p] = @ - 1]
    /\ UNCHANGED <<list, table, disabled, modal, confirming, presses, ended,
                   fired, bulk>>

\* Mutant of Mine: any press counts.
AnyPress(p) == confirming # 0

Mine(p) == confirming = p

Fire(p) ==
    /\ timers[p] = 0 /\ timers' = Without(p)
    /\ IF Mine(p)
       THEN /\ confirming' = 0 /\ fired' = fired \cup {p}
            /\ \E op \in HeldOps : Send(op)
       ELSE UNCHANGED <<confirming, fired, disabled, bulk>>
    /\ UNCHANGED <<list, table, modal, presses, ended>>
-----------------------------------------------------------------------------
Next ==
    \/ OnChange \/ CollapseAll \/ OnPage \/ New
    \/ \E id \in Shown(rows) :
         OnOpen(id) \/ (\E shift \in BOOLEAN : OnSelect(id, shift))
    \/ Type \/ CloseDialog \/ CloseDialogConfirm \/ ClearConfirm
    \/ \E op \in Ops : OpenDialog(op) \/ Press(op) \/ PressShift(op)
    \/ \E p \in DOMAIN timers : Tick(p) \/ Fire(p)
    \/ \E b \in bulk : Resolved(b) \/ Rejected(b)

Spec == Init /\ [][Next]_vars

\* A request ends one way or the other.
FairSpec == Spec /\ WF_vars(\E b \in bulk : Resolved(b) \/ Rejected(b))
-----------------------------------------------------------------------------
(* Properties.                                                             *)

TypeOK ==
    /\ list \in Lists /\ rows \in Views
    /\ dialog \in Ops \cup {None}
    /\ disabled \in BOOLEAN /\ input \in BOOLEAN
    /\ confirming \in 0..presses /\ presses \in 0..MaxPresses
    /\ DOMAIN timers \subseteq 1..presses
    /\ \A p \in DOMAIN timers : timers[p] \in 0..Ticks
    /\ ended \subseteq 1..presses /\ fired \subseteq 1..presses

\* What is selected or open is on the screen: no action reaches a row the
\* user no longer sees, however the list changed since it was selected.
SelectedShown == selected \subseteq Shown(rows) /\ opened \subseteq Shown(rows)

\* One action on the selected rows at a time, by whichever button.
OneBulk == Cardinality(bulk) <= 1 /\ (bulk # {} => disabled)

\* A press leads to its action at most once, and never after it was let go,
\* though the interval of a press may outlive it.
HeldToTheEnd ==
    [][\A p \in 1..MaxPresses :
         p \in fired' \ fired => p \notin ended]_vars

\* Buttons that were disabled come back.
Reenabled == disabled ~> ~disabled
=============================================================================
