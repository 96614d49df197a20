----------------------------- MODULE ConsoleForm -----------------------------
(***************************************************************************)
(* One form of the web console: the copy of the record a user edits, the   *)
(* save that is sent and what is said of it, the timers that give the copy *)
(* up again, and the record on the server that others change meanwhile.    *)
(*                                                                         *)
(* A value of a field is the moment it was given, so that of two values    *)
(* the greater is the later one.                                           *)
(***************************************************************************)
EXTENDS ConsoleForms, Naturals, Sequences

CONSTANTS
    None,
    Forms,       \* the forms looked at, one per behaviour
    Fields,      \* the fields looked at
    Does,        \* what is done besides editing and saving
    Outcomes,    \* how a request may end: "ok", "err", "lost", "auth"
    MaxMoment,   \* bound: values given
    MaxWrites,   \* bound: requests in flight
    MaxTimers    \* bound: timeouts of one kind that are running

ASSUME ConstantsAssumption ==
    /\ Does \subseteq {"cancel", "delete", "act", "leave", "others"}
    /\ Outcomes \subseteq {"ok", "err", "lost", "auth"}
    /\ MaxMoment \in Nat /\ MaxWrites \in Nat /\ MaxTimers \in Nat

\* A timeout that gives up the copy is that of a row or a card, one that
\* leaves changes behind that of a form that makes a record; the answer to a
\* commit goes to the store of a form that has one.  A form that says its
\* changes are saved marks them all, and saves nothing else, by its button; a
\* form without such a mark, or with one more button, is that of a row or a
\* card, and only a row is in a list of pages.
ASSUME FormsAssumption ==
    \A f \in Forms :
        /\ f.base \in {"props", "settings", "store", "new"}
        /\ f.timers \subseteq {"drop", "clear", "both", "again"}
        /\ f.timers \cap {"drop", "both"} # {} => f.base = "props"
        /\ "again" \in f.timers => f.base = "new"
        /\ f.answers => f.base # "props"
        /\ f.says \in {"none", "saved", "created"}
        /\ f.says = "saved" =>
             f.base # "new" /\ f.gate = "changed" /\ f.quiet \cap Fields = {}
        /\ f.gate = "changed" \/ f.base = "props"
        /\ f.acts = "none" \/ f.base = "props"
        /\ f.paged \in BOOLEAN /\ f.enter \in BOOLEAN
        /\ f.paged => f.base = "props"
        /\ f.enter => f.gate = "copy"
        /\ None \notin [(f.open \cup f.guarded) \cap Fields -> Nat]

VARIABLES
    form,      \* the form
    srv,       \* the record on the server, None once it is deleted
    props,     \* the record in the store, as the form was last told
    news,      \* the store has changed and has not told the form
    copy,      \* the form's copy of the record, or None
    changed,   \* state.changed
    disabled,  \* state.disabled
    message,   \* state.message
    locked,    \* state.locked, or the form is gone: its row has left the list,
               \*   or the page is left for that of the login
    timers,    \* timeouts that are running, by what they do
    writes,    \* requests the server or the form has not answered
    moment,    \* the last value given
    stored,    \* history: the values the server has had
    wanted,    \* history: the last value the user gave, 0 if it was discarded
               \*   before it was saved
    seen,      \* history: the record the user saw when the edits began
    discarded  \* history: values the user gave and took back by Cancel

record == <<srv, moment, stored>>
shown == <<props, news>>
edit == <<copy, changed, wanted, seen, discarded>>
state == <<disabled, message, locked, timers>>
vars == <<form, record, shown, edit, state, writes>>

Inputs == (form.open \cup form.guarded) \cap Fields
OwnCopy == form.base # "props"
TimerKinds == {"drop", "clear", "both", "again", "enable"}
NoTimers == [k \in TimerKinds |-> 0]
Unset == [f \in Inputs |-> 0]

Init ==
    /\ form \in Forms
    /\ srv = Unset /\ moment = 0 /\ stored = {0}
    /\ props = srv /\ news = FALSE
    /\ copy = (IF OwnCopy THEN props ELSE None) /\ changed = FALSE
    /\ disabled = FALSE /\ message = "none" /\ locked = FALSE
    /\ timers = NoTimers /\ writes = <<>>
    /\ wanted = Unset /\ seen = srv /\ discarded = {}
-----------------------------------------------------------------------------
(* The user.                                                               *)

\* Mutant of Base: a copy that is still there is built on.
BaseCopy == IF copy # None THEN copy ELSE props

\* set and the handlers of lists start from the copy if it has been changed,
\* else from the record: a copy that was saved is started over.
Base == IF changed \/ OwnCopy THEN copy ELSE props

Saved(f) == wanted[f] \in stored
Discard == wanted' = [f \in Inputs |-> IF Saved(f) THEN wanted[f] ELSE 0]
TakenBack(f) == copy[f] = wanted[f] /\ copy[f] # seen[f] /\ ~Saved(f)

\* Mutant of InPlace: every handler edits the list it was given.
InPlaceAll(f) == TRUE

InPlace(f) == f \in form.inplace

\* Mutant of Editable: what is disabled while a request runs is not.
EditableAlways(f) == TRUE

Editable(f) == disabled => f \in form.open

Edit(f) ==
    /\ ~locked /\ Editable(f) /\ moment < MaxMoment
    /\ moment' = moment + 1
    /\ copy' = [Base EXCEPT ![f] = moment']
    /\ IF InPlace(f) /\ (copy = None \/ copy[f] = props[f])
       THEN props' = [props EXCEPT ![f] = moment'] ELSE UNCHANGED props
    /\ changed' = (changed \/ f \notin form.quiet)
    /\ wanted' = [wanted EXCEPT ![f] = moment']
    /\ seen' = IF changed THEN seen ELSE IF OwnCopy THEN copy ELSE props
    /\ message' = IF form.clears \/ f \in form.lists THEN "none" ELSE message
    /\ UNCHANGED <<form, srv, stored, news, discarded, disabled, locked, timers, writes>>

Send(what, rec, began) ==
    /\ Len(writes) < MaxWrites
    /\ writes' = Append(writes,
         [what |-> what, rec |-> rec, began |-> began, mine |-> TRUE,
          served |-> FALSE, answer |-> "none"])

\* Mutant of Busy: the form stays enabled while it saves.
BusyNot == UNCHANGED disabled

Busy == disabled' = TRUE

Pressed == ~disabled /\ IF form.gate = "copy" THEN copy # None ELSE changed

\* onSave, onCreate, onNew, called by the button, or by the Enter key of a
\* field that tests nothing.
Save ==
    /\ ~locked /\ (Pressed \/ (form.enter /\ copy # None))
    /\ Busy
    /\ Send(IF form.base = "new" THEN "create" ELSE "save", copy, seen)
    /\ UNCHANGED <<form, record, shown, edit, message, locked, timers>>

\* Enter where nothing was edited: commit fails on null, and its .catch
\* enables the form, whatever it is waiting for.
SaveNothing ==
    /\ ~locked /\ form.enter /\ copy = None
    /\ disabled' = FALSE
    /\ UNCHANGED <<form, record, shown, edit, message, locked, timers, writes>>

Delete ==
    /\ "delete" \in Does /\ form.deletes /\ ~locked /\ ~disabled
    /\ Busy /\ Send("delete", None, None)
    /\ UNCHANGED <<form, record, shown, edit, message, locked, timers>>

\* The other buttons of a form.  A sync commits the record as it is in the
\* store, a restore what is edited, saved or not.
Act ==
    /\ "act" \in Does /\ ~locked /\ ~disabled
    /\ \/ form.acts = "sync" /\ Send("act", props, props)
       \/ form.acts = "restore"
            /\ Send("act", Base, IF changed THEN seen ELSE props)
       \/ form.acts \in {"test", "operate"} /\ Send(form.acts, None, None)
    /\ Busy
    /\ UNCHANGED <<form, record, shown, edit, message, locked, timers>>

\* Mutant of GiveUp: the form is not told that it has no changes.
GiveUpHalf == UNCHANGED changed /\ copy' = IF OwnCopy THEN props ELSE None

\* The copy is given up, and the record shown again.
GiveUp == changed' = FALSE /\ copy' = IF OwnCopy THEN props ELSE None

Cancel ==
    /\ "cancel" \in Does /\ ~locked /\ changed /\ ~disabled
    /\ form.base # "new" /\ form.gate = "changed"
    /\ GiveUp /\ Discard
    /\ discarded' = discarded \cup {copy[f] : f \in {g \in Inputs : TakenBack(g)}}
    /\ message' = IF OwnCopy THEN "discarded" ELSE message
    /\ UNCHANGED <<form, record, shown, seen, disabled, locked, timers, writes>>

\* The component is gone, and no callback finds it any more.
Unmount ==
    /\ GiveUp /\ Discard
    /\ disabled' = FALSE /\ message' = "none" /\ timers' = NoTimers
    /\ writes' = [i \in DOMAIN writes |-> [writes[i] EXCEPT !.mine = FALSE]]
    /\ UNCHANGED <<form, record, seen, discarded>>

\* The form is closed, or its page left, and opened again.
Leave ==
    /\ "leave" \in Does /\ props # None
    /\ Unmount /\ locked' = FALSE
    /\ UNCHANGED shown
-----------------------------------------------------------------------------
(* The server, and the answers.                                            *)

\* Another user saves, or deletes, the record.
Other ==
    /\ "others" \in Does /\ srv # None /\ form.base # "new"
    /\ \/ /\ moment < MaxMoment /\ moment' = moment + 1
          /\ \E f \in Inputs : srv' = [srv EXCEPT ![f] = moment']
          /\ stored' = stored \cup {moment'}
       \/ /\ form.base # "settings"
          /\ srv' = None /\ UNCHANGED <<moment, stored>>
    /\ UNCHANGED <<form, shown, edit, state, writes>>

\* A record is written as a whole.  "lost": it is, and the answer is an error.
Serve(i) ==
    LET w == writes[i]
    IN  /\ ~w.served
        /\ \E out \in Outcomes :
             /\ srv = None /\ w.what # "delete" => out \notin {"ok", "lost"}
             /\ writes' = [writes EXCEPT ![i].served = TRUE,
                                         ![i].answer = out]
             /\ srv' = IF out \in {"err", "auth"} THEN srv
                       ELSE CASE w.what \in {"save", "act"} -> w.rec
                              [] w.what = "delete" -> None
                              [] OTHER -> srv
        /\ stored' = stored \cup {srv'[f] : f \in IF srv' = None THEN {} ELSE Inputs}
        /\ UNCHANGED <<form, moment, shown, edit, state>>

Done(i) == writes' = SubSeq(writes, 1, i - 1) \o SubSeq(writes, i + 1, Len(writes))

\* Mutant of Started: no timeout is set.
StartedNone(kinds) == UNCHANGED timers

Started(kinds) ==
    /\ \A k \in kinds : timers[k] < MaxTimers
    /\ timers' = [k \in TimerKinds |-> IF k \in kinds THEN timers[k] + 1 ELSE timers[k]]

\* The callback of .then; a 401 resolves too, on the way to the login page.
\* The answer to the commit of a form's own record goes to the store.
Resolve(i) ==
    LET w == writes[i]
        saves == w.what \in {"save", "create"}
        ends == w.what = "delete" /\ form.base = "store"
    IN  /\ w.served /\ w.mine /\ w.answer \in {"ok", "auth"}
        /\ Done(i)
        /\ Started(IF saves THEN form.timers
                   ELSE IF w.what = "operate" THEN {"enable"} ELSE {})
        /\ disabled' = (w.what = "operate" \/ (saves /\ "again" \in form.timers))
        /\ message' = CASE saves -> (IF form.says = "none" THEN message ELSE form.says)
                        [] ends -> "deleted"
                        [] OTHER -> message
        /\ changed' = (changed /\ ~saves /\ ~ends)
        /\ locked' = (locked \/ ends \/ (saves /\ form.locks) \/ w.answer = "auth")
        /\ IF saves /\ form.answers /\ w.answer = "ok"
           THEN props' = w.rec /\ news' = TRUE
           ELSE UNCHANGED shown
        /\ UNCHANGED <<form, record, copy, wanted, seen, discarded>>

\* The callback of .catch.
Reject(i) ==
    LET w == writes[i]
    IN  /\ w.served /\ w.mine /\ w.answer \in {"err", "lost"}
        /\ Done(i)
        /\ disabled' = FALSE
        /\ message' = IF w.what \in {"save", "create"} /\ form.says # "none" THEN "none"
                      ELSE message
        /\ UNCHANGED <<form, record, shown, edit, locked, timers>>

\* No one is left to be told.
Forget(i) ==
    /\ writes[i].served /\ ~writes[i].mine /\ Done(i)
    /\ UNCHANGED <<form, record, shown, edit, state>>

\* The list or the record is read again (ConsoleSync).
Refresh ==
    /\ ~locked /\ props # srv /\ srv # None /\ form.base # "new"
    /\ props' = srv /\ news' = OwnCopy
    /\ UNCHANGED <<form, record, edit, state, writes>>

\* A list comes without the row: its record is deleted, or the page or the
\* filter no longer has it.  onChange of the list forgets that it was opened.
Drop ==
    /\ ~locked /\ form.base = "props" /\ (srv = None \/ form.paged)
    /\ Unmount
    /\ props' = None /\ locked' = TRUE
    /\ UNCHANGED news

\* The row is listed again, and opened.
Return ==
    /\ props = None /\ srv # None
    /\ props' = srv /\ locked' = FALSE
    /\ UNCHANGED <<form, record, news, edit, disabled, message, timers, writes>>

\* onChange of a form with a store: it takes the record of the store, and what
\* was being edited is gone from the screen.
OnChange ==
    /\ news /\ news' = FALSE
    /\ copy' = props
    /\ changed' = (changed /\ form.base # "settings")
    /\ Discard /\ seen' = props
    /\ UNCHANGED <<form, record, props, discarded, state, writes>>
-----------------------------------------------------------------------------
(* The timeouts.                                                           *)

\* Mutant of Idle: the copy is given up whatever was done to it since.
IdleAlways == TRUE

Idle == ~changed

Fire(k) ==
    /\ timers[k] > 0 /\ timers' = [timers EXCEPT ![k] = @ - 1]
    /\ copy' = IF k \in {"drop", "both"} /\ Idle THEN None ELSE copy
    /\ message' = IF k \in {"clear", "both"} /\ Idle THEN "none" ELSE message
    /\ disabled' = (disabled /\ k \notin {"again", "enable"})
    /\ changed' = (IF k \in {"drop", "both"} /\ Idle THEN FALSE
                   ELSE changed \/ k = "again")
    /\ UNCHANGED <<form, record, shown, wanted, seen, discarded, locked, writes>>
-----------------------------------------------------------------------------
Sent == 1..Len(writes)
Next ==
    \/ \E f \in Inputs : Edit(f)
    \/ Save \/ SaveNothing \/ Delete \/ Act \/ Cancel \/ Leave
    \/ Other \/ Refresh \/ Drop \/ Return \/ OnChange
    \/ \E i \in Sent : Serve(i) \/ Resolve(i) \/ Reject(i) \/ Forget(i)
    \/ \E k \in TimerKinds : Fire(k)

Spec == Init /\ [][Next]_vars

\* Requests are answered and timeouts end.
FairSpec ==
    /\ Spec
    /\ WF_vars(\E i \in Sent : Serve(i) \/ Resolve(i) \/ Reject(i))
    /\ \A k \in TimerKinds : WF_vars(Fire(k))
-----------------------------------------------------------------------------
(* Properties.                                                             *)

\* The variables hold what they may, and a form has a copy while it has
\* changes.
Moments == [Inputs -> 0..MaxMoment]
TypeOK ==
    /\ form \in Forms /\ moment \in 0..MaxMoment
    /\ srv \in Moments \cup {None} /\ props \in Moments \cup {None}
    /\ copy \in Moments \cup {None} /\ (changed => copy # None)
    /\ news \in BOOLEAN /\ changed \in BOOLEAN
    /\ disabled \in BOOLEAN /\ locked \in BOOLEAN
    /\ message \in {"none", "saved", "created", "discarded", "deleted"}
    /\ timers \in [TimerKinds -> 0..MaxTimers]
    /\ Len(writes) <= MaxWrites
    /\ wanted \in Moments /\ seen \in Moments
    /\ discarded \subseteq 1..MaxMoment /\ stored \subseteq 0..MaxMoment

\* A form has one request in flight, whichever of its buttons sent it, and is
\* disabled until that one is answered; not so the device, whose Enter key
\* sends another one.
OneWrite ==
    ~form.enter =>
      \A i, j \in Sent : writes[i].mine => disabled /\ (writes[j].mine => i = j)

SaysSaved == message = "saved" /\ ~changed /\ ~locked

\* "Your changes have been saved": once that is said and nothing was changed
\* since, what the user entered has reached the server.
SavedMeansSaved == SaysSaved => \A f \in Inputs : Saved(f)

\* It holds of the fields that are disabled while a request runs, whatever is
\* entered before, after and in the other fields.
GuardedSaved == SaysSaved => \A f \in Inputs \ form.open : Saved(f)

\* What the user took back by Cancel does not reach the server after all, in
\* a form that edits none of the record's own lists.
CancelCancels ==
    form.inplace \cap Inputs = {} /\ srv # None
      => \A f \in Inputs : srv[f] \notin discarded

\* In a row or a card only the user, the answer to his save and the row's
\* leaving the list end or alter edits: no timeout of an earlier save does,
\* no answer to another request, and no list that still has the row.
EditsKept ==
    [][~OwnCopy =>
         /\ changed /\ ~changed' =>
              \/ Cancel \/ Leave \/ Drop
              \/ \E i \in Sent : writes[i].what \in {"save", "create"} /\ Resolve(i)
         /\ changed /\ changed' /\ copy' # copy => \E f \in Inputs : Edit(f)]_vars

\* A save overwrites the changes of others, but never one the user had before
\* his eyes when he began to edit.
SeenKept ==
    [][\A i \in Sent :
         Serve(i) /\ srv # None /\ srv' # None
           => \A f \in Inputs :
                srv'[f] < srv[f] => srv[f] > writes[i].began[f]]_vars

\* A form that was disabled is enabled again.
Ready == disabled ~> ~disabled
=============================================================================
