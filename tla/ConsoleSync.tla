----------------------------- MODULE ConsoleSync -----------------------------
(***************************************************************************)
(* How the web console keeps a list or a record up to date: the requests   *)
(* of one function of the actions (ConsoleResources), their answers in any *)
(* order, the change events of the websocket, the polling, the filters and *)
(* page links, the refresh button and the progress bar.                    *)
(*                                                                         *)
(* A request is in two halves: the server reads what it answers (Answer),  *)
(* and the callback of .end runs (Deliver).  Anything may happen between.  *)
(***************************************************************************)
EXTENDS ConsoleResources, FiniteSets

CONSTANTS
    Resources,    \* the resources looked at, one per behaviour
    Owners,       \* organizations, users, or what a form picks from
    Rows,         \* row counts <<p, e>>: p full pages and e rows
    Fields,       \* fields of a filter that are set, to one value
    Does,         \* what the user does, and whether the websocket fails
    Outcomes,     \* how a request may end: "ok", "err", "auth"
    Prompt,       \* answers come within the second between two polls
    MaxVersions,  \* bound: changes on the server
    MaxRequests   \* bound: requests in flight

ASSUME ConstantsAssumption ==
    /\ Owners \cap {None, "all", "new"} = {} /\ "all" # None /\ "new" # None
    /\ Rows \subseteq Nat \X Nat
    /\ Does \subseteq 
          {"leave", "filter", "turn", "switch", "refresh", "rival", "outage"}
    /\ Outcomes \subseteq {"ok", "err", "auth"}
    /\ Prompt \in BOOLEAN
    /\ MaxVersions \in Nat \ {0} /\ MaxRequests \in Nat \ {0}

\* What the resources have in common: nothing reloads what a form picks from,
\* and the one function that does not test a syncId is that of a single
\* record, without pages, filter or polling.
ASSUME ResourcesAssumption ==
    \A r \in Resources :
        /\ r.store.pageCount \in Nat \ {0}
        /\ r.sync.of \in {"all", "org", "user", "pick"}
        /\ r.page # None => r.page.before \in Nat /\ r.page.all \in Nat
        /\ r.sync.of = "pick" => r.sync.events = {} /\ ~r.sync.button
        /\ ~r.sync.guarded =>
             /\ r.sync.of = "user" /\ r.page = None /\ ~r.filters
             /\ ~r.polls /\ ~r.sync.rewound

VARIABLES
    res,         \* the resource
    console,     \* the console of administrators or that of users
    page,        \* whose the page on the screen is; None: another page
    org,         \* OrganizationsStore.current
    store,       \* the store of the resource
    kept,        \* history: the store holds the last request's answer
    reqs,        \* requests whose callback has not run
    syncId,      \* of the last request made, 0 if by another function
    spinning,    \* LoadingStore._loaders
    refreshing,  \* the refresh button is disabled
    links,       \* the page and the number of pages the links were drawn for,
                 \*   and whether a change of the store has yet to be told
    socket,      \* the websocket is open
    events,      \* change events on their way
    missed,      \* history: a change unannounced since the last request
    srv          \* version and row count of the list on the server

screen == <<res, console, page, org>>
asking == <<reqs, syncId, spinning>>
wire == <<socket, events>>
vars == <<screen, store, kept, asking, refreshing, links, wire, missed, srv>>

Count(rc) == rc[1] * res.store.pageCount + rc[2]
Subjects ==
    CASE res.sync.of = "all" -> {"all"}
      [] res.sync.of = "org" -> {org}
      [] OTHER -> Owners

Init ==
    /\ res \in Resources
    /\ console \in res.consoles
    /\ page = None /\ org \in Owners
    /\ store = EmptyStore /\ kept = FALSE
    /\ reqs = {} /\ syncId = 0 /\ spinning = {}
    /\ refreshing = FALSE /\ links = [page |-> 0, pages |-> 0, due |-> FALSE]
    /\ socket = TRUE /\ events = 0 /\ missed = FALSE
    /\ \E rc \in Rows : srv = [ver |-> 1, n |-> Count(rc)]
-----------------------------------------------------------------------------
(* Requests.  The id of a request that is done may be given again: it is   *)
(* then the last one, as that of a fresh uuid.                             *)

FreshId == CHOOSE i \in 1..MaxRequests : i \notin {r.id : r \in reqs}

Ask(of, st, quiet, refresh) ==
    /\ Cardinality(reqs) < MaxRequests
    /\ reqs' = reqs \cup
         {[id |-> FreshId, of |-> of, filter |-> st.filter, page |-> st.page,
           quiet |-> quiet, refresh |-> refresh, answer |-> None]}
    /\ syncId' = FreshId
    /\ spinning' = IF quiet THEN spinning ELSE spinning \cup {FreshId}
    /\ missed' = FALSE /\ kept' = FALSE

NoRequest == UNCHANGED <<asking, kept, missed>>

\* Links are kept track of where they are followed.
Links(due) ==
    IF "turn" \in Does
    THEN [page |-> store.page, pages |-> Pages(res.store, store), due |-> due]
    ELSE links

\* emitDefer: the links are drawn anew, but not at once.
Announce == links' = IF "turn" \in Does THEN [links EXCEPT !.due = TRUE] ELSE links

\* A list with no owner or nobody's record, put in the store without asking.
Nobodys(of) == [of |-> of, filter |-> None, page |-> 0, ver |-> 0, count |-> 0]
PutNobodys(of) ==
    /\ store' = Synced(res.store, store, Nobodys(of))
    /\ syncId' = 0 /\ kept' = TRUE
    /\ UNCHANGED <<reqs, spinning, missed>>

\* Who reload() asks about: the owner of what the store holds.
Known == CASE res.sync.of = "user" ->
                  (IF store.items = None THEN None ELSE store.items.of)
           [] res.sync.of = "org" -> org
           [] OTHER -> "all"

\* Mutant of Reload: nothing loaded yet is not told from something.
ReloadUnknown(refresh) == Ask(Known, store, FALSE, refresh) /\ UNCHANGED store

Reload(refresh) ==
    IF Known \in {None, "new"}
    THEN IF res.sync.guarded THEN UNCHANGED store /\ NoRequest
         ELSE PutNobodys("new")
    ELSE Ask(Known, store, FALSE, refresh) /\ UNCHANGED store
-----------------------------------------------------------------------------
(* The user.                                                               *)

\* componentDidMount.
Mount ==
    /\ page = None /\ res.sync.of # "pick"
    /\ \E of \in Subjects :
         /\ page' = of
         /\ Ask(of, store, FALSE, FALSE)
    /\ links' = Links(links.due)
    /\ UNCHANGED <<res, console, org, store, refreshing, wire, srv>>

\* The page that makes a user shows a blank record.
MountNew ==
    /\ page = None /\ res.sync.of = "user" /\ ~res.sync.guarded
    /\ page' = "new"
    /\ PutNobodys("new")
    /\ UNCHANGED <<res, console, org, refreshing, links, wire, srv>>

\* componentWillUnmount; the record of a user is unloaded, a list is not.
Unmount ==
    /\ "leave" \in Does /\ page # None
    /\ page' = None
    /\ IF res.sync.guarded THEN UNCHANGED store
       ELSE store' = [store EXCEPT !.items = None]
    /\ NoRequest
    /\ UNCHANGED <<res, console, org, refreshing, links, wire, srv>>

\* A form picks a datacenter or a zone, or, as when it is opened, none.
Pick ==
    /\ res.sync.of = "pick"
    /\ \/ /\ \E of \in Owners : page' = of /\ Ask(of, store, FALSE, FALSE)
          /\ UNCHANGED store
       \/ page' = None /\ PutNobodys(None)
    /\ UNCHANGED <<res, console, org, refreshing, links, wire, srv>>

\* The list of users rewinds the audit events and so reloads them.
Rewind ==
    /\ page = None /\ res.sync.rewound
    /\ LET st == TraverseTo(res.store, store, 0)
       IN  /\ store' = st
           /\ IF Known = None THEN NoRequest ELSE Ask(Known, st, FALSE, FALSE)
    /\ UNCHANGED <<screen, refreshing, links, wire, srv>>

\* The pages that links drawn at page l.page of l.pages lead to.
Targets(l) ==
    LET start == AtLeast(0, l.page - res.page.before)
        end   == AtMost(l.pages, start + res.page.all)
    IN  (start..end - 1)
          \cup (IF l.page = 0 THEN {} ELSE {0, l.page - 1})
          \cup (IF l.page = l.pages - 1 THEN {}
                ELSE {l.pages - 1, AtMost(l.pages - 1, l.page + 1)})

\* onChange of the component with the links, which is told after a timeout.
Draw ==
    /\ links.due /\ page # None /\ res.page # None
    /\ links' = Links(FALSE)
    /\ UNCHANGED <<screen, store, kept, asking, refreshing, wire, missed, srv>>

Turn ==
    /\ "turn" \in Does /\ page # None /\ res.page # None /\ links.pages > 1
    /\ \E p \in Targets(links) :
         LET st == TraverseTo(res.store, store, p)
             of == IF res.sync.of = "user" THEN Known ELSE page
         IN  /\ store' = st
             /\ IF of = None THEN NoRequest ELSE Ask(of, st, FALSE, FALSE)
    /\ UNCHANGED <<screen, refreshing, links, wire, srv>>

\* The button shows or drops the filter, a control sets or empties a field.
NextFilters(f) ==
    IF f = None THEN {<<>>}
    ELSE {None} \cup
         {[k \in DOMAIN f \cup {x} |-> TRUE] : x \in Fields \ DOMAIN f} \cup
         {[k \in DOMAIN f \ {x} |-> TRUE] : x \in DOMAIN f}

\* Mutant of Filter: the request is left to the next event.
FilterOnly ==
    /\ "filter" \in Does /\ page # None /\ res.filters
    /\ \E f \in NextFilters(store.filter) :
         store' = FilterBy(res.store, store, f)
    /\ NoRequest /\ Announce
    /\ UNCHANGED <<screen, refreshing, wire, srv>>

Filter ==
    /\ "filter" \in Does /\ page # None /\ res.filters
    /\ \E f \in NextFilters(store.filter) :
         LET st == FilterBy(res.store, store, f)
         IN  store' = st /\ Ask(page, st, FALSE, FALSE)
    /\ Announce
    /\ UNCHANGED <<screen, refreshing, wire, srv>>

\* setCurrent: RESET, then RELOAD leads to the first page.
SwitchOrg ==
    /\ "switch" \in Does /\ console = "user" /\ page # None
    /\ \E o \in Owners \ {org} : org' = o
    /\ store' = Cleared(res.store, store) /\ page' = None
    /\ kept' = (kept /\ ~res.store.clears)
    /\ Announce
    /\ UNCHANGED <<res, console, asking, refreshing, wire, missed, srv>>

\* The refresh button, on the pages it knows.
Refresh ==
    /\ "refresh" \in Does /\ page # None /\ ~refreshing
    /\ res.sync.button
    /\ Reload(TRUE)
    /\ refreshing' = (Known \notin {None, "new"})
    /\ UNCHANGED <<screen, links, wire, srv>>

\* Another function of the same file makes a request: for a list, that of a
\* form on another page; for what a form picks from, that of the list.
Rival ==
    /\ "rival" \in Does /\ res.sync.shared
    /\ page = None \/ res.sync.of = "pick"
    /\ syncId' = 0 /\ kept' = FALSE
    /\ UNCHANGED <<screen, store, reqs, spinning, refreshing, links, wire, missed, srv>>
-----------------------------------------------------------------------------
(* Timers and events.                                                      *)

\* setInterval of a page that polls.
Tick ==
    /\ page # None /\ res.polls
    /\ Prompt => \A r \in reqs : ~r.quiet
    /\ Ask(page, store, TRUE, FALSE)
    /\ UNCHANGED <<screen, store, refreshing, links, wire, srv>>

\* Mutant of Event: a request in flight is taken to be answer enough.
EventUnlessBusy ==
    /\ events > 0 /\ events' = events - 1
    /\ IF console \in res.sync.events /\ reqs = {} THEN Reload(FALSE)
       ELSE UNCHANGED store /\ NoRequest
    /\ UNCHANGED <<screen, refreshing, links, socket, srv>>

Event ==
    /\ events > 0 /\ events' = events - 1
    /\ IF console \in res.sync.events THEN Reload(FALSE)
       ELSE UNCHANGED store /\ NoRequest
    /\ UNCHANGED <<screen, refreshing, links, socket, srv>>

\* What was sent and not received is lost, and no one asks again.
SocketClose ==
    /\ "outage" \in Does /\ socket /\ socket' = FALSE
    /\ missed' = (missed \/ events > 0)
    /\ events' = 0
    /\ UNCHANGED <<screen, store, kept, asking, refreshing, links, srv>>

SocketOpen ==
    /\ ~socket /\ socket' = TRUE
    /\ UNCHANGED <<screen, store, kept, asking, refreshing, links, events, missed, srv>>
-----------------------------------------------------------------------------
(* The server.                                                             *)

Change ==
    /\ srv.ver < MaxVersions
    /\ \E rc \in Rows : srv' = [ver |-> srv.ver + 1, n |-> Count(rc)]
    /\ IF socket THEN events' = events + 1 /\ UNCHANGED missed
       ELSE missed' = TRUE /\ UNCHANGED events
    /\ UNCHANGED <<screen, store, kept, asking, refreshing, links, socket>>

\* A filter that sets a field leaves half of the rows.
Matching(f) == IF f = None \/ f = <<>> THEN srv.n ELSE srv.n \div 2

\* Mutant of ServedPage: the case of one full page is forgotten.
ServedPageForgets(n, p) ==
    IF res.store.paged THEN AtMost(p, n \div res.store.pageCount) ELSE 0

\* GetAllPaged: a single full page has no second one, though two full pages
\* have a third.
ServedPage(n, p) ==
    LET c == res.store.pageCount
        maxPage == IF n = c THEN 0 ELSE n \div c
    IN  IF res.store.paged THEN AtMost(p, maxPage) ELSE 0

AnswerTo(r) ==
    [of |-> r.of, filter |-> r.filter, ver |-> srv.ver,
     count |-> Matching(r.filter),
     page |-> ServedPage(Matching(r.filter), r.page)]

Answer ==
    /\ \E r \in reqs :
         /\ r.answer = None
         /\ \E out \in Outcomes :
              reqs' = (reqs \ {r}) \cup
                      {[r EXCEPT !.answer = IF out = "ok" THEN AnswerTo(r)
                                            ELSE [failed |-> out]]}
    /\ UNCHANGED <<screen, store, kept, syncId, spinning, refreshing, links, wire,
                   missed, srv>>

Failed(r) == "failed" \in DOMAIN r.answer

\* Mutant of Counts: every answer is taken.
CountsAlways(r) == TRUE

Counts(r) == res.sync.guarded => r.id = syncId

\* Mutants of Settle: the callback leaves with a stale answer before it takes
\* its loader away, or before it resolves.
SettleSpinning(r) ==
    /\ spinning' = IF Counts(r) THEN spinning \ {r.id} ELSE spinning
    /\ refreshing' = (refreshing /\ ~r.refresh)
    /\ reqs' = reqs \ {r}
SettleUnresolved(r) ==
    /\ spinning' = spinning \ {r.id}
    /\ refreshing' = (refreshing /\ ~(r.refresh /\ Counts(r)))
    /\ reqs' = reqs \ {r}

Settle(r) ==
    /\ spinning' = spinning \ {r.id}
    /\ refreshing' = (refreshing /\ ~r.refresh)
    /\ reqs' = reqs \ {r}

\* What the callback does with an answer that is not a 401.  A subscription
\* that could not be read is taken to be none.
Take(r) ==
    \/ /\ Counts(r) /\ ~Failed(r)
       /\ store' = Synced(res.store, store, r.answer) /\ kept' = TRUE
       /\ Announce
    \/ /\ Counts(r) /\ Failed(r) /\ res.sync.blanks
       /\ store' = Synced(res.store, store, Nobodys(r.of)) /\ UNCHANGED kept
       /\ Announce
    \/ /\ ~Counts(r) \/ (Failed(r) /\ ~res.sync.blanks)
       /\ UNCHANGED store /\ UNCHANGED kept /\ UNCHANGED links

\* 401: the browser leaves for the login page and the console starts over.
Restart ==
    /\ page' = None /\ UNCHANGED <<res, console, org>>
    /\ store' = EmptyStore /\ kept' = FALSE
    /\ reqs' = {} /\ syncId' = 0 /\ spinning' = {}
    /\ refreshing' = FALSE /\ links' = [page |-> 0, pages |-> 0, due |-> FALSE]
    /\ socket' = TRUE /\ events' = 0 /\ missed' = FALSE

Deliver ==
    /\ \E r \in reqs :
         /\ r.answer # None
         /\ \/ /\ Failed(r) /\ r.answer.failed = "auth"
               /\ Restart
            \/ /\ Failed(r) => r.answer.failed # "auth"
               /\ Settle(r) /\ Take(r)
               /\ UNCHANGED <<screen, syncId, wire, missed>>
    /\ UNCHANGED srv
-----------------------------------------------------------------------------
User == Mount \/ MountNew \/ Unmount \/ Pick \/ Rewind \/ Turn \/ Filter
          \/ SwitchOrg \/ Refresh \/ Rival
Runtime == Draw \/ Tick \/ Event \/ SocketClose \/ SocketOpen
Server == Change \/ Answer
Next == User \/ Runtime \/ Server \/ Deliver

Spec == Init /\ [][Next]_vars

\* A request ends, timers fire, the socket is opened again and an event that
\* was sent is received; the user and the server's data are under no duty.
Fairness ==
    /\ WF_vars(Answer) /\ WF_vars(Deliver)
    /\ WF_vars(Draw) /\ WF_vars(Tick) /\ WF_vars(Event) /\ WF_vars(SocketOpen)
FairSpec == Spec /\ Fairness
-----------------------------------------------------------------------------
(* Properties.                                                             *)

\* The variables hold what they may: a request is about someone, and only
\* what the server can be asked for is asked.
TypeOK ==
    /\ res \in Resources /\ console \in res.consoles /\ org \in Owners
    /\ page \in {None, "new"} \cup Subjects
    /\ store.page \in Nat /\ store.count \in Nat
    /\ kept \in BOOLEAN /\ syncId \in 0..MaxRequests
    /\ \A r \in reqs : r.of \in Owners \cup {"all"}
    /\ Cardinality(reqs) <= MaxRequests
    /\ links.page \in Nat /\ links.pages \in Nat /\ links.due \in BOOLEAN
    /\ refreshing \in BOOLEAN /\ missed \in BOOLEAN
    /\ socket \in BOOLEAN /\ events \in 0..MaxVersions
    /\ srv.ver \in 1..MaxVersions

Asked(a) ==
    /\ a.of = page /\ a.filter = store.filter
    /\ a.page = ServedPage(store.count, store.page)

\* Once the last request has been answered, the rows on the screen are what
\* the store would ask for now: of this organization, this filter and this
\* page, whatever was answered on the way (the test of syncId, and a request
\* with every filter, page link and reset).
FreshList ==
    page # None /\ kept /\ res.sync.of # "user"
        => store.items # None /\ Asked(store.items)

\* Rows are never replaced by rows the server had before them.
NeverOlder ==
    [][res.sync.guarded /\ store.items # None /\ store'.items # None
         /\ store'.items.ver # 0
           => store'.items.ver >= store.items.ver]_vars

\* The progress bar moves exactly while a request that shows it is not done.
SpinsWhileAsking == spinning = {r.id : r \in {q \in reqs : ~q.quiet}}

\* The refresh button comes back: while it is disabled a request of its own
\* is in flight, even when that request's answer is of no use any more.
RefreshEnds == refreshing => \E r \in reqs : r.refresh

RowsShown ==
    IF res.store.paged
    THEN AtLeast(0, AtMost(res.store.pageCount,
                     store.items.count - store.items.page * res.store.pageCount))
    ELSE store.items.count
Settled == page # None /\ store.items # None /\ kept

\* A list is not empty on the screen while it has rows and there is no link
\* to go to them.
NotStranded ==
    Settled /\ RowsShown = 0 /\ store.count > 0 => Pages(res.store, store) > 1

Current == store.items # None /\ store.items.ver = srv.ver

\* The list on the screen comes to agree with the server, unless nobody says
\* that it changed - an event was lost, or this console takes no notice of
\* such events - and nothing polls.
Untold == missed \/ console \notin res.sync.events
Converges == <>[](page # None /\ (Untold => res.polls) => Current)
=============================================================================
