---------------------------- MODULE ConsoleStores ----------------------------
(***************************************************************************)
(* The stores of the web console.  A store keeps what the last answer of   *)
(* the server held and, where the list is paged, the page and the filter   *)
(* the next request will ask for.  It changes only when an action is       *)
(* dispatched; every operator below is one case of a store's _callback.    *)
(*                                                                         *)
(* The stores of one kind share their code line by line; the definition of *)
(* each names what distinguishes it.                                       *)
(***************************************************************************)
EXTENDS Integers

CONSTANT None   \* null or undefined

AtMost(a, b) == IF a < b THEN a ELSE b
AtLeast(a, b) == IF a > b THEN a ELSE b

\* pageCount is the number of rows of a page, resets the fields of the filter
\* whose change goes back to the first page, clears whether RESET empties it.
Paged(n, resets) ==
    [paged |-> TRUE, pageCount |-> n, resets |-> resets, clears |-> TRUE]
Whole ==
    [paged |-> FALSE, pageCount |-> 1, resets |-> {}, clears |-> TRUE]
Kept == [Whole EXCEPT !.clears = FALSE]

InstancesStore   == Paged(20, {"name"})
AuthoritiesStore == Paged(20, {"name"})
BalancersStore   == Paged(20, {"name"})
DisksStore       == Paged(20, {"name"})
DomainsStore     == Paged(20, {"name"})
FirewallsStore   == Paged(20, {"name"})
ImagesStore      == Paged(20, {"name"})
NodesStore       == Paged(20, {"name"})
VpcsStore        == Paged(20, {"name"})
UsersStore       == Paged(50, {"type", "administrator", "disabled", "role"})
LogsStore        == Paged(50, {"level"})
AuditsStore      == Paged(10, {})
BlocksStore       == Whole
CertificatesStore == Whole
DatacentersStore  == Whole
PoliciesStore     == Whole
StoragesStore     == Whole
ZonesStore        == Whole
SessionsStore     == Whole
UserStore         == Whole
SettingsStore     == Whole
DomainsNameStore      == Whole
VpcsNameStore         == Whole
NodesZoneStore        == Whole
ImagesDatacenterStore == Whole
\* RESET changes only which organization is the current one.
OrganizationsStore == Kept
\* No case for RESET.
DevicesStore      == Kept
SubscriptionStore == Kept
-----------------------------------------------------------------------------
\* items is the answer in the store, with the question it answers.
EmptyStore == [items |-> None, count |-> 0, page |-> 0, filter |-> None]

Pages(d, s) == (s.count + d.pageCount - 1) \div d.pageCount

\* _traverse: it announces nothing, the request that follows will.
TraverseTo(d, s, p) == [s EXCEPT !.page = AtMost(Pages(d, s), p)]

Field(f, k) == IF k \in DOMAIN f THEN f[k] ELSE None

\* _filterCallback.  Its second disjunct compares with an object literal and
\* never holds.
ResetsPage(d, old, new) ==
    \/ old # None /\ new = None
    \/ /\ old # None /\ new # None
       /\ \E k \in d.resets : Field(old, k) # Field(new, k)

FilterBy(d, s, f) ==
    [(IF ResetsPage(d, s.filter, f) THEN TraverseTo(d, s, 0) ELSE s)
        EXCEPT !.filter = f]

\* _sync: the page the user is on may be gone.
Synced(d, s, a) ==
    LET t == [s EXCEPT !.items = a, !.count = a.count]
    IN  IF d.paged THEN [t EXCEPT !.page = AtMost(Pages(d, t), s.page)] ELSE t

Cleared(d, s) == IF d.clears THEN EmptyStore ELSE s
=============================================================================
