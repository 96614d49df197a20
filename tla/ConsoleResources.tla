--------------------------- MODULE ConsoleResources ---------------------------
(***************************************************************************)
(* What the console reads from the server: for every list or record, the   *)
(* function that requests it, the store that keeps it, and the component   *)
(* that shows it.  One definition per file; ConsoleSync is their behaviour.*)
(***************************************************************************)
EXTENDS ConsoleStores

(* The functions sync and load of the actions.                             *)
(*   of       what the request is about besides filter and page: nothing,  *)
(*            the organization of the header, the user of the page, or     *)
(*            what was picked in a form                                    *)
(*   guarded  an answer counts only while syncId is still the request's    *)
(*   shared   another function of the file uses the same syncId            *)
(*   events   where a change event requests again                          *)
(*   button   the refresh button of the header requests again              *)
(*   blanks   a request that fails leaves an empty record                  *)
(*   rewound  the list of users goes back to the first page of it          *)
Consoles == {"admin", "user"}
Request(of) ==
    [of |-> of, guarded |-> TRUE, shared |-> FALSE, events |-> Consoles,
     button |-> of # "pick", blanks |-> FALSE, rewound |-> FALSE]

InstanceSync     == [Request("org") EXCEPT !.shared = TRUE]
DiskSync         == Request("org")
BalancerSync     == Request("org")
DomainSync       == Request("org")
FirewallSync     == Request("org")
NodeSync         == Request("org")
VpcSync          == Request("org")
CertificateSync  == Request("org")
DatacenterSync   == Request("org")
ZoneSync         == Request("org")
ImageSync        == [Request("org") EXCEPT !.shared = TRUE]
AuthoritySync    == [Request("org") EXCEPT !.events = {"admin"}]
OrganizationSync == Request("all")
SubscriptionSync ==
    [Request("all") EXCEPT !.events = {"admin"}, !.blanks = TRUE]
BlockSync        == [Request("all") EXCEPT !.events = {"admin"}]
LogSync          == [Request("all") EXCEPT !.events = {"admin"}]
PolicySync       == [Request("all") EXCEPT !.events = {"admin"}]
StorageSync      == [Request("all") EXCEPT !.events = {"admin"}]
SettingsSync     == [Request("all") EXCEPT !.events = {"admin"}]
UserSync         == [Request("all") EXCEPT !.events = {"admin"}]
AuditLoad ==
    [Request("user") EXCEPT !.events = {"admin"}, !.rewound = TRUE]
SessionLoad      == [Request("user") EXCEPT !.events = {"admin"}]
DeviceLoad       == [Request("user") EXCEPT !.button = FALSE]
UserLoad         == [Request("user") EXCEPT !.guarded = FALSE, !.events = {}]
DomainSyncName ==
    [Request("org") EXCEPT !.events = {}, !.button = FALSE]
VpcSyncNames ==
    [Request("org") EXCEPT !.events = {}, !.button = FALSE]
NodeSyncZone        == [Request("pick") EXCEPT !.events = {}]
ImageSyncDatacenter == [Request("pick") EXCEPT !.events = {}, !.shared = TRUE]

(* The components that turn pages: the links to pages before the current   *)
(* one, all links, and the number of pages from which the ends are shown.  *)
PageLinks == [before |-> 7, all |-> 15, ends |-> 5]
InstancesPage   == PageLinks
AuthoritiesPage == PageLinks
BalancersPage   == PageLinks
DisksPage       == PageLinks
DomainsPage     == PageLinks
FirewallsPage   == PageLinks
ImagesPage      == PageLinks
LogsPage        == PageLinks
NodesPage       == PageLinks
UsersPage       == PageLinks
VpcsPage        == PageLinks
AuditsPage      == PageLinks
-----------------------------------------------------------------------------
(* What a component requests when it is mounted.  polls: it requests again *)
(* every second without showing the progress bar; filters: a user may set  *)
(* fields of a filter.                                                     *)
Shown(store, sync, polls, consoles) ==
    [store |-> store, sync |-> sync, polls |-> polls, consoles |-> consoles,
     filters |-> FALSE, page |-> None]
Paging(store, sync, page, polls, consoles) ==
    [Shown(store, sync, polls, consoles) EXCEPT !.page = page]
Table(store, sync, page, polls, consoles) ==
    [Paging(store, sync, page, polls, consoles) EXCEPT !.filters = TRUE]

Instances ==
    Table(InstancesStore, InstanceSync, InstancesPage, TRUE, Consoles)
Authorities ==
    Table(AuthoritiesStore, AuthoritySync, AuthoritiesPage, FALSE, Consoles)
Balancers ==
    Table(BalancersStore, BalancerSync, BalancersPage, TRUE, Consoles)
Disks == Table(DisksStore, DiskSync, DisksPage, FALSE, Consoles)
Domains == Table(DomainsStore, DomainSync, DomainsPage, FALSE, {"admin"})
Firewalls ==
    Table(FirewallsStore, FirewallSync, FirewallsPage, FALSE, Consoles)
Images == Table(ImagesStore, ImageSync, ImagesPage, FALSE, Consoles)
Nodes == Table(NodesStore, NodeSync, NodesPage, TRUE, {"admin"})
Vpcs == Table(VpcsStore, VpcSync, VpcsPage, FALSE, Consoles)
Users == Table(UsersStore, UserSync, UsersPage, FALSE, {"admin"})
Logs == Table(LogsStore, LogSync, LogsPage, FALSE, {"admin"})
Audits == Paging(AuditsStore, AuditLoad, AuditsPage, FALSE, {"admin"})
Blocks        == Shown(BlocksStore, BlockSync, FALSE, {"admin"})
Certificates  == Shown(CertificatesStore, CertificateSync, FALSE, Consoles)
Datacenters   == Shown(DatacentersStore, DatacenterSync, FALSE, {"admin"})
Organizations == Shown(OrganizationsStore, OrganizationSync, FALSE, {"admin"})
Policies      == Shown(PoliciesStore, PolicySync, FALSE, {"admin"})
Storages      == Shown(StoragesStore, StorageSync, FALSE, {"admin"})
Zones         == Shown(ZonesStore, ZoneSync, FALSE, {"admin"})
Settings      == Shown(SettingsStore, SettingsSync, FALSE, {"admin"})
Subscription  == Shown(SubscriptionStore, SubscriptionSync, FALSE, {"admin"})
Sessions      == Shown(SessionsStore, SessionLoad, FALSE, {"admin"})
Devices       == Shown(DevicesStore, DeviceLoad, FALSE, {"admin"})
UserDetailed  == Shown(UserStore, UserLoad, FALSE, {"admin"})
\* The choices of the forms that make instances and disks.
DomainNames == Shown(DomainsNameStore, DomainSyncName, FALSE, Consoles)
VpcNames    == Shown(VpcsNameStore, VpcSyncNames, FALSE, Consoles)
NodeNames   == Shown(NodesZoneStore, NodeSyncZone, FALSE, Consoles)
ImageNames  == Shown(ImagesDatacenterStore, ImageSyncDatacenter, FALSE, Consoles)
=============================================================================
