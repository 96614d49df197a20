---- MODULE MCConsoleSync ----
EXTENDS ConsoleSync, TLC

Two == {"a", "b"}
EdgeRows == {<<0, 1>>, <<2, 0>>}
FewRows == {<<0, 1>>}

\* One of each kind: a list with pages and a filter, the same about a user, a
\* list that an organization is switched under, one user's record, what a form
\* picks from and what a failed request empties.
Kinds ==
    {Domains, Audits, Certificates, UserDetailed, ImageNames, Subscription}

\* All but what is about one user or one form.
Live ==
    {Instances, Authorities, Balancers, Disks, Domains, Firewalls, Images,
     Nodes, Vpcs, Users, Logs, Blocks, Certificates, Datacenters,
     Organizations, Policies, Storages, Zones, Settings, Subscription,
     DomainNames, VpcNames}

Symmetry == Permutations(Owners)
====
