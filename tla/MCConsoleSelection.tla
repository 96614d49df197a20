---- MODULE MCConsoleSelection ----
EXTENDS ConsoleSelection

Desktop ==
    {InstancesList, DisksList, AuthoritiesList, BalancersList, DomainsList,
     FirewallsList, ImagesList, UsersList, NodesList, VpcsList}
All == Desktop \cup {Mobile(l) : l \in {InstancesList, BalancersList}}

\* Two rows change places with a third between them, and a row goes.
SomeViews == {<<1, 2, 3>>, <<3, 1>>}
====
