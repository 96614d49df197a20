---------------------------- MODULE ConsoleTables ----------------------------
(***************************************************************************)
(* The lists of the web console whose rows are selected, opened and acted  *)
(* on together.  One definition per list and per file of actions;          *)
(* ConsoleSelection is their behaviour.                                    *)
(***************************************************************************)

(* The bulk functions of the actions: what is sent for the ids.            *)
InstanceBulk ==
    [delete |-> "DELETE", force |-> "DELETE force", start |-> "PUT start",
     stop |-> "PUT stop"]
DiskBulk ==
    [delete |-> "DELETE", force |-> "DELETE force",
     snapshot |-> "PUT snapshot", backup |-> "PUT backup"]
AuthorityBulk == [delete |-> "DELETE"]
BalancerBulk  == [delete |-> "DELETE"]
DomainBulk    == [delete |-> "DELETE"]
FirewallBulk  == [delete |-> "DELETE"]
ImageBulk     == [delete |-> "DELETE"]
UserBulk      == [delete |-> "DELETE"]

(* The ConfirmButtons.  A safe one opens a dialog, in which "delete" may   *)
(* have to be typed; another is held down for most of a second.            *)
Ask   == [dialog |-> TRUE,  typed |-> FALSE]
Typed == [dialog |-> TRUE,  typed |-> TRUE]
Hold  == [dialog |-> FALSE, typed |-> FALSE]

InstancesButtons ==
    [start |-> Ask, stop |-> Ask, delete |-> Typed, force |-> Hold]
DisksButtons ==
    [snapshot |-> Ask, backup |-> Ask, delete |-> Typed, force |-> Ask]
AuthoritiesButtons == [delete |-> Typed]
BalancersButtons   == [delete |-> Hold]
DomainsButtons     == [delete |-> Typed]
FirewallsButtons   == [delete |-> Typed]
ImagesButtons      == [delete |-> Typed]
UsersButtons       == [delete |-> Hold]

(* The rows.  A closed row opens wherever it is clicked but on its checkbox *)
(* and what else is marked; an open one is a form, which can be closed.    *)
(* The row of a user is a link to another page.                            *)
InstanceRow  == [opens |-> TRUE]
DiskRow      == [opens |-> TRUE]
AuthorityRow == [opens |-> TRUE]
BalancerRow  == [opens |-> TRUE]
DomainRow    == [opens |-> TRUE]
FirewallRow  == [opens |-> TRUE]
ImageRow     == [opens |-> TRUE]
NodeRow      == [opens |-> TRUE]
VpcRow       == [opens |-> TRUE]
UserRow      == [opens |-> FALSE]

(* onChange and onSelect of the lists.  Of some lists the "New" button     *)
(* makes a record at once; of others it opens a form (ConsoleForms).       *)
Listing(row, bulk, buttons) ==
    [row |-> row, bulk |-> bulk, buttons |-> buttons, creates |-> FALSE]
Creating(row, bulk, buttons) ==
    [Listing(row, bulk, buttons) EXCEPT !.creates = TRUE]
InstancesList   == Listing(InstanceRow, InstanceBulk, InstancesButtons)
DisksList       == Listing(DiskRow, DiskBulk, DisksButtons)
AuthoritiesList == Creating(AuthorityRow, AuthorityBulk, AuthoritiesButtons)
BalancersList   == Creating(BalancerRow, BalancerBulk, BalancersButtons)
DomainsList     == Creating(DomainRow, DomainBulk, DomainsButtons)
FirewallsList   == Creating(FirewallRow, FirewallBulk, FirewallsButtons)
ImagesList      == Listing(ImageRow, ImageBulk, ImagesButtons)
UsersList       == Listing(UserRow, UserBulk, UsersButtons)
\* Rows are selected, and nothing is done with the selection.
NodesList       == Listing(NodeRow, <<>>, <<>>)
VpcsList        == Creating(VpcRow, <<>>, <<>>)

\* On a phone or a tablet every ConfirmButton opens a dialog.
Mobile(l) ==
    [l EXCEPT !.buttons =
        [op \in DOMAIN l.buttons |-> [l.buttons[op] EXCEPT !.dialog = TRUE]]]
=============================================================================
