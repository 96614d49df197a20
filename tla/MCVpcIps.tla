------------------------------ MODULE MCVpcIps ------------------------------
(* Networks of six and eight IP addresses, half the smallest the code        *)
(* accepts: one index and two.  The wide one overlaps the high one.          *)
EXTENDS VpcIps, TLC

LowNet == [base |-> 16, size |-> 8]
TinyNet == [base |-> 24, size |-> 6]
HighNet == [base |-> 32, size |-> 8]
WideNet == [base |-> 32, size |-> 16]

TwoNets == {LowNet, TinyNet}
OverlappingNets == {LowNet, HighNet, WideNet}

Symmetry == Permutations(Inst) \cup Permutations(Sub)
=============================================================================
