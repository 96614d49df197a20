----------------------------- MODULE VmLifecycle -----------------------------
(***************************************************************************)
(* What a node promises about an instance, its VM and what the VM uses,    *)
(* whatever the loop's snapshot missed and whatever failed: a VM is        *)
(* defined with its address and once it has had a root disk, and switched  *)
(* on only while it is off; a running VM is not undefined, its address not *)
(* freed and its root disk made only once; addresses are freed after the   *)
(* VM is gone, and the instance is forgotten last.                         *)
(***************************************************************************)
CONSTANT Inst

VARIABLES known,   \* the instances there are
          vm,      \* vm[i]: "absent", "off" or "on"
          addr,    \* the instances with an address
          root     \* root[i]: "none", "available" or "destroy"

vars == <<known, vm, addr, root>>

Init ==
    /\ known = Inst
    /\ vm = [i \in Inst |-> "absent"]
    /\ addr = {}
    /\ root = [i \in Inst |-> "none"]

\* The root disk is made once, before there is a VM.
MakeRoot(i) ==
    /\ root[i] = "none" /\ vm[i] = "absent"
    /\ root' = [root EXCEPT ![i] = "available"]
    /\ UNCHANGED <<known, vm, addr>>

\* A VM that does not run is defined, with its address.
Define(i) ==
    /\ vm[i] # "on" /\ root[i] # "none"
    /\ vm' = [vm EXCEPT ![i] = "off"]
    /\ addr' = addr \cup {i}
    /\ UNCHANGED <<known, root>>

PowerOn(i) ==
    /\ vm[i] = "off" /\ i \in addr /\ root[i] # "none"
    /\ vm' = [vm EXCEPT ![i] = "on"]
    /\ UNCHANGED <<known, addr, root>>

PowerOff(i) ==
    /\ vm[i] = "on"
    /\ vm' = [vm EXCEPT ![i] = "off"]
    /\ UNCHANGED <<known, addr, root>>

DropRoot(i) ==
    /\ vm[i] # "on"
    /\ root' = [root EXCEPT ![i] = "destroy"]
    /\ UNCHANGED <<known, vm, addr>>

Undefine(i) ==
    /\ vm[i] = "off"
    /\ vm' = [vm EXCEPT ![i] = "absent"]
    /\ UNCHANGED <<known, addr, root>>

FreeAddr(i) ==
    /\ vm[i] = "absent"
    /\ addr' = addr \ {i}
    /\ UNCHANGED <<known, vm, root>>

Forget(i) ==
    /\ vm[i] = "absent" /\ i \notin addr
    /\ known' = known \ {i}
    /\ UNCHANGED <<vm, addr, root>>

Next ==
    \E i \in Inst : \/ MakeRoot(i) \/ Define(i) \/ PowerOn(i) \/ PowerOff(i)
                    \/ DropRoot(i) \/ Undefine(i) \/ FreeAddr(i) \/ Forget(i)

Spec == Init /\ [][Next]_vars
=============================================================================
