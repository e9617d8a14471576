---------------------------- MODULE IdentityMutex ----------------------------
(* One mutex per identity, for ever: what capture creation relies on. *)
CONSTANTS Process, Identity

VARIABLES after, phase

vars == <<after, phase>>

Init == after \in [Process -> Identity] /\ phase = [p \in Process |-> "idle"]

Ask(p, i) ==
    /\ phase[p] = "idle"
    /\ phase' = [phase EXCEPT ![p] = "waiting"]
    /\ after' = [after EXCEPT ![p] = i]

Enter(p) ==
    /\ phase[p] = "waiting"
    /\ \A q \in Process : ~(phase[q] = "holding" /\ after[q] = after[p])
    /\ phase' = [phase EXCEPT ![p] = "holding"]
    /\ UNCHANGED after

Leave(p) ==
    /\ phase[p] = "holding"
    /\ phase' = [phase EXCEPT ![p] = "idle"]
    /\ UNCHANGED after

Next == \E p \in Process : Enter(p) \/ Leave(p) \/ \E i \in Identity : Ask(p, i)

Spec == Init /\ [][Next]_vars
=============================================================================
