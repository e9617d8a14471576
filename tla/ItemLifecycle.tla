---------------------------- MODULE ItemLifecycle ----------------------------
(***************************************************************************)
(* What an archive item promises its readers: it is created pending, reads *)
(* completed only from the step that made its whole archive readable, and  *)
(* an archive that was readable once stays readable.  Starting, failing    *)
(* and reopening are always allowed: two jobs may serve one item.          *)
(***************************************************************************)
CONSTANT Item

VARIABLES status, archived

vars == <<status, archived>>

Existing == {i \in Item : status[i] # "absent"}

Init ==
    /\ status = [i \in Item |-> "absent"]
    /\ archived = [i \in Item |-> FALSE]

Create(i) ==
    /\ i \notin Existing
    /\ status' = [status EXCEPT ![i] = "pending"]
    /\ UNCHANGED archived

\* An attempt begins, or an operator queues the item again.
Reopen(i) ==
    /\ i \in Existing
    /\ \E st \in {"pending", "processing"} : status' = [status EXCEPT ![i] = st]
    /\ UNCHANGED archived

Publish(i) ==
    /\ i \in Existing
    /\ status' = [status EXCEPT ![i] = "completed"]
    /\ archived' = [archived EXCEPT ![i] = TRUE]

\* The cleanup may fail several items in one statement.
Fail(I) ==
    /\ status' = [i \in Item |-> IF i \in I THEN "failed" ELSE status[i]]
    /\ UNCHANGED archived

Next ==
    \/ \E i \in Item : Create(i) \/ Reopen(i) \/ Publish(i)
    \/ \E I \in SUBSET Existing : Fail(I)

Spec == Init /\ [][Next]_vars
=============================================================================
