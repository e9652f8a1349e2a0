----------------------------- MODULE Lifecycle -----------------------------
(***************************************************************************)
(* What a durable status promises to whoever polls it: a record is created *)
(* queued and each commit takes it along one move of the table of its      *)
(* class, except that a record whose work is refused goes from queued to   *)
(* failed in one commit, its pass through running staying in memory.       *)
(***************************************************************************)
CONSTANTS Items, Moves

VARIABLE status

Init == status = [i \in Items |-> "absent"]

Create(i) ==
    /\ status[i] = "absent"
    /\ status' = [status EXCEPT ![i] = "queued"]

Commit(i) ==
    \E m \in Moves :
        /\ status[i] = m[1]
        /\ status' = [status EXCEPT ![i] = m[2]]

Refuse(i) ==
    /\ status[i] = "queued"
    /\ status' = [status EXCEPT ![i] = "failed"]

Next == \E i \in Items : Create(i) \/ Commit(i) \/ Refuse(i)

Spec == Init /\ [][Next]_status

=============================================================================
