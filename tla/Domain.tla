------------------------------- MODULE Domain -------------------------------
(***************************************************************************)
(* The status machines of backend/app/domain.py.  A table of moves is the  *)
(* "allowed" dictionary of the class's transition_to: a move that is not   *)
(* in it raises ValueError.  "absent" is the row that does not exist yet.  *)
(***************************************************************************)

CommonMoves(done) ==
    ({"queued"} \X {"running", "cancelled"})
        \cup ({"running"} \X {done, "failed", "cancelled"})

TaskMoves == CommonMoves("completed")

SearchMoves == CommonMoves("completed")

AttemptMoves ==
    CommonMoves("sent")
        \cup {<<"running", "responded">>, <<"sent", "responded">>}

DraftMoves == CommonMoves("ready")

\* The entity a task works on is told by the status its success ends in.
EntityMoves ==
    [completed |-> SearchMoves, sent |-> AttemptMoves, ready |-> DraftMoves]

DoneStatuses == {"completed", "sent", "ready"}

RowStatuses ==
    {"absent", "queued", "running", "failed", "cancelled", "responded"}
        \cup DoneStatuses

Terminal == DoneStatuses \cup {"failed", "cancelled", "responded"}

\* ContactAttempt.has_active looks for these.
Active == {"queued", "running"}

\* transition_to(RUNNING) does not raise.
CanStart(status, moves) == <<status, "running">> \in moves

(***************************************************************************)
(* The end of every "except Exception" handler and of mark_failed: a copy  *)
(* that is queued is moved to running and one that is running to failed;   *)
(* any other status stays as it was loaded.                                *)
(***************************************************************************)
\* Mutant: the handler puts the work back in the queue.
AfterExceptRequeues(status) == IF status \in Active THEN "queued" ELSE status

\* Mutant: the handler does not look at the status it fails.
AfterExceptAlways(status) == "failed"

AfterExcept(status) == IF status \in Active THEN "failed" ELSE status

=============================================================================
