---------------------------- MODULE MCAgentTasks ----------------------------
(***************************************************************************)
(* Instance of AgentTasks in which the entity is a contract draft, whose   *)
(* processing is this protocol and nothing more that is durable: the draft *)
(* is generated between BeginWork and WorkSucceeds or WorkFails.           *)
(***************************************************************************)
EXTENDS AgentTasks

CONSTANTS t1, t2, w1

MCTasks == {t1, t2}
MCWorkers == {w1}

=============================================================================
