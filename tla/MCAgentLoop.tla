----------------------------- MODULE MCAgentLoop -----------------------------
(* A small instance of AgentLoop: two calls in the first step, one in each   *)
(* later one, so that results of one step age while another runs.           *)
EXTENDS AgentLoop

CallsPerStep == [s \in 1..MaxIterations |-> IF s = 1 THEN 2 ELSE 1]
=============================================================================
