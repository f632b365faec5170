------------------------------ MODULE MCAgentRuns ------------------------------
(***************************************************************************)
(* Small instances of AgentRuns: every session asks for the one slot of    *)
(* its worktree, as sessions do by default.                                *)
(***************************************************************************)
EXTENDS AgentRuns

MCLimit == [r \in Run |-> 1]
===============================================================================
