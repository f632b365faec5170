------------------------------- MODULE MCAgentJobs -------------------------------
(***************************************************************************)
(* Small instances of AgentJobs: the jobs write the same worktree.         *)
(***************************************************************************)
EXTENDS AgentJobs

MCKind == [j \in Holder |-> "AGENT_JOB"]
MCParent == [j \in Holder |-> NoParent]
MCWants == [j \in Holder |->
  {Resource("WORKTREE", <<"A", "worktree", "w1">>, "WRITE", "A", "cb", <<>>)}]
===============================================================================
