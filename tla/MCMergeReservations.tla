-------------------------- MODULE MCMergeReservations --------------------------
(***************************************************************************)
(* A pull request of branch "main", checked out in worktree w1 of agent A, *)
(* attempts to merge it, and a build of that worktree.                     *)
(***************************************************************************)
EXTENDS MergeReservations

Worktree(w, m) == Resource("WORKTREE", <<"A", "worktree", w>>, m, "A", "cb", <<>>)
Stability(w, m) == Resource("WORKTREE", <<"A", "build-stability", w>>, m, "A", "cb", <<>>)

MergeWants == {sourceBranchResource("o", "main", "WRITE"), Worktree("w1", "READ")}
BuildWants ==
  {Worktree("w1", "BUILD"), Stability("w1", "WRITE"), sourceBranchResource("o", "main", "INTENT")}

MCWants == [h \in Holder |-> IF h = "build" THEN BuildWants ELSE MergeWants]
MCKind == [h \in Holder |-> IF h = "build" THEN "AGENT_JOB" ELSE "MERGE_SUBMISSION"]
MCParent == [h \in Holder |-> NoParent]

(* The attempts are alike and each is made once: that "merge" is the first *)
(* only names them.  Fairness never asks for a Reserve, so no behaviour    *)
(* ends where this constraint cuts.                                        *)
InOrder == state["again"] # "NONE" => state["merge"] # "NONE"
===============================================================================
