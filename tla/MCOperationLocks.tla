---------------------------- MODULE MCOperationLocks ----------------------------
(***************************************************************************)
(* Small instances of OperationLocks.  One agent A, one checkout "cb",     *)
(* worktrees w1 and w2.  Each scenario is a set of slots.                  *)
(***************************************************************************)
EXTENDS OperationLocks

A == "A"

Worktree(w, m) == Resource("WORKTREE", <<A, "worktree", w>>, m, A, "cb", <<>>)
Stability(w, m) == Resource("WORKTREE", <<A, "build-stability", w>>, m, A, "cb", <<>>)
Path(p, m) == Resource("PATH", <<A, "path", p>>, m, A, "cb", p)
Barrier == Resource("CODEBASE", CodebaseLane(A, "cb"), "WRITE", A, "cb", <<>>)

(* Every descriptor is what the control plane builds for the operation.    *)
(* The managed build directory of w1 is outside of the worktree.           *)
BuildDirectory == <<"builds", "w1">>

Descriptor ==
  [build   |-> {Worktree("w1", "BUILD"), Path(<<"w1">>, "BUILD"),
                Stability("w1", "WRITE"), Path(BuildDirectory, "WRITE"),
                sourceBranchResource("o", "main", "INTENT")},
   inspect |-> {Worktree("w1", "READ"), Path(<<"w1">>, "READ")},
   edit    |-> {Worktree("w1", "WRITE"), Path(<<"w1">>, "WRITE"),
                sourceBranchResource("o", "main", "INTENT")},
   other   |-> {Worktree("w2", "WRITE"), Path(<<"w2">>, "WRITE")},
   command |-> {Barrier},
   session |-> {Stability("w1", "READ")},
   merge   |-> {sourceBranchResource("o", "main", "WRITE"), Worktree("w1", "READ")},
   move    |-> {Worktree("w1", "WRITE"), Path(<<"w1">>, "WRITE"),
                Worktree("w2", "WRITE"), Path(<<"w2">>, "WRITE"),
                sourceBranchResource("o", "main", "INTENT")},
   push    |-> {Worktree("w1", "WRITE"), Path(<<"w1">>, "WRITE"),
                sourceBranchResource("o", "main", "INTENT")},
   cleanup |-> {Worktree("w1", "WRITE"), Path(<<"w1">>, "WRITE"),
                Path(BuildDirectory, "WRITE"),
                sourceBranchResource("o", "main", "INTENT")},
   measure |-> {Path(BuildDirectory, "READ")}]

MCWants == [h \in Holder |-> Descriptor[h]]

MCKind == [h \in Holder |->
  CASE h = "session" -> "AGENT_RUN" [] h = "merge" -> "MERGE_SUBMISSION"
    [] h = "move" -> "WORKTREE_MOVE" [] OTHER -> "AGENT_JOB"]

MCParent == [h \in Holder |->
  IF h \in {"push", "cleanup"} THEN "move" ELSE NoParent]
===============================================================================
