---------------------------- MODULE MCWorktreeMoves ----------------------------
(***************************************************************************)
(* A move of branch "main" from worktree w1 of agent A to worktree w2 of   *)
(* agent B, which has "other" checked out.                                 *)
(***************************************************************************)
EXTENDS WorktreeMoves

Checkouts(a, w) ==
  {Resource("WORKTREE", <<a, "worktree", w>>, "WRITE", a, "cb", <<>>),
   Resource("PATH", <<a, "path", <<w>>>>, "WRITE", a, "cb", <<w>>)}

Branch(b) == sourceBranchResource("o", b, "INTENT")
BuildDirectory == Resource("PATH", <<"A", "path", <<"builds", "w1">>>>, "WRITE", "A", "cb", <<"builds", "w1">>)

AtSource == Checkouts("A", "w1") \union {Branch("main")}
AtDestination == Checkouts("B", "w2") \union {Branch("main"), Branch("other")}

MCWants == [h \in Holder |->
  CASE h = "move" -> AtSource \union AtDestination
    [] h = "push" -> AtSource
    [] h = "cleanup" -> AtSource \union {BuildDirectory}
    [] OTHER -> AtDestination]

MCKind == [h \in Holder |-> IF h = "move" THEN "WORKTREE_MOVE" ELSE "AGENT_JOB"]
MCParent == [h \in Holder |-> IF h = "move" THEN NoParent ELSE "move"]
MCCalls == [s \in Stage |-> IF s = "initial" THEN 2 ELSE 1]
===============================================================================
