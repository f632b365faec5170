------------------------- MODULE MCResourceCoordinator -------------------------
(***************************************************************************)
(* Small instances of ResourceCoordinator: one agent A, one checkout "cb", *)
(* worktrees w1 and w2, build directories d1 and d2 outside of both and    *)
(* shared output roots x1 and x2.                                          *)
(***************************************************************************)
EXTENDS ResourceCoordinator

A == "A"

WorktreeOf(w, m) == Resource("WORKTREE", <<A, "worktree", w>>, m, A, "cb", <<>>)
Stability(w, m) == Resource("WORKTREE", <<A, "build-stability", w>>, m, A, "cb", <<>>)
PathOf(p, m) == Resource("PATH", <<A, "path", p>>, m, A, "cb", <<p>>)
Metadata == Resource("METADATA", <<A, "repository-access", "cb">>, "INTENT", A, "cb", <<>>)

Builds(w) == {WorktreeOf(w, "BUILD"), PathOf(w, "BUILD"), Stability(w, "WRITE")}
Works(w) == {WorktreeOf(w, "WRITE"), PathOf(w, "WRITE")}
Inspects(w) == {WorktreeOf(w, "READ"), PathOf(w, "READ")}
Writes(P) == {PathOf(p, "WRITE") : p \in P}

(* Two builds whose output roots are each other's build directory, one of  *)
(* them with a shared root too; an inspection and an edit of w1; a fetch   *)
(* that updates w1 when it is free; the removal of w1 with the shared root *)
(* x1; two builds with output roots of their own and two deletions of      *)
(* build data.                                                             *)
Plan ==
  [build1   |-> <<Builds("w1") \union Writes({"d1"}), Writes({"d2"})>>,
   build2   |-> <<Builds("w2") \union Writes({"d2"}), Writes({"d1", "x1"})>>,
   inspect1 |-> <<Inspects("w1")>>,
   edit     |-> <<Works("w1")>>,
   fetch    |-> <<{Metadata}, Works("w1")>>,
   remove   |-> <<Works("w1") \union Writes({"x1"})>>,
   test1    |-> <<Builds("w1") \union Writes({"d1"}), Writes({"x1"})>>,
   test2    |-> <<Builds("w2") \union Writes({"d2"}), Writes({"x2"})>>,
   delete1  |-> <<Writes({"x1", "d2"})>>,
   delete2  |-> <<Writes({"x2", "d1"})>>]

MCClaims == [o \in Op |-> Plan[o]]
MCOptional == {<<"fetch", 2>>}
===============================================================================
