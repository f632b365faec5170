--------------------------- MODULE MCRepositoryQueue ---------------------------
(***************************************************************************)
(* One checkout with tasks of every kind.                                  *)
(***************************************************************************)
EXTENDS RepositoryQueue

KindByName ==
  [edit |-> "exclusive", push |-> "exclusive", build1 |-> "build", build2 |-> "build",
   status |-> "inspection", diff |-> "inspection", fetch |-> "reconciliation",
   sweep |-> "reconciliation"]

MCKind == [t \in Task |-> KindByName[t]]
===============================================================================
