-------------------------- MODULE OperationResources --------------------------
(***************************************************************************)
(* Execution resources shared by the control plane and the agents          *)
(* (packages/agent-contract/src/operation-resources.ts).  An operation     *)
(* declares a set of resources; two operations may run together unless     *)
(* two of their resources conflict.                                        *)
(*                                                                         *)
(* A resource is a record with the fields of the source type.  Keys are    *)
(* tuples (the source concatenates them), a path is the sequence of its    *)
(* segments, <<>> being the root (and the path of what is not a PATH), an  *)
(* agent or a checkout the source omits is Absent.                         *)
(***************************************************************************)
EXTENDS Integers, Sequences

Absent == "absent"

Kinds == {"WORKTREE", "CODEBASE", "AGENT", "BRANCH", "ARTIFACT",
          "DESTINATION", "PATH", "METADATA"}

Modes == {"READ", "BUILD", "WRITE", "INTENT"}

(* The constructor used for every resource below. *)
Resource(kind, key, mode, agent, codebase, path) ==
  [kind |-> kind, key |-> key, mode |-> mode,
   agentId |-> agent, codebaseId |-> codebase, path |-> path]

sourceBranchResource(origin, branch, mode) ==
  Resource("BRANCH", <<"branch", origin, branch>>, mode, Absent, Absent, <<>>)

-------------------------------------------------------------------------------
(* Conflicts *)

SameAgent(a, b) == a.agentId # Absent /\ a.agentId = b.agentId

SameCodebase(a, b) ==
  SameAgent(a, b) /\ a.codebaseId # Absent /\ a.codebaseId = b.codebaseId

IsBarrier(r, kind) == r.kind = kind /\ r.mode = "WRITE"

(* p is q or one of its ancestors. *)
IsAncestor(p, q) == Len(p) <= Len(q) /\ SubSeq(q, 1, Len(p)) = p

(* Mutant: only what lies below the first path overlaps it. *)
M_overlappingPaths(p, q) == IsAncestor(p, q)

overlappingPaths(p, q) == IsAncestor(p, q) \/ IsAncestor(q, p)

SameThing(a, b) ==
  /\ a.kind = b.kind
  /\ IF a.kind = "PATH"
     THEN SameAgent(a, b) /\ overlappingPaths(a.path, b.path)
     ELSE a.key = b.key

Compatible(m, n) ==
  \/ m = "INTENT" /\ n = "INTENT"
  \/ m = "READ" /\ n \in {"READ", "BUILD"}
  \/ n = "READ" /\ m = "BUILD"

operationResourcesConflict(a, b) ==
  \/ SameAgent(a, b) /\ (IsBarrier(a, "AGENT") \/ IsBarrier(b, "AGENT"))
  \/ SameCodebase(a, b) /\ (IsBarrier(a, "CODEBASE") \/ IsBarrier(b, "CODEBASE"))
  \/ SameThing(a, b) /\ ~Compatible(a.mode, b.mode)

operationDescriptorsConflict(D, E) ==
  \E a \in D, b \in E : operationResourcesConflict(a, b)

-------------------------------------------------------------------------------
(* Normalisation: one resource per identity, the strongest mode declared,  *)
(* the first declared one on a tie.  The source sorts the result, so that  *)
(* descriptors compare by content: here the result is a set.               *)

Strength == [m \in Modes |-> CASE m = "INTENT" -> 0 [] m = "READ" -> 1
                               [] m = "BUILD" -> 2 [] m = "WRITE" -> 3]

SameIdentity(a, b) == a.kind = b.kind /\ a.key = b.key

(* Mutant: the mode declared first wins. *)
M_normalizeOperationResources(rs) ==
  {rs[i] : i \in {i \in 1 .. Len(rs) :
     \A j \in 1 .. Len(rs) : SameIdentity(rs[i], rs[j]) => i <= j}}

normalizeOperationResources(rs) ==
  {rs[i] : i \in {i \in 1 .. Len(rs) :
     \A j \in 1 .. Len(rs) : SameIdentity(rs[i], rs[j]) =>
        \/ Strength[rs[j].mode] < Strength[rs[i].mode]
        \/ Strength[rs[j].mode] = Strength[rs[i].mode] /\ i <= j}}

-------------------------------------------------------------------------------
(* The admission lanes a transaction takes before it scans the holders.    *)

AgentLane(a) == <<"agent", a>>
CodebaseLane(a, c) == <<a, "codebase", c>>

(* Mutant: a resource takes the lane of its own key only. *)
M_Lanes(r) == {r.key}

Lanes(r) ==
  {r.key}
    \union (IF r.agentId # Absent THEN {AgentLane(r.agentId)} ELSE {})
    \union (IF r.agentId # Absent /\ r.codebaseId # Absent
            THEN {CodebaseLane(r.agentId, r.codebaseId)} ELSE {})

Fences(D) == UNION {Lanes(r) : r \in D}
===============================================================================
