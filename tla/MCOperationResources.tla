------------------------- MODULE MCOperationResources -------------------------
(***************************************************************************)
(* Two operations declare resources one at a time, in any order and with   *)
(* repetitions, from a universe that holds every kind of overlap: two      *)
(* agents, two checkouts, nested paths, a branch shared by two clones and  *)
(* both barriers.                                                          *)
(***************************************************************************)
EXTENDS OperationResources, FiniteSets

CONSTANT MaxDeclared    \* resources one operation declares

VARIABLES left, right   \* the resources each operation has declared so far

vars == <<left, right>>

Worktree(a, w, m) == Resource("WORKTREE", <<a, "worktree", w>>, m, a, "cb", <<>>)
Path(a, p, m) == Resource("PATH", <<a, "path", p>>, m, a, "cb", p)

Universe ==
  {Worktree("A", "w1", m) : m \in {"READ", "BUILD", "WRITE"}}
    \union {Worktree("B", "w1", "WRITE")}
    \union {Path("A", <<"x">>, "READ"), Path("A", <<"x", "y">>, "BUILD"),
            Path("A", <<>>, "WRITE"), Path("B", <<"x">>, "WRITE")}
    \union {sourceBranchResource("o", "main", m) : m \in {"INTENT", "WRITE"}}
    \union {Resource("CODEBASE", CodebaseLane("A", "cb"), "WRITE", "A", "cb", <<>>),
            Resource("AGENT", AgentLane("A"), "WRITE", "A", Absent, <<>>),
            Resource("METADATA", <<"A", "repository-access", "cb">>, "INTENT",
                     "A", "cb", <<>>),
            Resource("DESTINATION", <<"A", "destination", "sim">>, "WRITE",
                     "A", Absent, <<>>)}

Init == left = <<>> /\ right = <<>>

DeclareLeft ==
  /\ Len(left) < MaxDeclared
  /\ \E r \in Universe : left' = Append(left, r)
  /\ UNCHANGED right

DeclareRight ==
  /\ Len(right) < MaxDeclared
  /\ \E r \in Universe : right' = Append(right, r)
  /\ UNCHANGED left

Next == DeclareLeft \/ DeclareRight

Spec == Init /\ [][Next]_vars

-------------------------------------------------------------------------------
Declared(s) == {s[i] : i \in 1 .. Len(s)}

(* The reference definition of a conflict: every resource covers a set of  *)
(* sites, a barrier covers the sites of everything declared under its      *)
(* agent or its checkout, a path covers its whole subtree.                 *)
Leaves == {r.path : r \in {r \in Universe : r.kind = "PATH"}}

OwnSites(r) ==
  IF r.kind = "PATH"
  THEN {<<"PATH", r.agentId, l>> : l \in {l \in Leaves : IsAncestor(r.path, l)}}
  ELSE {<<r.kind, r.key>>}

BarrierSites(r) ==
  UNION {OwnSites(s) : s \in {s \in Universe :
    \/ IsBarrier(r, "AGENT") /\ SameAgent(r, s)
    \/ IsBarrier(r, "CODEBASE") /\ SameCodebase(r, s)}}

Exclusive(a, b) ==
  \/ IsBarrier(a, "AGENT") \/ IsBarrier(a, "CODEBASE")
  \/ IsBarrier(b, "AGENT") \/ IsBarrier(b, "CODEBASE")
  \/ ~Compatible(a.mode, b.mode)

Overlap(a, b) ==
  /\ (OwnSites(a) \union BarrierSites(a)) \cap (OwnSites(b) \union BarrierSites(b)) # {}
  /\ Exclusive(a, b)

(* Two operations conflict exactly when the sites their resources cover    *)
(* overlap in incompatible modes: operationResourcesConflict decides a     *)
(* hierarchy of barriers, checkouts and nested paths by comparing fields.  *)
ConflictIsOverlap ==
  operationDescriptorsConflict(Declared(left), Declared(right))
    <=> \E a \in Declared(left), b \in Declared(right) : Overlap(a, b)

(* "Short transactional fences cover hierarchical barriers and cross-clone *)
(* branches": two operations that conflict take at least one common lane,  *)
(* so their admissions are serialised (admitOperation locks the lanes).    *)
FencesCoverConflicts ==
  operationDescriptorsConflict(Declared(left), Declared(right))
    => Fences(Declared(left)) \cap Fences(Declared(right)) # {}

(* Normalising what an operation declared, in whatever order and however   *)
(* often it declared it, neither loses a conflict nor creates one.         *)
NormalizationKeepsConflicts ==
  operationDescriptorsConflict(Declared(left), Declared(right))
    <=> operationDescriptorsConflict(normalizeOperationResources(left),
                                     normalizeOperationResources(right))
===============================================================================
