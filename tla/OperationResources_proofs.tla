----------------------- MODULE OperationResources_proofs -----------------------
(***************************************************************************)
(* Admission lanes and normalisation are right for every agent, checkout,  *)
(* key and path, and for declarations of every length.                     *)
(***************************************************************************)
EXTENDS MCOperationResources, WellFoundedInduction, TLAPS

(* The lanes of two descriptors that conflict meet, whatever they hold: a  *)
(* barrier reaches no further than its agent, everything else is in        *)
(* conflict by its key or under one agent (admitOperation locks the lanes  *)
(* of OperationLocks before it scans the holders).                         *)
THEOREM LanesMeet ==
  ASSUME NEW D, NEW E, operationDescriptorsConflict(D, E)
  PROVE  Fences(D) \cap Fences(E) # {}
<1>1. PICK a \in D, b \in E : operationResourcesConflict(a, b)
  BY DEF operationDescriptorsConflict
<1>2. SUFFICES Lanes(a) \cap Lanes(b) # {}
  BY DEF Fences
<1>3. CASE SameAgent(a, b)
  BY <1>3 DEF SameAgent, Lanes
<1>4. CASE a.key = b.key
  BY <1>4 DEF Lanes
<1>5. QED
  BY <1>1, <1>3, <1>4 DEF operationResourcesConflict, SameCodebase, SameThing

(* Conflicting declarations always meet in a lane, however many resources  *)
(* they hold.                                                              *)
THEOREM FencesCoverConflictsHolds == Spec => []FencesCoverConflicts
<1>1. FencesCoverConflicts
  BY LanesMeet DEF FencesCoverConflicts
<1>2. QED
  BY <1>1, PTL

-------------------------------------------------------------------------------
(* What the declarations of job-resources.ts have in common: the key of a  *)
(* resource determines its agent, its checkout and its path, and what is   *)
(* an intent (the fetch of a checkout, the use of a branch) is never read  *)
(* or built by the same operation.                                         *)
WellDeclared(rs) ==
  /\ Len(rs) \in Nat
  /\ \A i \in 1 .. Len(rs) : rs[i].mode \in Modes
  /\ \A i, j \in 1 .. Len(rs) :
       SameIdentity(rs[i], rs[j]) =>
         /\ rs[i].agentId = rs[j].agentId
         /\ rs[i].codebaseId = rs[j].codebaseId
         /\ rs[i].path = rs[j].path
         /\ rs[i].mode = "INTENT" => rs[j].mode \in {"INTENT", "WRITE"}

LEMMA Least ==
  ASSUME NEW T, T \subseteq Nat, T # {}
  PROVE  \E m \in T : \A k \in T : m <= k
<1> DEFINE Less == {p \in Nat \X Nat : p[1] < p[2]}
<1>1. IsWellFoundedOn(Less, Nat)
  BY NatLessThanWellFounded DEF OpToRel
<1>2. PICK m \in T : \A k \in T : ~(<<k, m>> \in Less)
  BY <1>1, WFMin, Zenon
<1>3. ASSUME NEW k \in T
      PROVE  m <= k
  <2>1. <<k, m>> \notin Less /\ <<k, m>> \in Nat \X Nat
    BY <1>2
  <2>2. ~(k < m)
    BY <2>1
  <2>3. QED
    BY <2>2
<1>4. QED
  BY <1>3

StrengthOf(r) == Strength[r.mode]

(* Every declared resource leaves a trace: the strongest of its identity.  *)
LEMMA StrongestStays ==
  ASSUME NEW rs, WellDeclared(rs), NEW i \in 1 .. Len(rs)
  PROVE  \E j \in 1 .. Len(rs) :
           /\ SameIdentity(rs[i], rs[j])
           /\ StrengthOf(rs[i]) <= StrengthOf(rs[j])
           /\ rs[j] \in normalizeOperationResources(rs)
<1> DEFINE T == {k \in 1 .. Len(rs) : SameIdentity(rs[i], rs[k])}
<1>1. \A k \in 1 .. Len(rs) : StrengthOf(rs[k]) \in 0 .. 3
  BY DEF WellDeclared, StrengthOf, Strength, Modes
<1>2. i \in T /\ T \subseteq 1 .. Len(rs)
  BY DEF SameIdentity
<1>3. PICK s \in 0 .. 3 :
        /\ \E k \in T : StrengthOf(rs[k]) = s
        /\ \A k \in T : StrengthOf(rs[k]) <= s
  <2> HIDE DEF T
  <2> DEFINE Has(n) == \E k \in T : StrengthOf(rs[k]) = n
  <2>1. \A k \in T : StrengthOf(rs[k]) \in {0, 1, 2, 3}
    BY <1>1, <1>2
  <2>2. Has(0) \/ Has(1) \/ Has(2) \/ Has(3)
    BY <1>2, <2>1
  <2>3. QED
    BY <2>1, <2>2
<1> DEFINE Top == {k \in T : StrengthOf(rs[k]) = s}
<1>4. Top # {} /\ Top \subseteq Nat
  BY <1>2, <1>3 DEF WellDeclared
<1>5. PICK j \in Top : \A k \in Top : j <= k
  BY <1>4, Least
<1>6. j \in 1 .. Len(rs) /\ SameIdentity(rs[i], rs[j]) /\ StrengthOf(rs[j]) = s
  OBVIOUS
<1>7. ASSUME NEW k \in 1 .. Len(rs), SameIdentity(rs[j], rs[k])
      PROVE  \/ StrengthOf(rs[k]) < StrengthOf(rs[j])
             \/ StrengthOf(rs[k]) = StrengthOf(rs[j]) /\ j <= k
  <2>1. k \in T
    BY <1>6, <1>7 DEF SameIdentity
  <2>2. StrengthOf(rs[k]) <= s
    BY <1>3, <2>1
  <2>3. StrengthOf(rs[k]) = s => j <= k
    BY <1>5, <2>1
  <2>4. QED
    BY <1>1, <1>6, <2>2, <2>3
<1>8. rs[j] \in normalizeOperationResources(rs)
  BY <1>6, <1>7 DEF normalizeOperationResources, StrengthOf
<1>9. StrengthOf(rs[i]) <= s
  BY <1>2, <1>3
<1>10. QED
  BY <1>6, <1>8, <1>9

(* A stronger mode of the same thing conflicts with at least as much. *)
LEMMA StrongerConflicts ==
  ASSUME NEW a, NEW c, NEW b, SameIdentity(a, c),
         a.mode \in Modes, c.mode \in Modes, StrengthOf(a) <= StrengthOf(c),
         a.agentId = c.agentId, a.codebaseId = c.codebaseId, a.path = c.path,
         a.mode = "INTENT" => c.mode \in {"INTENT", "WRITE"},
         operationResourcesConflict(a, b)
  PROVE  operationResourcesConflict(c, b)
<1>1. SameAgent(a, b) = SameAgent(c, b) /\ SameCodebase(a, b) = SameCodebase(c, b)
  BY DEF SameAgent, SameCodebase
<1>2. SameThing(a, b) = SameThing(c, b)
  BY <1>1 DEF SameThing, SameIdentity
<1>3. a.mode = "WRITE" => c.mode = "WRITE"
  BY DEF StrengthOf, Strength, Modes
<1>4. \A kind : IsBarrier(a, kind) => IsBarrier(c, kind)
  BY <1>3 DEF IsBarrier, SameIdentity
<1>5. ~Compatible(a.mode, b.mode) => ~Compatible(c.mode, b.mode)
  BY DEF Compatible, StrengthOf, Strength, Modes
<1>6. QED
  BY <1>1, <1>2, <1>4, <1>5 DEF operationResourcesConflict

LEMMA ConflictTurns ==
  ASSUME NEW a, NEW b, operationResourcesConflict(a, b)
  PROVE  operationResourcesConflict(b, a)
<1>1. SameAgent(a, b) => SameAgent(b, a)
  BY DEF SameAgent
<1>2. SameCodebase(a, b) => SameCodebase(b, a)
  BY DEF SameCodebase, SameAgent
<1>3. SameThing(a, b) => SameThing(b, a)
  BY <1>1 DEF SameThing, overlappingPaths
<1>4. Compatible(b.mode, a.mode) => Compatible(a.mode, b.mode)
  BY DEF Compatible
<1>5. QED
  BY <1>1, <1>2, <1>3, <1>4 DEF operationResourcesConflict

LEMMA StrongestConflicts ==
  ASSUME NEW rs, WellDeclared(rs), NEW i \in 1 .. Len(rs),
         NEW b, operationResourcesConflict(rs[i], b)
  PROVE  \E a \in normalizeOperationResources(rs) : operationResourcesConflict(a, b)
<1>1. PICK j \in 1 .. Len(rs) :
        /\ SameIdentity(rs[i], rs[j])
        /\ StrengthOf(rs[i]) <= StrengthOf(rs[j])
        /\ rs[j] \in normalizeOperationResources(rs)
  BY StrongestStays
<1>2. /\ rs[i].mode \in Modes /\ rs[j].mode \in Modes
      /\ rs[i].agentId = rs[j].agentId /\ rs[i].codebaseId = rs[j].codebaseId
      /\ rs[i].path = rs[j].path
      /\ rs[i].mode = "INTENT" => rs[j].mode \in {"INTENT", "WRITE"}
  BY <1>1 DEF WellDeclared
<1>3. operationResourcesConflict(rs[j], b)
  BY <1>1, <1>2, StrongerConflicts
<1>4. QED
  BY <1>1, <1>3

(* Normalising keeps the conflicts of any two well declared sequences.     *)
THEOREM ConflictsSurvive ==
  ASSUME NEW rs, NEW qs, WellDeclared(rs), WellDeclared(qs)
  PROVE  operationDescriptorsConflict(Declared(rs), Declared(qs))
           <=> operationDescriptorsConflict(normalizeOperationResources(rs),
                                            normalizeOperationResources(qs))
<1>1. ASSUME operationDescriptorsConflict(Declared(rs), Declared(qs))
      PROVE  operationDescriptorsConflict(normalizeOperationResources(rs),
                                          normalizeOperationResources(qs))
  <2>1. PICK i \in 1 .. Len(rs), j \in 1 .. Len(qs) :
          operationResourcesConflict(rs[i], qs[j])
    BY <1>1 DEF operationDescriptorsConflict, Declared
  <2>2. PICK a \in normalizeOperationResources(rs) :
          operationResourcesConflict(a, qs[j])
    BY <2>1, StrongestConflicts
  <2>3. operationResourcesConflict(qs[j], a)
    BY <2>2, ConflictTurns
  <2>4. PICK b \in normalizeOperationResources(qs) :
          operationResourcesConflict(b, a)
    BY <2>3, StrongestConflicts
  <2>5. operationResourcesConflict(a, b)
    BY <2>4, ConflictTurns
  <2>6. QED
    BY <2>5 DEF operationDescriptorsConflict
<1>2. /\ normalizeOperationResources(rs) \subseteq Declared(rs)
      /\ normalizeOperationResources(qs) \subseteq Declared(qs)
  BY DEF normalizeOperationResources, Declared
<1>3. QED
  BY <1>1, <1>2 DEF operationDescriptorsConflict

Segment == {"x", "y"}

(* What the proofs use of the universe of MCOperationResources. *)
LEMMA UniverseFacts ==
  /\ \A a \in Universe :
       /\ a.mode \in Modes
       /\ a.path \in Seq(Segment)
       /\ a.kind = "PATH" => a.agentId # Absent /\ a.codebaseId = "cb"
  /\ \A a, b \in Universe :
       SameIdentity(a, b) =>
         /\ a.agentId = b.agentId
         /\ a.codebaseId = b.codebaseId
         /\ a.path = b.path
         /\ a.mode = "INTENT" => b.mode \in {"INTENT", "WRITE"}
<1>1. \A a \in Universe : a.mode \in Modes
  BY DEF Universe, Worktree, Path, sourceBranchResource, Resource, Modes
<1>2. \A a \in Universe : a.path \in Seq(Segment)
  <2>1. \A a \in Universe : a.path \in {<<>>, <<"x">>, <<"x", "y">>}
    BY DEF Universe, Worktree, Path, sourceBranchResource, Resource
  <2>2. <<>> \in Seq(Segment) /\ <<"x">> \in Seq(Segment) /\ <<"x", "y">> \in Seq(Segment)
    <3>1. ASSUME NEW S, NEW x \in S, NEW y \in S
          PROVE  <<>> \in Seq(S) /\ <<x>> \in Seq(S) /\ <<x, y>> \in Seq(S)
      OBVIOUS
    <3>2. "x" \in Segment /\ "y" \in Segment
      BY DEF Segment
    <3>3. QED
      BY <3>1, <3>2, Zenon
  <2>3. QED
    BY <2>1, <2>2
<1>3. \A a \in Universe :
        a.kind = "PATH" => a.agentId # Absent /\ a.codebaseId = "cb"
  BY DEF Universe, Worktree, Path, sourceBranchResource, Resource, Absent
<1>4. ASSUME NEW a \in Universe, NEW b \in Universe, SameIdentity(a, b)
      PROVE  /\ a.agentId = b.agentId /\ a.codebaseId = b.codebaseId
             /\ a.path = b.path
             /\ a.mode = "INTENT" => b.mode \in {"INTENT", "WRITE"}
  BY <1>4, SMTT(60) DEF Universe, Worktree, Path, sourceBranchResource, Resource,
     SameIdentity, AgentLane, CodebaseLane
<1>5. QED
  BY <1>1, <1>2, <1>3, <1>4

FromUniverse(rs) == Len(rs) \in Nat /\ \A i \in 1 .. Len(rs) : rs[i] \in Universe

LEMMA UniverseWellDeclared ==
  ASSUME NEW rs, FromUniverse(rs)
  PROVE  WellDeclared(rs)
BY UniverseFacts DEF FromUniverse, WellDeclared

DeclaredFromUniverse == left \in Seq(Universe) /\ right \in Seq(Universe)

LEMMA OnlyUniverseDeclared == Spec => []DeclaredFromUniverse
<1>1. Init => DeclaredFromUniverse
  BY DEF Init, DeclaredFromUniverse
<1>2. ASSUME DeclaredFromUniverse, [Next]_vars
      PROVE  DeclaredFromUniverse'
  <2>1. CASE DeclareLeft
    <3>1. PICK r \in Universe : left' = Append(left, r) /\ right' = right
      BY <2>1 DEF DeclareLeft
    <3>2. QED
      BY <1>2, <3>1 DEF DeclaredFromUniverse
  <2>2. CASE DeclareRight
    <3>1. PICK r \in Universe : right' = Append(right, r) /\ left' = left
      BY <2>2 DEF DeclareRight
    <3>2. QED
      BY <1>2, <3>1 DEF DeclaredFromUniverse
  <2>3. CASE UNCHANGED vars
    BY <1>2, <2>3 DEF vars, DeclaredFromUniverse
  <2>4. QED
    BY <1>2, <2>1, <2>2, <2>3 DEF Next
<1>3. QED
  BY <1>1, <1>2, PTL DEF Spec

(* For every number of declared resources, in every order and with every   *)
(* repetition.                                                             *)
THEOREM NormalizationKeepsConflictsHolds ==
  Spec => []NormalizationKeepsConflicts
<1>1. DeclaredFromUniverse => NormalizationKeepsConflicts
  <2>1. SUFFICES ASSUME DeclaredFromUniverse
                 PROVE  NormalizationKeepsConflicts
    OBVIOUS
  <2>2. FromUniverse(left) /\ FromUniverse(right)
    BY <2>1 DEF FromUniverse, DeclaredFromUniverse
  <2>3. QED
    BY <2>2, UniverseWellDeclared, ConflictsSurvive DEF NormalizationKeepsConflicts
<1>2. QED
  BY <1>1, OnlyUniverseDeclared, PTL

-------------------------------------------------------------------------------
(* Paths: a path is an ancestor of itself, and the ancestors of one path   *)
(* are ancestors of each other.                                            *)
LEMMA AncestorOfItself ==
  ASSUME NEW S, NEW p \in Seq(S)
  PROVE  IsAncestor(p, p)
BY DEF IsAncestor

LEMMA AncestorsCompare ==
  ASSUME NEW S, NEW p \in Seq(S), NEW q \in Seq(S), NEW l \in Seq(S),
         IsAncestor(p, l), IsAncestor(q, l), Len(p) <= Len(q)
  PROVE  IsAncestor(p, q)
<1>1. /\ Len(p) \in Nat /\ Len(q) \in Nat /\ Len(l) \in Nat
      /\ Len(p) <= Len(l) /\ Len(q) <= Len(l)
      /\ p = SubSeq(l, 1, Len(p)) /\ q = SubSeq(l, 1, Len(q))
  BY DEF IsAncestor
<1>2. \A i \in 1 .. Len(p) : p[i] = l[i]
  <2>1. \A i \in 1 .. Len(p) : SubSeq(l, 1, Len(p))[i] = l[i]
    BY <1>1
  <2>2. QED
    BY <1>1, <2>1
<1>3. \A i \in 1 .. Len(q) : q[i] = l[i]
  <2>1. \A i \in 1 .. Len(q) : SubSeq(l, 1, Len(q))[i] = l[i]
    BY <1>1
  <2>2. QED
    BY <1>1, <2>1
<1> DEFINE r == SubSeq(q, 1, Len(p))
<1>4. r \in Seq(S) /\ Len(r) = Len(p) /\ \A i \in 1 .. Len(p) : r[i] = q[i]
  BY <1>1
<1>5. \A i \in 1 .. Len(p) : r[i] = p[i]
  BY <1>1, <1>2, <1>3, <1>4
<1> HIDE DEF r
<1>6. r = p
  BY <1>1, <1>4, <1>5
<1>7. QED
  BY <1>6 DEF r, IsAncestor

(* Two resources share a site exactly when they are the same thing. *)
LEMMA SitesMeet ==
  ASSUME NEW a \in Universe, NEW b \in Universe
  PROVE  /\ OwnSites(a) # {}
         /\ SameThing(a, b) <=> OwnSites(a) \cap OwnSites(b) # {}
<1>1. a.path \in Seq(Segment) /\ b.path \in Seq(Segment)
  BY UniverseFacts
<1>2. /\ a.kind = "PATH" => a.path \in Leaves /\ a.agentId # Absent
      /\ b.kind = "PATH" => b.path \in Leaves
  BY UniverseFacts DEF Leaves
<1>3. OwnSites(a) # {}
  <2>1. CASE a.kind = "PATH"
    <3>1. <<"PATH", a.agentId, a.path>> \in OwnSites(a)
      BY <1>1, <1>2, <2>1, AncestorOfItself DEF OwnSites
    <3>2. QED
      BY <3>1
  <2>2. CASE a.kind # "PATH"
    BY <2>2 DEF OwnSites
  <2>3. QED
    BY <2>1, <2>2
<1>4. ASSUME SameThing(a, b)
      PROVE  OwnSites(a) \cap OwnSites(b) # {}
  <2>1. CASE a.kind # "PATH"
    BY <1>4, <2>1 DEF SameThing, OwnSites
  <2>2. CASE a.kind = "PATH"
    <3>1. b.kind = "PATH" /\ a.agentId = b.agentId
      BY <1>4, <2>2 DEF SameThing, SameAgent
    <3>2. PICK l \in Leaves : IsAncestor(a.path, l) /\ IsAncestor(b.path, l)
      BY <1>1, <1>2, <1>4, <2>2, <3>1, AncestorOfItself
      DEF SameThing, overlappingPaths
    <3>3. /\ <<"PATH", a.agentId, l>> \in OwnSites(a)
          /\ <<"PATH", a.agentId, l>> \in OwnSites(b)
      BY <2>2, <3>1, <3>2 DEF OwnSites
    <3>4. QED
      BY <3>3
  <2>3. QED
    BY <2>1, <2>2
<1>5. ASSUME NEW x, x \in OwnSites(a), x \in OwnSites(b)
      PROVE  SameThing(a, b)
  <2>1. CASE a.kind = "PATH" /\ b.kind = "PATH"
    <3>1. PICK l \in Leaves : IsAncestor(a.path, l) /\ x = <<"PATH", a.agentId, l>>
      BY <1>5, <2>1 DEF OwnSites
    <3>2. PICK m \in Leaves : IsAncestor(b.path, m) /\ x = <<"PATH", b.agentId, m>>
      BY <1>5, <2>1 DEF OwnSites
    <3>3. l = m /\ a.agentId = b.agentId
      BY <3>1, <3>2
    <3>4. l \in Seq(Segment)
      BY UniverseFacts DEF Leaves
    <3>5. Len(a.path) \in Nat /\ Len(b.path) \in Nat
      BY <1>1
    <3>6. overlappingPaths(a.path, b.path)
      BY <1>1, <3>1, <3>2, <3>3, <3>4, <3>5, AncestorsCompare DEF overlappingPaths
    <3>7. QED
      BY <1>2, <2>1, <3>3, <3>6 DEF SameThing, SameAgent
  <2>2. CASE a.kind # "PATH" /\ b.kind # "PATH"
    BY <1>5, <2>2 DEF OwnSites, SameThing
  <2>3. CASE a.kind = "PATH" /\ b.kind # "PATH"
    BY <1>5, <2>3 DEF OwnSites
  <2>4. CASE a.kind # "PATH" /\ b.kind = "PATH"
    BY <1>5, <2>4 DEF OwnSites
  <2>5. QED
    BY <2>1, <2>2, <2>3, <2>4
<1>6. QED
  BY <1>3, <1>4, <1>5

LEMMA SameThingSamePlace ==
  ASSUME NEW a \in Universe, NEW b \in Universe, SameThing(a, b)
  PROVE  a.agentId = b.agentId /\ a.codebaseId = b.codebaseId
<1>1. CASE a.kind = "PATH"
  BY <1>1, UniverseFacts DEF SameThing, SameAgent
<1>2. CASE a.kind # "PATH"
  BY <1>2, UniverseFacts DEF SameThing, SameIdentity
<1>3. QED
  BY <1>1, <1>2

(* a reaches s: the sites of s are its own, or those of its barrier.       *)
Reaches(a, s) ==
  \/ s = a
  \/ IsBarrier(a, "AGENT") /\ SameAgent(a, s)
  \/ IsBarrier(a, "CODEBASE") /\ SameCodebase(a, s)

LEMMA SitesAreReached ==
  ASSUME NEW a \in Universe, NEW x
  PROVE  x \in OwnSites(a) \union BarrierSites(a)
           <=> \E s \in Universe : Reaches(a, s) /\ x \in OwnSites(s)
BY DEF BarrierSites, Reaches

LEMMA OverlapIsConflict ==
  ASSUME NEW a \in Universe, NEW b \in Universe, Overlap(a, b)
  PROVE  operationResourcesConflict(a, b)
<1>1. PICK x : /\ x \in OwnSites(a) \union BarrierSites(a)
               /\ x \in OwnSites(b) \union BarrierSites(b)
  BY DEF Overlap
<1>2. PICK s \in Universe : Reaches(a, s) /\ x \in OwnSites(s)
  BY <1>1, SitesAreReached
<1>3. PICK t \in Universe : Reaches(b, t) /\ x \in OwnSites(t)
  BY <1>1, SitesAreReached
<1>4. SameThing(s, t)
  BY <1>2, <1>3, SitesMeet
<1>5. s.agentId = t.agentId /\ s.codebaseId = t.codebaseId
  BY <1>4, SameThingSamePlace
<1>6. CASE s = a /\ t = b
  <2>1. ~Compatible(a.mode, b.mode)
    BY DEF Overlap, Exclusive, IsBarrier, Compatible
  <2>2. QED
    BY <1>4, <1>6, <2>1 DEF operationResourcesConflict
<1>7. CASE IsBarrier(a, "AGENT") /\ SameAgent(a, s)
  BY <1>3, <1>5, <1>7 DEF Reaches, SameAgent, SameCodebase, operationResourcesConflict
<1>8. CASE IsBarrier(a, "CODEBASE") /\ SameCodebase(a, s)
  BY <1>3, <1>5, <1>8 DEF Reaches, SameAgent, SameCodebase, operationResourcesConflict
<1>9. CASE s = a /\ t # b
  BY <1>3, <1>5, <1>9 DEF Reaches, SameAgent, SameCodebase, operationResourcesConflict
<1>10. QED
  BY <1>2, <1>6, <1>7, <1>8, <1>9 DEF Reaches

LEMMA ConflictIsOverlapOfTwo ==
  ASSUME NEW a \in Universe, NEW b \in Universe, operationResourcesConflict(a, b)
  PROVE  Overlap(a, b)
<1>1. SUFFICES ASSUME NEW s \in Universe, NEW t \in Universe,
                      Reaches(a, s), Reaches(b, t), SameThing(s, t), Exclusive(a, b)
               PROVE  Overlap(a, b)
  <2>1. a.mode \in Modes /\ SameThing(a, a) /\ SameThing(b, b)
    BY UniverseFacts, SitesMeet
  <2>2. Reaches(a, a) /\ Reaches(b, b)
    BY DEF Reaches
  <2>3. CASE SameThing(a, b) /\ ~Compatible(a.mode, b.mode)
    BY <1>1, <2>2, <2>3 DEF Exclusive
  <2>4. CASE Reaches(a, b) /\ Exclusive(a, b)
    BY <1>1, <2>1, <2>2, <2>4
  <2>5. CASE Reaches(b, a) /\ Exclusive(a, b)
    BY <1>1, <2>1, <2>2, <2>5
  <2>6. QED
    BY <2>3, <2>4, <2>5
    DEF operationResourcesConflict, Reaches, Exclusive, SameAgent, SameCodebase
<1>2. PICK x : x \in OwnSites(s) /\ x \in OwnSites(t)
  BY <1>1, SitesMeet
<1>3. QED
  BY <1>1, <1>2, SitesAreReached DEF Overlap

(* However many resources of the universe two operations declare, they     *)
(* conflict exactly when the sites they cover overlap in modes that        *)
(* exclude each other.                                                     *)
THEOREM ConflictIsOverlapHolds == Spec => []ConflictIsOverlap
<1>1. DeclaredFromUniverse => ConflictIsOverlap
  <2>1. SUFFICES ASSUME DeclaredFromUniverse
                 PROVE  ConflictIsOverlap
    OBVIOUS
  <2>2. Declared(left) \subseteq Universe /\ Declared(right) \subseteq Universe
    BY <2>1 DEF Declared, DeclaredFromUniverse
  <2>3. QED
    BY <2>2, OverlapIsConflict, ConflictIsOverlapOfTwo
    DEF ConflictIsOverlap, operationDescriptorsConflict
<1>2. QED
  BY <1>1, OnlyUniverseDeclared, PTL
===============================================================================
