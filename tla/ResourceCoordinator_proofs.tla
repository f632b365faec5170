---------------------- MODULE ResourceCoordinator_proofs ----------------------
(***************************************************************************)
(* The agent's locks exclude each other, keep their order and never        *)
(* deadlock on what is held, for any operations and any depth of their     *)
(* claims; they implement the lock of ResourceLock.                        *)
(***************************************************************************)
EXTENDS ResourceCoordinator, SequenceTheorems, TLAPS

(* The scan of drainResources asks for conflicts in either order. *)
LEMMA ConflictSymmetric ==
  ASSUME NEW D, NEW E, operationDescriptorsConflict(D, E)
  PROVE  operationDescriptorsConflict(E, D)
<1>1. PICK a \in D, b \in E : operationResourcesConflict(a, b)
  BY DEF operationDescriptorsConflict
<1>2. SameAgent(a, b) => SameAgent(b, a)
  BY DEF SameAgent
<1>3. SameCodebase(a, b) => SameCodebase(b, a)
  BY DEF SameCodebase, SameAgent
<1>4. SameThing(a, b) => SameThing(b, a)
  BY <1>2 DEF SameThing, overlappingPaths
<1>5. Compatible(b.mode, a.mode) => Compatible(a.mode, b.mode)
  BY DEF Compatible
<1>6. operationResourcesConflict(b, a)
  BY <1>1, <1>2, <1>3, <1>4, <1>5 DEF operationResourcesConflict
<1>7. QED
  BY <1>6 DEF operationDescriptorsConflict

HeldNat == held \in [Op -> Nat]

ExclusiveInv == HeldNat /\ Exclusive

(* Returning a claim, or leaving the locks alone, cannot create a conflict. *)
LEMMA LessIsHeld ==
  ASSUME ExclusiveInv, HeldNat', \A o \in Op : held'[o] <= held[o]
  PROVE  ExclusiveInv'
<1>1. SUFFICES ASSUME NEW o \in Op, NEW p \in Op, o # p,
                      NEW D \in Held(o)', NEW E \in Held(p)'
               PROVE  ~operationDescriptorsConflict(D, E)
  BY DEF ExclusiveInv, Exclusive
<1>2. D \in Held(o) /\ E \in Held(p)
  BY DEF Held, HeldNat, ExclusiveInv
<1>3. QED
  BY <1>1, <1>2 DEF ExclusiveInv, Exclusive

(* A scan grants a claim only past every running entry of the others. *)
LEMMA GrantExcludes ==
  ASSUME ExclusiveInv, NEW o \in Op, drainStart(o)
  PROVE  ExclusiveInv'
<1>1. held' = [held EXCEPT ![o] = held[o] + 1]
  BY DEF drainStart
<1>2. HeldNat'
  BY <1>1 DEF ExclusiveInv, HeldNat
<1>3. Held(o)' \subseteq Held(o) \union {Wanted(o)}
  BY <1>1 DEF Held, Wanted, ExclusiveInv, HeldNat
<1>4. \A p \in Op \ {o} : Held(p)' = Held(p)
  BY <1>1 DEF Held, ExclusiveInv, HeldNat
<1>5. \A p \in Op \ {o} : \A E \in Held(p) : ~operationDescriptorsConflict(E, Wanted(o))
  BY DEF drainStart, HeldUpBy, Holds
<1>6. \A p \in Op \ {o} : \A E \in Held(p) : ~operationDescriptorsConflict(Wanted(o), E)
  BY <1>5, ConflictSymmetric
<1>7. SUFFICES ASSUME NEW q \in Op, NEW p \in Op, q # p,
                      NEW D \in Held(q)', NEW E \in Held(p)'
               PROVE  ~operationDescriptorsConflict(D, E)
  BY <1>2 DEF ExclusiveInv, Exclusive
<1>8. CASE q = o
  BY <1>3, <1>4, <1>6, <1>7, <1>8 DEF ExclusiveInv, Exclusive
<1>9. CASE p = o
  BY <1>3, <1>4, <1>5, <1>7, <1>9 DEF ExclusiveInv, Exclusive
<1>10. CASE q # o /\ p # o
  BY <1>4, <1>7, <1>10 DEF ExclusiveInv, Exclusive
<1>11. QED
  BY <1>8, <1>9, <1>10

(* No two operations of an agent ever run on resources that conflict:      *)
(* repository-coordinator.ts, drainResources.                              *)
THEOREM LocalExclusion == Spec => []Exclusive
<1>1. Init => ExclusiveInv
  BY DEF Init, ExclusiveInv, HeldNat, Exclusive, Held
<1>2. ASSUME ExclusiveInv, [Next]_vars
      PROVE  ExclusiveInv'
  <2>1. ASSUME NEW o \in Op, finish(o)
        PROVE  ExclusiveInv'
    <3>1. held' = [held EXCEPT ![o] = held[o] - 1] /\ held[o] > 0
      BY <2>1 DEF finish
    <3>2. HeldNat' /\ \A p \in Op : held'[p] <= held[p]
      BY <1>2, <3>1 DEF ExclusiveInv, HeldNat
    <3>3. QED
      BY <1>2, <3>2, LessIsHeld
  <2>2. ASSUME UNCHANGED held
        PROVE  ExclusiveInv'
    <3>1. HeldNat' /\ \A p \in Op : held'[p] <= held[p]
      BY <1>2, <2>2 DEF ExclusiveInv, HeldNat
    <3>2. QED
      BY <1>2, <3>1, LessIsHeld
  <2>3. ASSUME NEW o \in Op, withResources(o) \/ tryWithResources(o) \/ abort(o)
        PROVE  ExclusiveInv'
    BY <2>2, <2>3 DEF withResources, tryWithResources, Enqueue, abort
  <2>4. ASSUME NEW o \in Op, drainFail(o) \/ drainSkip(o)
        PROVE  ExclusiveInv'
    BY <2>2, <2>4 DEF drainFail, drainSkip
  <2>5. ASSUME drainEnds
        PROVE  ExclusiveInv'
    BY <2>2, <2>5 DEF drainEnds
  <2>6. ASSUME UNCHANGED vars
        PROVE  ExclusiveInv'
    BY <2>2, <2>6 DEF vars
  <2>7. QED
    BY <1>2, <2>1, <2>3, <2>4, <2>5, <2>6, GrantExcludes DEF Next, drainResources
<1>3. ExclusiveInv => Exclusive
  BY DEF ExclusiveInv
<1>4. QED
  BY <1>1, <1>2, <1>3, PTL DEF Spec
-------------------------------------------------------------------------------
(* What a scan or an abort leaves when it takes one claim out of the list. *)
LEMMA RemoveAtIsShorter ==
  ASSUME NEW S, NEW s \in Seq(S), NEW i \in 1 .. Len(s)
  PROVE  /\ RemoveAt(s, i) \in Seq(S)
         /\ Len(RemoveAt(s, i)) = Len(s) - 1
         /\ \A k \in 1 .. Len(s) - 1 : RemoveAt(s, i)[k] = IF k < i THEN s[k] ELSE s[k + 1]
<1> DEFINE front == SubSeq(s, 1, i - 1)
           tail == SubSeq(s, i + 1, Len(s))
<1>1. front \in Seq(S) /\ Len(front) = i - 1 /\ \A k \in 1 .. i - 1 : front[k] = s[k]
  OBVIOUS
<1>2. tail \in Seq(S) /\ Len(tail) = Len(s) - i /\ \A k \in 1 .. Len(s) - i : tail[k] = s[k + i]
  OBVIOUS
<1>3. RemoveAt(s, i) = front \o tail
  BY DEF RemoveAt
<1> HIDE DEF front, tail
<1>4. /\ front \o tail \in Seq(S)
      /\ Len(front \o tail) = Len(front) + Len(tail)
      /\ \A k \in 1 .. Len(front) + Len(tail) :
           (front \o tail)[k] = IF k <= Len(front) THEN front[k] ELSE tail[k - Len(front)]
  BY <1>1, <1>2, ConcatProperties
<1>5. Len(front \o tail) = Len(s) - 1
  BY <1>1, <1>2, <1>4
<1>6. ASSUME NEW k \in 1 .. Len(s) - 1
      PROVE  (front \o tail)[k] = IF k < i THEN s[k] ELSE s[k + 1]
  <2>1. CASE k < i
    BY <1>1, <1>2, <1>4, <2>1
  <2>2. CASE ~(k < i)
    <3>1. (front \o tail)[k] = tail[k - (i - 1)]
      BY <1>1, <1>2, <1>4, <2>2
    <3>2. k - (i - 1) \in 1 .. Len(s) - i /\ (k - (i - 1)) + i = k + 1
      BY <2>2
    <3>3. tail[k - (i - 1)] = s[k + 1]
      BY <1>2, <3>2
    <3>4. QED
      BY <2>2, <3>1, <3>3
  <2>3. QED
    BY <2>1, <2>2
<1>7. QED
  BY <1>3, <1>4, <1>5, <1>6

(* The rest of CoordinatorTypeOK follows from where the operations stand.   *)
Waits(s) ==
  /\ s \in Seq(Op)
  /\ \A i, j \in 1 .. Len(s) : s[i] = s[j] => i = j
  /\ \A i \in 1 .. Len(s) : held[s[i]] < Len(Claims[s[i]]) /\ ~unwinding[s[i]]

LEMMA FewerWait ==
  ASSUME NEW s, Waits(s), NEW i \in 1 .. Len(s)
  PROVE  /\ Waits(RemoveAt(s, i))
         /\ Len(RemoveAt(s, i)) = Len(s) - 1
         /\ \A k \in 1 .. Len(RemoveAt(s, i)) :
              RemoveAt(s, i)[k] \in Op /\ RemoveAt(s, i)[k] # s[i]
<1> DEFINE r == RemoveAt(s, i)
<1>0. s \in Seq(Op)
  BY DEF Waits
<1>1. /\ r \in Seq(Op) /\ Len(r) = Len(s) - 1
      /\ \A k \in 1 .. Len(s) - 1 : r[k] = IF k < i THEN s[k] ELSE s[k + 1]
  BY <1>0, RemoveAtIsShorter
<1> HIDE DEF r
<1>2. s \in Seq(Op) /\ Len(s) \in Nat
  BY DEF Waits
<1>3. ASSUME NEW k \in 1 .. Len(r), NEW l \in 1 .. Len(r), r[k] = r[l]
      PROVE  k = l
  BY <1>1, <1>2, <1>3, SMTT(30) DEF Waits
<1>4. ASSUME NEW k \in 1 .. Len(r)
      PROVE  held[r[k]] < Len(Claims[r[k]]) /\ ~unwinding[r[k]]
  <2>1. \E l \in 1 .. Len(s) : r[k] = s[l]
    <3>1. k \in 1 .. Len(s) /\ k + 1 \in 1 .. Len(s) /\ k \in 1 .. Len(s) - 1
      BY <1>1, <1>2
    <3>2. r[k] = s[k] \/ r[k] = s[k + 1]
      BY <1>1, <3>1
    <3>3. QED
      BY <3>1, <3>2
  <2>2. QED
    BY <2>1 DEF Waits
<1>5. \A k \in 1 .. Len(r) : r[k] \in Op /\ r[k] # s[i]
  BY <1>1, <1>2 DEF Waits
<1>6. QED
  BY <1>1, <1>3, <1>4, <1>5 DEF r, Waits

(* The type invariant of the agent's locks. *)
THEOREM CoordinatorTypeCorrect == Spec => []CoordinatorTypeOK
<1> USE ClaimsAssumption
<1>1. Init => CoordinatorTypeOK
  BY DEF Init, CoordinatorTypeOK
<1>2. ASSUME CoordinatorTypeOK, [Next]_vars
      PROVE  CoordinatorTypeOK'
  <2> USE <1>2 DEF CoordinatorTypeOK
  <2>0. Waits(pending) /\ Len(pending) \in Nat
    BY DEF Waits
  <2>1. ASSUME NEW o \in Op, Enqueue(o)
        PROVE  CoordinatorTypeOK'
    <3>1. pending' = Append(pending, o) /\ Len(pending') = Len(pending) + 1 /\ index' = 1
      BY <2>1 DEF Enqueue
    <3>2. \A i \in 1 .. Len(pending) : pending'[i] = pending[i] /\ pending[i] # o
      BY <2>1, <3>1 DEF Enqueue, Waiting, ToSet
    <3>3. pending'[Len(pending')] = o
      BY <3>1
    <3>4. \A i, j \in 1 .. Len(pending') : pending'[i] = pending'[j] => i = j
      BY <3>1, <3>2, <3>3
    <3>5. \A i \in 1 .. Len(pending') : held[pending'[i]] < Len(Claims[pending'[i]]) /\ ~unwinding[pending'[i]]
      BY <2>1, <3>1, <3>2, <3>3 DEF Enqueue
    <3>6. QED
      BY <2>1, <3>1, <3>4, <3>5 DEF Enqueue
  <2>2. ASSUME NEW o \in Op, finish(o)
        PROVE  CoordinatorTypeOK'
    <3>1. \A i \in 1 .. Len(pending) : pending[i] # o
      BY <2>2 DEF finish, Waiting, ToSet
    <3>2. held' = [held EXCEPT ![o] = held[o] - 1] /\ held[o] > 0 /\ held[o] \in Nat
      BY <2>2 DEF finish
    <3>3. held' \in [Op -> Nat] /\ \A p \in Op : held'[p] <= Len(Claims[p])
      BY <3>2
    <3>4. unwinding' \in [Op -> BOOLEAN] /\ \A p \in Op : unwinding'[p] => held'[p] > 0
      <4>1. unwinding' = [unwinding EXCEPT ![o] = held[o] > 1]
        BY <2>2 DEF finish
      <4>2. ASSUME NEW p \in Op, unwinding'[p]
            PROVE  held'[p] > 0
        <5>1. CASE p = o
          <6>1. held[o] > 1
            BY <4>1, <4>2, <5>1
          <6>2. QED
            BY <3>2, <5>1, <6>1
        <5>2. CASE p # o
          <6>1. unwinding[p]
            BY <4>1, <4>2, <5>2
          <6>2. held'[p] = held[p] /\ held[p] > 0
            BY <3>2, <5>2, <6>1
          <6>3. QED
            BY <6>2
        <5>3. QED
          BY <5>1, <5>2
      <4>3. QED
        BY <4>1, <4>2
    <3>5. \A i \in 1 .. Len(pending) : held'[pending[i]] = held[pending[i]] /\ unwinding'[pending[i]] = unwinding[pending[i]]
      BY <2>2, <3>1, <3>2 DEF finish
    <3>6. QED
      BY <2>2, <3>3, <3>4, <3>5 DEF finish
  <2>3. ASSUME NEW o \in Op, NEW i \in 1 .. Len(pending), pending[i] = o,
               pending' = RemoveAt(pending, i), Reject(o) \/ UNCHANGED unwinding, UNCHANGED held,
               index' \in {1, index}, index' <= Len(pending)
        PROVE  CoordinatorTypeOK'
    <3>1. /\ Waits(pending') /\ Len(pending') = Len(pending) - 1
          /\ \A k \in 1 .. Len(pending') : pending'[k] \in Op /\ pending'[k] # o
      BY <2>0, <2>3, FewerWait
    <3>2. unwinding' \in [Op -> BOOLEAN] /\ \A p \in Op : unwinding'[p] => held'[p] > 0
      <4>1. CASE Reject(o)
        BY <2>3, <4>1 DEF Reject
      <4>2. CASE UNCHANGED unwinding
        BY <2>3, <4>2
      <4>3. QED
        BY <2>3, <4>1, <4>2
    <3>3. \A k \in 1 .. Len(pending') : unwinding'[pending'[k]] = unwinding[pending'[k]]
      <4>1. unwinding' \in {unwinding, [unwinding EXCEPT ![o] = held[o] > 0]}
        BY <2>3 DEF Reject
      <4>2. QED
        BY <3>1, <4>1
    <3>4. index' \in 0 .. Len(pending') + 1
      BY <2>3, <3>1
    <3>5. QED
      BY <2>3, <3>1, <3>2, <3>3, <3>4 DEF Waits
  <2>4. ASSUME NEW o \in Op, abort(o)
        PROVE  CoordinatorTypeOK'
    <3>1. PICK i \in 1 .. Len(pending) : pending[i] = o /\ pending' = RemoveAt(pending, i)
      BY <2>4 DEF abort
    <3>2. Reject(o) /\ UNCHANGED held /\ index' = 1 /\ index' <= Len(pending)
      BY <2>4, <3>1 DEF abort
    <3>3. QED
      BY <2>3, <3>1, <3>2
  <2>5. ASSUME NEW o \in Op, drainFail(o)
        PROVE  CoordinatorTypeOK'
    <3>1. /\ index \in 1 .. Len(pending) /\ pending[index] = o
          /\ pending' = RemoveAt(pending, index)
      BY <2>5 DEF drainFail, Scanning, Dequeue
    <3>2. Reject(o) \/ UNCHANGED unwinding
      BY <2>5 DEF drainFail
    <3>3. UNCHANGED held /\ index' = index /\ index' <= Len(pending)
      BY <2>5, <3>1 DEF drainFail, Dequeue
    <3>4. QED
      BY <2>3, <3>1, <3>2, <3>3
  <2>6. ASSUME NEW o \in Op, drainSkip(o)
        PROVE  CoordinatorTypeOK'
    BY <2>0, <2>6 DEF drainSkip, Scanning
  <2>7. ASSUME NEW o \in Op, drainStart(o)
        PROVE  CoordinatorTypeOK'
    <3>1. /\ index \in 1 .. Len(pending) /\ pending[index] = o
          /\ pending' = RemoveAt(pending, index) /\ index' = index
      BY <2>7 DEF drainStart, Scanning, Dequeue
    <3>2. held' = [held EXCEPT ![o] = held[o] + 1] /\ UNCHANGED unwinding /\ held[o] \in Nat
      BY <2>7 DEF drainStart
    <3>3. /\ Waits(pending') /\ Len(pending') = Len(pending) - 1
          /\ \A k \in 1 .. Len(pending') : pending'[k] \in Op /\ pending'[k] # o
      BY <2>0, <3>1, FewerWait
    <3>4. held[o] < Len(Claims[o])
      BY <3>1
    <3>5. held' \in [Op -> Nat] /\ \A p \in Op : held'[p] <= Len(Claims[p])
      BY <3>2, <3>4
    <3>6. \A p \in Op : unwinding'[p] => held'[p] > 0
      BY <3>2
    <3>7. \A k \in 1 .. Len(pending') : held'[pending'[k]] = held[pending'[k]]
      BY <3>2, <3>3
    <3>8. \A k \in 1 .. Len(pending') :
            held'[pending'[k]] < Len(Claims[pending'[k]]) /\ ~unwinding'[pending'[k]]
      BY <3>2, <3>3, <3>7 DEF Waits
    <3>9. index' \in 0 .. Len(pending') + 1
      BY <3>1, <3>3
    <3>10. unwinding' \in [Op -> BOOLEAN] /\ \A p \in Op : unwinding'[p] => held'[p] > 0
      BY <3>2, <3>6
    <3>11. QED
      BY <3>3, <3>5, <3>8, <3>9, <3>10 DEF Waits
  <2>8. ASSUME drainEnds
        PROVE  CoordinatorTypeOK'
    BY <2>0, <2>8 DEF drainEnds
  <2>9. ASSUME UNCHANGED vars
        PROVE  CoordinatorTypeOK'
    BY <2>9 DEF vars
  <2>10. QED
    BY <1>2, <2>1, <2>2, <2>4, <2>5, <2>6, <2>7, <2>8, <2>9
    DEF Next, drainResources, withResources, tryWithResources
<1>3. QED
  BY <1>1, <1>2, PTL DEF Spec

-------------------------------------------------------------------------------
(* Only a grant lets an operation hold more. *)
LEMMA OnlyGrantsAdd ==
  ASSUME CoordinatorTypeOK, [Next]_vars, NEW o \in Op, held'[o] > held[o]
  PROVE  drainStart(o)
<1> USE DEF CoordinatorTypeOK
<1>1. held[o] \in Nat
  OBVIOUS
<1>2. ASSUME NEW p \in Op, finish(p)
      PROVE  FALSE
  BY <1>1, <1>2 DEF finish
<1>3. ASSUME NEW p \in Op, drainStart(p)
      PROVE  drainStart(o)
  <2>1. held' = [held EXCEPT ![p] = held[p] + 1]
    BY <1>3 DEF drainStart
  <2>2. p = o
    BY <1>1, <2>1
  <2>3. QED
    BY <1>3, <2>2
<1>4. ASSUME UNCHANGED held
      PROVE  FALSE
  BY <1>1, <1>4
<1>5. QED
  BY <1>2, <1>3, <1>4 DEF Next, vars, drainResources, withResources, tryWithResources,
     Enqueue, abort, drainFail, drainSkip, drainEnds

(* Nobody is overtaken for nothing: what drainResources lets pass earlier  *)
(* claims passes only those that something running conflicts with.         *)
THEOREM NoOvertakingHolds == Spec => NoOvertaking
<1>1. ASSUME CoordinatorTypeOK, [Next]_vars,
             NEW i \in 1 .. Len(pending), NEW j \in 1 .. Len(pending), i < j,
             held'[pending[j]] > held[pending[j]],
             operationDescriptorsConflict(Wanted(pending[i]), Wanted(pending[j]))
      PROVE  \E q \in Op : Holds(q, Wanted(pending[i]))
  <2> DEFINE p == pending[i]
             o == pending[j]
  <2>1. p \in Op /\ o \in Op /\ p # o
    BY <1>1 DEF CoordinatorTypeOK
  <2>2. drainStart(o)
    BY <1>1, <2>1, OnlyGrantsAdd
  <2>3. Overtakes(o, p)
    BY <1>1, <2>1, <2>2 DEF drainStart, QueuedBehind
  <2>4. CASE Holds(o, Wanted(p))
    BY <2>1, <2>4
  <2>5. CASE Inspection(o, p)
    BY <2>5 DEF Inspection, Holds
  <2>6. QED
    BY <2>3, <2>4, <2>5 DEF Overtakes
<1>2. CoordinatorTypeOK /\ [Next]_vars =>
        [\A i, j \in 1 .. Len(pending) :
           LET p == pending[i]  o == pending[j] IN
           /\ i < j /\ held'[o] > held[o]
           /\ operationDescriptorsConflict(Wanted(p), Wanted(o))
           => \E q \in Op : Holds(q, Wanted(p))]_vars
  BY <1>1
<1>3. QED
  BY <1>2, CoordinatorTypeCorrect, PTL DEF Spec, NoOvertaking

-------------------------------------------------------------------------------
(* An optional claim that waits is in reach of the scan under way, and     *)
(* nothing that runs or waits is in its way.                               *)
Unobstructed(o) ==
  /\ \A k \in 1 .. Len(pending) : pending[k] = o => index \in 1 .. k
  /\ HeldUpBy(o) = {}
  /\ \A p \in Op \ {o} : Waiting(p) => ~operationDescriptorsConflict(Wanted(p), Wanted(o))

OptionalIsFree == \A o \in Op : Waiting(o) /\ Level(o) \in Optional => Unobstructed(o)

(* What is in a list is somewhere in it. *)
LEMMA InLine ==
  ASSUME NEW s \in Seq(Op), NEW o
  PROVE  o \in ToSet(s) <=> \E k \in 1 .. Len(s) : s[k] = o
BY DEF ToSet

LEMMA WaitsSomewhere ==
  ASSUME CoordinatorTypeOK, NEW o
  PROVE  Waiting(o) <=> \E k \in 1 .. Len(pending) : pending[k] = o
BY InLine DEF CoordinatorTypeOK, Waiting

(* A scan that is over has left no optional claim. *)
LEMMA NoneWaitsBetween ==
  ASSUME CoordinatorTypeOK, OptionalIsFree, index = 0 \/ index > Len(pending)
  PROVE  \A o \in Op : Waiting(o) => Level(o) \notin Optional
BY WaitsSomewhere DEF CoordinatorTypeOK, OptionalIsFree, Unobstructed

LEMMA EnqueueKeepsFree ==
  ASSUME CoordinatorTypeOK, CoordinatorTypeOK', OptionalIsFree, NEW o \in Op,
         withResources(o) \/ tryWithResources(o)
  PROVE  OptionalIsFree'
<1>1. Enqueue(o)
  BY DEF withResources, tryWithResources
<1>2. /\ pending' = Append(pending, o) /\ Len(pending') = Len(pending) + 1
      /\ index = 0 /\ index' = 1 /\ UNCHANGED held
      /\ pending \in Seq(Op) /\ Len(pending) \in Nat
  BY <1>1 DEF Enqueue, CoordinatorTypeOK
<1>3. \A k \in 1 .. Len(pending) : pending'[k] = pending[k]
  BY <1>2
<1>4. \A p \in Op : Waiting(p)' <=> Waiting(p) \/ p = o
  <2>1. \A p \in Op : Waiting(p)' <=> \E k \in 1 .. Len(pending') : pending'[k] = p
    BY InLine DEF CoordinatorTypeOK, Waiting
  <2>2. \A p \in Op : Waiting(p) <=> \E k \in 1 .. Len(pending) : pending[k] = p
    BY WaitsSomewhere
  <2>3. pending'[Len(pending) + 1] = o
    BY <1>2
  <2>4. QED
    BY <1>2, <1>3, <2>1, <2>2, <2>3
<1>5. \A p \in Op : Wanted(p)' = Wanted(p) /\ Level(p)' = Level(p) /\ HeldUpBy(p)' = HeldUpBy(p)
  BY <1>2 DEF Wanted, Level, HeldUpBy, Holds, Held
<1>6. \A p \in Op : Waiting(p) => Level(p) \notin Optional
  BY <1>2, NoneWaitsBetween
<1>7. SUFFICES ASSUME NEW p \in Op, Waiting(p)', Level(p)' \in Optional
               PROVE  Unobstructed(p)'
  BY DEF OptionalIsFree
<1>8. p = o /\ Level(o) \in Optional
  BY <1>4, <1>5, <1>6, <1>7
<1>9. HeldUpBy(o) = {} /\ \A q \in ToSet(pending) \ {o} : ~operationDescriptorsConflict(Wanted(q), Wanted(o))
  BY <1>8 DEF withResources, tryWithResources
<1>10. \A q \in Op \ {o} : Waiting(q)' => ~operationDescriptorsConflict(Wanted(q)', Wanted(o)')
  BY <1>4, <1>5, <1>9 DEF Waiting
<1>11. QED
  BY <1>2, <1>5, <1>8, <1>9, <1>10 DEF Unobstructed

(* The front of a scan is granted when it is optional. *)
LEMMA FreeIsGranted ==
  ASSUME CoordinatorTypeOK, OptionalIsFree, NEW o \in Op, drainFail(o) \/ drainSkip(o)
  PROVE  Level(o) \notin Optional
<1> SUFFICES ASSUME Level(o) \in Optional PROVE FALSE
  OBVIOUS
<1>1. Waiting(o)
  BY WaitsSomewhere DEF drainFail, drainSkip, Scanning
<1>2. Unobstructed(o)
  BY <1>1 DEF OptionalIsFree
<1>3. HeldUpBy(o) = {}
  BY <1>2 DEF Unobstructed
<1>4. QueuedBehind(o) = {}
  BY <1>2, WaitsSomewhere DEF QueuedBehind, Unobstructed
<1>5. QED
  BY <1>3, <1>4 DEF drainFail, drainSkip

(* Where each of the claims that stay was in the list. *)
LEMMA StaysInLine ==
  ASSUME NEW s \in Seq(Op), NEW i \in 1 .. Len(s)
  PROVE  \A k \in 1 .. Len(RemoveAt(s, i)) :
           \E l \in 1 .. Len(s) :
             RemoveAt(s, i)[k] = s[l] /\ l # i /\ l = IF k < i THEN k ELSE k + 1
<1> DEFINE r == RemoveAt(s, i)
<1>1. /\ Len(r) = Len(s) - 1
      /\ \A k \in 1 .. Len(s) - 1 : r[k] = IF k < i THEN s[k] ELSE s[k + 1]
  BY RemoveAtIsShorter
<1> HIDE DEF r
<1>2. Len(s) \in Nat
  OBVIOUS
<1>3. ASSUME NEW k \in 1 .. Len(r)
      PROVE  \E l \in 1 .. Len(s) : r[k] = s[l] /\ l # i /\ l = IF k < i THEN k ELSE k + 1
  <2>1. k \in 1 .. Len(s) - 1 /\ k \in 1 .. Len(s) /\ k + 1 \in 1 .. Len(s)
    BY <1>1, <1>2, <1>3
  <2>2. CASE k < i
    BY <1>1, <2>1, <2>2
  <2>3. CASE ~(k < i)
    BY <1>1, <2>1, <2>3
  <2>4. QED
    BY <2>2, <2>3
<1>4. QED
  BY <1>3 DEF r

(* A claim that leaves the list, granted or not, is in nobody's way who is *)
(* free.                                                                   *)
LEMMA LeavingKeepsFree ==
  ASSUME CoordinatorTypeOK, CoordinatorTypeOK', OptionalIsFree, NEW o \in Op,
         NEW i \in 1 .. Len(pending), pending[i] = o, pending' = RemoveAt(pending, i),
         UNCHANGED held \/ held' = [held EXCEPT ![o] = held[o] + 1],
         index = 0 \/ (index = i /\ index' = index)
  PROVE  OptionalIsFree'
<1>1. pending \in Seq(Op) /\ Len(pending) \in Nat /\ held \in [Op -> Nat]
  BY SMTT(30) DEF CoordinatorTypeOK
<1>2. \A k \in 1 .. Len(pending') :
        \E l \in 1 .. Len(pending) :
          pending'[k] = pending[l] /\ l # i /\ l = IF k < i THEN k ELSE k + 1
  BY <1>1, StaysInLine
<1>3. ASSUME NEW p \in Op, Waiting(p)'
      PROVE  p # o /\ Waiting(p)
  <2>1. PICK k \in 1 .. Len(pending') : pending'[k] = p
    <3>1. pending' \in Seq(Op)
      BY SMTT(30) DEF CoordinatorTypeOK
    <3>2. p \in ToSet(pending')
      BY <1>3 DEF Waiting
    <3>3. QED
      BY ONLY <3>1, <3>2, InLine
  <2>2. PICK l \in 1 .. Len(pending) : p = pending[l] /\ l # i
    BY <1>2, <2>1
  <2>3. Waiting(p)
    BY <2>2, WaitsSomewhere
  <2>4. p # o
    BY <2>2 DEF CoordinatorTypeOK
  <2>5. QED
    BY <2>3, <2>4
<1>4. ASSUME NEW p \in Op, p # o
      PROVE  Wanted(p)' = Wanted(p) /\ Level(p)' = Level(p) /\ Held(p)' = Held(p)
  BY <1>1, <1>4 DEF Wanted, Level, Held
<1>5. Held(o)' \subseteq Held(o) \union {Wanted(o)}
  <2>1. held'[o] = held[o] \/ held'[o] = held[o] + 1
    BY <1>1
  <2>2. QED
    BY <1>1, <2>1 DEF Held, Wanted
<1>6. SUFFICES ASSUME NEW q \in Op, Waiting(q)', Level(q)' \in Optional
               PROVE  Unobstructed(q)'
  BY DEF OptionalIsFree
<1>7. q # o /\ Waiting(q) /\ Unobstructed(q)
  BY <1>3, <1>4, <1>6 DEF OptionalIsFree
<1>8. ASSUME NEW k \in 1 .. Len(pending'), pending'[k] = q
      PROVE  index' \in 1 .. k
  <2>1. PICK l \in 1 .. Len(pending) : q = pending[l] /\ l # i /\ l = IF k < i THEN k ELSE k + 1
    BY <1>2, <1>8
  <2>2. index \in 1 .. l
    BY <1>7, <2>1 DEF Unobstructed
  <2>3. QED
    BY <1>1, <1>8, <2>1, <2>2, SMTT(30)
<1>9. HeldUpBy(q) = {} /\ Wanted(q)' = Wanted(q)
  BY <1>4, <1>7 DEF Unobstructed
<1>10. ~operationDescriptorsConflict(Wanted(o), Wanted(q))
  BY <1>7, WaitsSomewhere DEF Unobstructed
<1>11. ASSUME NEW p \in Op, p # q, NEW E \in Held(p)'
       PROVE  ~operationDescriptorsConflict(E, Wanted(q))
  <2>1. E \in Held(p) \/ E = Wanted(o)
    BY <1>4, <1>5, <1>11
  <2>2. QED
    BY <1>9, <1>10, <1>11, <2>1 DEF HeldUpBy, Holds
<1>12. HeldUpBy(q)' = {}
  BY <1>9, <1>11 DEF HeldUpBy, Holds
<1>13. \A p \in Op \ {q} : Waiting(p)' => ~operationDescriptorsConflict(Wanted(p)', Wanted(q)')
  BY <1>3, <1>4, <1>7 DEF Unobstructed
<1>14. QED
  BY <1>8, <1>12, <1>13 DEF Unobstructed

LEMMA StepKeepsFree ==
  ASSUME CoordinatorTypeOK, CoordinatorTypeOK', OptionalIsFree, [Next]_vars
  PROVE  OptionalIsFree'
<1>1. ASSUME NEW o \in Op, finish(o) PROVE OptionalIsFree'
  <2>1. /\ ~Waiting(o) /\ index = 0 /\ pending' = pending
        /\ held' = [held EXCEPT ![o] = held[o] - 1] /\ held \in [Op -> Nat]
    BY <1>1 DEF finish, CoordinatorTypeOK
  <2>2. \A p \in Op : Waiting(p)' => Waiting(p) /\ Level(p)' = Level(p)
    BY <2>1 DEF Waiting, Level
  <2>3. QED
    BY <2>1, <2>2, NoneWaitsBetween DEF OptionalIsFree
<1>2. ASSUME NEW o \in Op, abort(o) PROVE OptionalIsFree'
  <2>1. PICK i \in 1 .. Len(pending) : pending[i] = o /\ pending' = RemoveAt(pending, i)
    BY <1>2 DEF abort
  <2>2. UNCHANGED held /\ index = 0
    BY <1>2 DEF abort
  <2>3. QED
    BY <1>2, <2>1, <2>2, LeavingKeepsFree
<1>3. ASSUME NEW o \in Op, drainFail(o) \/ drainStart(o) PROVE OptionalIsFree'
  <2>1. /\ index \in 1 .. Len(pending) /\ pending[index] = o
        /\ pending' = RemoveAt(pending, index) /\ index' = index
        /\ UNCHANGED held \/ held' = [held EXCEPT ![o] = held[o] + 1]
    BY <1>3 DEF drainFail, drainStart, Scanning, Dequeue
  <2>2. QED
    BY <1>3, <2>1, LeavingKeepsFree
<1>4. ASSUME NEW o \in Op, drainSkip(o) PROVE OptionalIsFree'
  <2>1. /\ index \in 1 .. Len(pending) /\ pending[index] = o /\ index' = index + 1
        /\ UNCHANGED <<held, pending>>
    BY <1>4 DEF drainSkip, Scanning
  <2>2. Level(o) \notin Optional
    BY <1>4, FreeIsGranted
  <2>3. \A p \in Op : /\ Waiting(p)' = Waiting(p) /\ Level(p)' = Level(p)
                      /\ HeldUpBy(p)' = HeldUpBy(p) /\ Wanted(p)' = Wanted(p)
    BY <2>1 DEF Waiting, Level, HeldUpBy, Holds, Held, Wanted
  <2>4. SUFFICES ASSUME NEW q \in Op, Waiting(q)', Level(q)' \in Optional
                 PROVE  Unobstructed(q)'
    BY DEF OptionalIsFree
  <2>5. Unobstructed(q) /\ q # o
    BY <2>2, <2>3, <2>4 DEF OptionalIsFree
  <2>6. ASSUME NEW k \in 1 .. Len(pending'), pending'[k] = q
        PROVE  index' \in 1 .. k
    BY <2>1, <2>5, <2>6 DEF Unobstructed, CoordinatorTypeOK
  <2>7. QED
    BY <2>3, <2>5, <2>6 DEF Unobstructed
<1>5. ASSUME drainEnds PROVE OptionalIsFree'
  <2>1. index > Len(pending) /\ UNCHANGED <<held, pending>>
    BY <1>5 DEF drainEnds
  <2>2. \A p \in Op : Waiting(p)' = Waiting(p) /\ Level(p)' = Level(p)
    BY <2>1 DEF Waiting, Level
  <2>3. QED
    BY <2>1, <2>2, NoneWaitsBetween DEF OptionalIsFree
<1>6. ASSUME UNCHANGED vars PROVE OptionalIsFree'
  BY <1>6 DEF vars, OptionalIsFree, Waiting, Level, Unobstructed, HeldUpBy, Holds, Held, Wanted
<1>7. QED
  BY <1>1, <1>2, <1>3, <1>4, <1>5, <1>6, EnqueueKeepsFree DEF Next, drainResources

(* Optional claims never wait: between two scans none is in the list, as   *)
(* tryWithResources only adds one that nothing holds up and the scan that  *)
(* follows grants it before anything else can.                             *)
THEOREM TryNeverWaitsHolds == Spec => []TryNeverWaits
<1>1. Init => OptionalIsFree
  BY DEF Init, OptionalIsFree, Waiting, ToSet
<1>2. CoordinatorTypeOK /\ CoordinatorTypeOK' /\ OptionalIsFree /\ [Next]_vars => OptionalIsFree'
  BY StepKeepsFree
<1>3. CoordinatorTypeOK /\ OptionalIsFree => TryNeverWaits
  <2> SUFFICES ASSUME CoordinatorTypeOK, OptionalIsFree, index = 0,
                      NEW o \in ToSet(pending)
               PROVE  Level(o) \notin Optional
    BY DEF TryNeverWaits
  <2>1. o \in Op /\ Waiting(o)
    BY DEF CoordinatorTypeOK, Waiting, ToSet
  <2>2. QED
    BY <2>1, NoneWaitsBetween
<1>4. QED
  BY <1>1, <1>2, <1>3, CoordinatorTypeCorrect, PTL DEF Spec

-------------------------------------------------------------------------------
(* Direct chains *)

(* Operations that wait for what each other hold, with no way out.         *)
Deadlocked(S) == S # {} /\ \A o \in S : Waiting(o) /\ HeldUpBy(o) \intersect S # {}

NoDeadlock == index = 0 => \A S \in SUBSET Op : ~Deadlocked(S)

(* While a scan is under way, there is one only if the scan has yet to     *)
(* come to one of its operations.                                          *)
DeadlocksAhead ==
  \A S \in SUBSET Op : Deadlocked(S) =>
    index > 0 /\ \E i \in 1 .. Len(pending) : i >= index /\ pending[i] \in S

(* A scan that starts anew looks at every operation that waits. *)
LEMMA NewScan ==
  ASSUME CoordinatorTypeOK', index' = 1
  PROVE  DeadlocksAhead'
<1> SUFFICES ASSUME NEW S \in SUBSET Op, Deadlocked(S)'
             PROVE  index' > 0 /\ \E i \in 1 .. Len(pending') : i >= index' /\ pending'[i] \in S
  BY DEF DeadlocksAhead
<1>1. PICK o \in S : Waiting(o)'
  BY DEF Deadlocked
<1>2. PICK i \in 1 .. Len(pending') : pending'[i] = o
  BY <1>1 DEF Waiting, ToSet
<1>3. i >= 1
  OBVIOUS
<1>4. QED
  BY <1>1, <1>2, <1>3

(* What stands still during a turn stays deadlocked or not.                *)
LEMMA StillDeadlocked ==
  ASSUME CoordinatorTypeOK, NEW S \in SUBSET Op, Deadlocked(S)',
         \A q \in S : held'[q] = held[q] /\ (Waiting(q)' => Waiting(q))
  PROVE  Deadlocked(S)
<1>1. \A q \in S : Wanted(q)' = Wanted(q) /\ Held(q)' = Held(q)
  BY DEF Wanted, Held
<1>2. ASSUME NEW q \in S
      PROVE  HeldUpBy(q)' \intersect S = HeldUpBy(q) \intersect S
  BY <1>1 DEF HeldUpBy, Holds
<1>3. QED
  BY <1>2 DEF Deadlocked

LEMMA TurnKeepsAhead ==
  ASSUME CoordinatorTypeOK, DeadlocksAhead, NEW o \in Op, drainFail(o) \/ drainStart(o)
  PROVE  DeadlocksAhead'
<1>1. /\ index \in 1 .. Len(pending) /\ pending[index] = o
      /\ pending' = RemoveAt(pending, index) /\ index' = index
      /\ \A q \in Op \ {o} : held'[q] = held[q]
  BY DEF drainFail, drainStart, Scanning, Dequeue, CoordinatorTypeOK
<1>2. pending \in Seq(Op) /\ \A i, j \in 1 .. Len(pending) : pending[i] = pending[j] => i = j
  BY DEF CoordinatorTypeOK
<1>3. /\ Len(pending') = Len(pending) - 1
      /\ \A k \in 1 .. Len(pending) - 1 :
           pending'[k] = IF k < index THEN pending[k] ELSE pending[k + 1]
  BY <1>1, <1>2, RemoveAtIsShorter
<1>4. ASSUME NEW q \in Op, Waiting(q)'
      PROVE  Waiting(q) /\ q # o
  <2>1. PICK k \in 1 .. Len(pending) - 1 : pending'[k] = q
    BY <1>3, <1>4 DEF Waiting, ToSet
  <2>2. k \in 1 .. Len(pending) /\ k + 1 \in 1 .. Len(pending)
    BY <1>2
  <2>3. CASE k < index
    BY <1>1, <1>2, <1>3, <2>1, <2>2, <2>3 DEF Waiting, ToSet
  <2>4. CASE ~(k < index)
    BY <1>1, <1>2, <1>3, <2>1, <2>2, <2>4, SMTT(30) DEF Waiting, ToSet
  <2>5. QED
    BY <2>3, <2>4
<1> SUFFICES ASSUME NEW S \in SUBSET Op, Deadlocked(S)'
             PROVE  index' > 0 /\ \E i \in 1 .. Len(pending') : i >= index' /\ pending'[i] \in S
  BY DEF DeadlocksAhead
<1>5. o \notin S
  BY <1>4 DEF Deadlocked
<1>6. Deadlocked(S)
  BY <1>1, <1>4, <1>5, StillDeadlocked DEF Deadlocked
<1>7. PICK i \in 1 .. Len(pending) : i >= index /\ pending[i] \in S
  BY <1>6 DEF DeadlocksAhead
<1>8. i # index /\ i - 1 \in 1 .. Len(pending) - 1 /\ i - 1 >= index /\ (i - 1) + 1 = i
  BY <1>1, <1>2, <1>5, <1>7
<1>9. pending'[i - 1] = pending[i]
  BY <1>1, <1>3, <1>8
<1>10. QED
  BY <1>1, <1>3, <1>7, <1>8, <1>9

(* A scan passes an operation only when no chain leads back to it: what is *)
(* deadlocked behind it is so without it.                                  *)
LEMMA SkipKeepsAhead ==
  ASSUME CoordinatorTypeOK, DeadlocksAhead, NEW o \in Op, drainSkip(o)
  PROVE  DeadlocksAhead'
<1>1. /\ index \in 1 .. Len(pending) /\ pending[index] = o /\ index' = index + 1
      /\ UNCHANGED <<held, pending>>
  BY DEF drainSkip, Scanning
<1> SUFFICES ASSUME NEW S \in SUBSET Op, Deadlocked(S)',
                    \A i \in 1 .. Len(pending) : i >= index + 1 => pending[i] \notin S
             PROVE  FALSE
  BY <1>1 DEF DeadlocksAhead
<1>2. Deadlocked(S)
  BY <1>1, StillDeadlocked DEF Waiting
<1>3. PICK i \in 1 .. Len(pending) : i >= index /\ pending[i] \in S
  BY <1>2 DEF DeadlocksAhead
<1>4. o \in S
  BY <1>1, <1>3
<1>5. HeldUpBy(o) # {}
  BY <1>2, <1>4 DEF Deadlocked
<1>6. PICK T \in SUBSET Op :
        /\ HeldUpBy(o) \subseteq T
        /\ \A p \in T : Waiting(p) => HeldUpBy(p) \subseteq T
        /\ o \notin T
  BY <1>5 DEF drainSkip, hasResourceWaitCycle
<1>7. Deadlocked(S \intersect T)
  BY <1>2, <1>4, <1>6 DEF Deadlocked
<1>8. PICK k \in 1 .. Len(pending) : k >= index /\ pending[k] \in S \intersect T
  BY <1>7 DEF DeadlocksAhead
<1>9. QED
  BY <1>1, <1>6, <1>8

(* Between two scans no operations wait for what each other hold: whoever  *)
(* would close such a circle was found by hasResourceWaitCycle and refused *)
(* in the scan that followed its claim.  What waits behind an earlier      *)
(* claim is another matter, see NoClosedChain.                             *)
THEOREM NoDeadlockHolds == Spec => []NoDeadlock
<1>1. Init => DeadlocksAhead
  BY DEF Init, DeadlocksAhead, Deadlocked, Waiting, ToSet
<1>2. CoordinatorTypeOK /\ CoordinatorTypeOK' /\ DeadlocksAhead /\ [Next]_vars => DeadlocksAhead'
  <2> SUFFICES ASSUME CoordinatorTypeOK, CoordinatorTypeOK', DeadlocksAhead, [Next]_vars
               PROVE  DeadlocksAhead'
    OBVIOUS
  <2>1. ASSUME NEW o \in Op, withResources(o) \/ tryWithResources(o) \/ finish(o) \/ abort(o)
        PROVE  DeadlocksAhead'
    BY <2>1, NewScan DEF withResources, tryWithResources, Enqueue, finish, abort
  <2>2. ASSUME drainEnds
        PROVE  DeadlocksAhead'
    <3>1. index > Len(pending) /\ UNCHANGED <<held, pending>>
      BY <2>2 DEF drainEnds
    <3>2. ASSUME NEW S \in SUBSET Op, Deadlocked(S)'
          PROVE  FALSE
      <4>1. Deadlocked(S)
        BY <3>1, <3>2, StillDeadlocked DEF Waiting
      <4>2. PICK i \in 1 .. Len(pending) : i >= index
        BY <4>1 DEF DeadlocksAhead
      <4>3. QED
        BY <3>1, <4>2 DEF CoordinatorTypeOK
    <3>3. QED
      BY <3>2 DEF DeadlocksAhead
  <2>3. ASSUME UNCHANGED vars
        PROVE  DeadlocksAhead'
    BY <2>3 DEF vars, DeadlocksAhead, Deadlocked, Waiting, HeldUpBy, Holds, Held, Wanted
  <2>4. QED
    BY <2>1, <2>2, <2>3, TurnKeepsAhead, SkipKeepsAhead DEF Next, drainResources
<1>3. DeadlocksAhead => NoDeadlock
  BY DEF DeadlocksAhead, NoDeadlock
<1>4. QED
  BY <1>1, <1>2, <1>3, CoordinatorTypeCorrect, PTL DEF Spec

-------------------------------------------------------------------------------
(* The agent's locks and those of the control plane keep the same promise  *)

LocalClaim == {c \in Op \X Nat : c[2] \in 1 .. Len(Claims[c[1]])}
ClaimsHeld == {c \in LocalClaim : c[2] <= held[c[1]]}

(* Each level of an operation's claims is an owner, and serves the others  *)
(* of its operation, as a stage of a move serves the move.                 *)
Locks == INSTANCE ResourceLock WITH
  Owner <- LocalClaim,
  Conflicts <- {p \in LocalClaim \X LocalClaim :
                  operationDescriptorsConflict(Claims[p[1][1]][p[1][2]], Claims[p[2][1]][p[2][2]])},
  Serves <- {p \in LocalClaim \X LocalClaim : p[1][1] = p[2][1]},
  owners <- ClaimsHeld

(* Claims that nest, pass each other and are refused or aborted never do   *)
(* more to what is held than ResourceLock allows: the agent's coordinator  *)
(* and the control plane's table implement the same lock.                  *)
THEOREM CoordinatorImplementsResourceLock == Spec => Locks!Spec
<1> USE ClaimsAssumption
<1>1. Init => Locks!Init
  BY DEF Init, Locks!Init, ClaimsHeld, LocalClaim
<1>2. CoordinatorTypeOK /\ [Next]_vars => [Locks!Next]_ClaimsHeld
  <2> SUFFICES ASSUME CoordinatorTypeOK, [Next]_vars
               PROVE  Locks!Next \/ ClaimsHeld' = ClaimsHeld
    OBVIOUS
  <2>1. ASSUME UNCHANGED held
        PROVE  ClaimsHeld' = ClaimsHeld
    BY <2>1 DEF ClaimsHeld
  <2>2. ASSUME NEW o \in Op, drainStart(o)
        PROVE  Locks!Next
    <3> DEFINE n == <<o, held[o] + 1>>
    <3>1. held' = [held EXCEPT ![o] = held[o] + 1] /\ HeldUpBy(o) = {} /\ held \in [Op -> Nat]
      BY <2>2 DEF drainStart, CoordinatorTypeOK
    <3>2. held[o] < Len(Claims[o])
      BY <2>2 DEF drainStart, Scanning, CoordinatorTypeOK
    <3>3. n \in LocalClaim /\ n \notin ClaimsHeld
      BY <3>1, <3>2 DEF LocalClaim, ClaimsHeld
    <3>4. ClaimsHeld' = ClaimsHeld \union {n}
      BY <3>1, <3>2, <3>3 DEF ClaimsHeld, LocalClaim
    <3>5. ASSUME NEW c \in ClaimsHeld, c[1] # o
          PROVE  ~operationDescriptorsConflict(Claims[c[1]][c[2]], Claims[o][held[o] + 1])
      <4>1. c[1] \in Op /\ Claims[c[1]][c[2]] \in Held(c[1])
        BY <3>1 DEF ClaimsHeld, LocalClaim, Held
      <4>2. QED
        BY <3>1, <3>5, <4>1 DEF HeldUpBy, Holds, Wanted
    <3>6. Locks!Acquire(n)
      BY <3>3, <3>4, <3>5 DEF Locks!Acquire, ClaimsHeld
    <3>7. QED
      BY <3>3, <3>6 DEF Locks!Next
  <2>3. ASSUME NEW o \in Op, finish(o)
        PROVE  Locks!Next
    <3> DEFINE n == <<o, held[o]>>
    <3>1. /\ held' = [held EXCEPT ![o] = held[o] - 1] /\ held \in [Op -> Nat]
          /\ held[o] > 0 /\ held[o] <= Len(Claims[o])
      BY <2>3 DEF finish, CoordinatorTypeOK
    <3>2. n \in LocalClaim /\ n \in ClaimsHeld
      BY <3>1 DEF LocalClaim, ClaimsHeld
    <3>3. ClaimsHeld' = ClaimsHeld \ {n}
      BY <3>1, <3>2 DEF ClaimsHeld, LocalClaim
    <3>4. QED
      BY <3>2, <3>3 DEF Locks!Next, Locks!Release
  <2>4. ASSUME NEW o \in Op,
               withResources(o) \/ tryWithResources(o) \/ abort(o) \/ drainFail(o) \/ drainSkip(o)
        PROVE  UNCHANGED held
    BY <2>4 DEF withResources, tryWithResources, Enqueue, abort, drainFail, drainSkip
  <2>5. drainEnds \/ UNCHANGED vars => UNCHANGED held
    BY DEF drainEnds, vars
  <2>6. QED
    BY <2>1, <2>2, <2>3, <2>4, <2>5 DEF Next, drainResources
<1>3. QED
  BY <1>1, <1>2, CoordinatorTypeCorrect, PTL DEF Spec, Locks!Spec
===============================================================================
