------------------------ MODULE RepositoryQueue_proofs ------------------------
(***************************************************************************)
(* The queue of a checkout keeps it stable, and its order, whatever tasks  *)
(* are queued.                                                             *)
(***************************************************************************)
EXTENDS RepositoryQueue, SequenceTheorems, TLAPS

Typed ==
  /\ pending \in Seq(Task)
  /\ running \subseteq Task
  /\ phase \in {"none", "wanted", "running"}

QueueInv == Typed /\ CheckoutStable

LEMMA KindsPartition ==
  ASSUME Typed
  PROVE  running = Running("exclusive") \union Running("build")
                     \union Inspections \union Running("reconciliation")
BY TaskKindAssumption DEF Typed, Running, Inspections

LEMMA RemovedKeepsOrder ==
  ASSUME NEW S, NEW s \in Seq(S), NEW i \in 1 .. Len(s)
  PROVE  /\ RemoveAt(s, i) \in Seq(S)
         /\ Len(RemoveAt(s, i)) = Len(s) - 1
         /\ \A k \in 1 .. Len(s) - 1 : RemoveAt(s, i)[k] = IF k < i THEN s[k] ELSE s[k + 1]
<1> DEFINE front == SubSeq(s, 1, i - 1)
           back == SubSeq(s, i + 1, Len(s))
<1>1. front \in Seq(S) /\ Len(front) = i - 1 /\ \A k \in 1 .. i - 1 : front[k] = s[k]
  OBVIOUS
<1>2. back \in Seq(S) /\ Len(back) = Len(s) - i /\ \A k \in 1 .. Len(s) - i : back[k] = s[k + i]
  OBVIOUS
<1>3. RemoveAt(s, i) = front \o back
  BY DEF RemoveAt
<1> HIDE DEF front, back
<1>4. /\ front \o back \in Seq(S)
      /\ Len(front \o back) = Len(front) + Len(back)
      /\ \A k \in 1 .. Len(front) + Len(back) :
           (front \o back)[k] = IF k <= Len(front) THEN front[k] ELSE back[k - Len(front)]
  BY <1>1, <1>2, ConcatProperties
<1>5. Len(front \o back) = Len(s) - 1
  BY <1>1, <1>2, <1>4
<1>6. ASSUME NEW k \in 1 .. Len(s) - 1
      PROVE  (front \o back)[k] = IF k < i THEN s[k] ELSE s[k + 1]
  <2>1. CASE k < i
    BY <1>1, <1>2, <1>4, <2>1
  <2>2. CASE ~(k < i)
    <3>1. (front \o back)[k] = back[k - (i - 1)]
      BY <1>1, <1>2, <1>4, <2>2
    <3>2. k - (i - 1) \in 1 .. Len(s) - i /\ (k - (i - 1)) + i = k + 1
      BY <2>2
    <3>3. back[k - (i - 1)] = s[k + 1]
      BY <1>2, <3>2
    <3>4. QED
      BY <2>2, <3>1, <3>3
  <2>3. QED
    BY <2>1, <2>2
<1>7. QED
  BY <1>3, <1>4, <1>5, <1>6

(* Taking something out of the queue or out of the checkout is harmless. *)
LEMMA LessRuns ==
  ASSUME QueueInv, Typed', running' \subseteq running, phase' = phase,
         phase # "none" => running' = running
  PROVE  QueueInv'
BY TaskKindAssumption DEF QueueInv, Typed, CheckoutStable, Running, Inspections

(* A task at the head starts only when those under way tolerate it. *)
LEMMA HeadFits ==
  ASSUME QueueInv, drainHead
  PROVE  QueueInv'
<1> DEFINE t == Head(pending)
<1>1. /\ pending # <<>> /\ MayStart(t)
      /\ running' = running \union {t} /\ pending' = Tail(pending)
      /\ phase' = phase /\ phase = "none"
      /\ Running("exclusive") = {} /\ Running("build") = {}
  BY DEF drainHead, HeadMayStart, Open, ExclusiveTaken
<1>2. t \in Task /\ pending' \in Seq(Task)
  BY <1>1 DEF QueueInv, Typed
<1> HIDE DEF t
<1>3. Typed'
  BY <1>1, <1>2 DEF QueueInv, Typed
<1>4. running = Inspections \union Running("reconciliation")
  BY <1>1, KindsPartition DEF QueueInv
<1>5. CASE Kind[t] = "exclusive"
  <2>1. running' = {t}
    BY <1>1, <1>4, <1>5 DEF MayStart
  <2>2. QED
    BY <1>1, <1>3, <1>5, <2>1 DEF QueueInv, CheckoutStable, Running, Inspections
<1>6. CASE Kind[t] = "build"
  <2>1. running = Inspections
    BY <1>1, <1>4, <1>6 DEF MayStart
  <2>2. QED
    BY <1>1, <1>3, <1>6, <2>1 DEF QueueInv, CheckoutStable, Running, Inspections
<1>7. CASE Kind[t] = "reconciliation"
  <2>1. running = Inspections
    BY <1>1, <1>4, <1>7 DEF MayStart
  <2>2. QED
    BY <1>1, <1>3, <1>7, <2>1 DEF QueueInv, CheckoutStable, Running, Inspections
<1>8. CASE Kind[t] = "inspection"
  BY <1>1, <1>3, <1>8 DEF QueueInv, CheckoutStable, Running, Inspections
<1>9. QED
  BY <1>2, <1>5, <1>6, <1>7, <1>8, TaskKindAssumption

(* A mutation, a build or a reconciliation at its phase never shares the   *)
(* checkout with what it must not (repository-coordinator.ts, drain).      *)
THEOREM CheckoutStays == Spec => []CheckoutStable
<1>1. Init => QueueInv
  BY DEF Init, QueueInv, Typed, CheckoutStable, Running, Inspections
<1>2. ASSUME QueueInv, [Next]_vars
      PROVE  QueueInv'
  <2> USE <1>2
  <2>1. ASSUME NEW t \in Task, enqueue(t)
        PROVE  QueueInv'
    BY <2>1, LessRuns DEF enqueue, QueueInv, Typed
  <2>2. ASSUME NEW t \in Task, abort(t)
        PROVE  QueueInv'
    <3>1. pending' \in Seq(Task)
      BY <2>2, RemovedKeepsOrder DEF abort, QueueInv, Typed
    <3>2. QED
      BY <2>2, <3>1, LessRuns DEF abort, QueueInv, Typed
  <2>3. ASSUME NEW t \in Task, complete(t)
        PROVE  QueueInv'
    <3>1. CASE Kind[t] = "reconciliation"
      BY <2>3, <3>1, LessRuns DEF complete, QueueInv, Typed
    <3>2. CASE Kind[t] # "reconciliation" /\ phase = "none"
      BY <2>3, <3>2, LessRuns DEF complete, QueueInv, Typed
    <3>3. CASE Kind[t] # "reconciliation" /\ phase # "none"
      BY <2>3, <3>3, TaskKindAssumption
      DEF complete, QueueInv, Typed, CheckoutStable, Running, Inspections
    <3>4. QED
      BY <3>1, <3>2, <3>3
  <2>4. ASSUME runReconciliationExclusive \/ phaseCompletes
        PROVE  QueueInv'
    BY <2>4 DEF runReconciliationExclusive, phaseCompletes, QueueInv, Typed,
       CheckoutStable, Running, Inspections
  <2>5. ASSUME drainPhase
        PROVE  QueueInv'
    <3>1. /\ Running("exclusive") = {} /\ Inspections = {} /\ phase = "wanted"
          /\ UNCHANGED <<pending, running>> /\ phase' = "running"
      BY <2>5 DEF drainPhase, PhaseMayStart, ExclusiveTaken
    <3>2. Running("reconciliation") # {}
      BY <3>1 DEF QueueInv, CheckoutStable
    <3>3. Running("build") = {}
      BY <3>2 DEF QueueInv, CheckoutStable, Running, Inspections
    <3>4. running = Running("reconciliation")
      BY <3>1, <3>3, KindsPartition DEF QueueInv
    <3>5. QED
      BY <3>1, <3>2, <3>4 DEF QueueInv, Typed, CheckoutStable, Running, Inspections
  <2>6. ASSUME drainInspection
        PROVE  QueueInv'
    <3>1. /\ Running("exclusive") = {} /\ phase = "none" /\ phase' = phase
      BY <2>6 DEF drainInspection, PassesBuild, ExclusiveTaken
    <3>2. PICK i \in 1 .. Len(pending) :
            /\ Kind[pending[i]] = "inspection"
            /\ running' = running \union {pending[i]}
            /\ pending' = RemoveAt(pending, i)
      BY <2>6 DEF drainInspection, FirstInspection
    <3>3. pending[i] \in Task /\ pending' \in Seq(Task)
      BY <3>2, RemovedKeepsOrder DEF QueueInv, Typed
    <3>4. QED
      BY <3>1, <3>2, <3>3 DEF QueueInv, Typed, CheckoutStable, Running, Inspections
  <2>7. ASSUME drainEnds \/ UNCHANGED vars
        PROVE  QueueInv'
    BY <2>7, LessRuns DEF drainEnds, vars, QueueInv, Typed
  <2>8. QED
    BY <1>2, <2>1, <2>2, <2>3, <2>4, <2>5, <2>6, <2>7, HeadFits DEF Next, drain
<1>3. QueueInv => CheckoutStable
  BY DEF QueueInv
<1>4. QED
  BY <1>1, <1>2, <1>3, PTL DEF Spec

-------------------------------------------------------------------------------
(* A task is queued once, and not while it is under way. *)
InLineOnce(line, started) ==
  \A k \in 1 .. Len(line) :
    /\ line[k] \notin started
    /\ \A l \in 1 .. Len(line) : line[k] = line[l] => k = l

OrderInv ==
  /\ Typed
  /\ InLineOnce(pending, running)

(* Taking a task out of the line, to start it or for good. *)
LEMMA LineShrinks ==
  ASSUME NEW s \in Seq(Task), NEW i \in 1 .. Len(s), NEW started,
         InLineOnce(s, started)
  PROVE  InLineOnce(RemoveAt(s, i), started \union {s[i]})
<1> DEFINE r == RemoveAt(s, i)
<1>1. /\ Len(r) = Len(s) - 1
      /\ \A k \in 1 .. Len(s) - 1 : r[k] = IF k < i THEN s[k] ELSE s[k + 1]
  BY RemovedKeepsOrder
<1> HIDE DEF r
<1>2. Len(s) \in Nat
  OBVIOUS
<1>3. ASSUME NEW k \in 1 .. Len(r)
      PROVE  \E m \in 1 .. Len(s) : r[k] = s[m] /\ m # i /\ m = IF k < i THEN k ELSE k + 1
  BY <1>1, <1>2
<1>4. ASSUME NEW k \in 1 .. Len(r)
      PROVE  r[k] \notin started \union {s[i]}
  BY <1>3 DEF InLineOnce
<1>5. ASSUME NEW k \in 1 .. Len(r), NEW l \in 1 .. Len(r), r[k] = r[l]
      PROVE  k = l
  <2>1. PICK m \in 1 .. Len(s) : r[k] = s[m] /\ m = IF k < i THEN k ELSE k + 1
    BY <1>3
  <2>2. PICK n \in 1 .. Len(s) : r[l] = s[n] /\ n = IF l < i THEN l ELSE l + 1
    BY <1>3
  <2>3. m = n
    BY <1>5, <2>1, <2>2 DEF InLineOnce
  <2>4. k \in Int /\ l \in Int /\ i \in Int
    BY <1>1, <1>2
  <2>5. QED
    BY <2>1, <2>2, <2>3, <2>4
<1>6. InLineOnce(r, started \union {s[i]})
  BY <1>4, <1>5 DEF InLineOnce
<1>7. QED
  BY <1>6 DEF r

LEMMA TailShrinks ==
  ASSUME NEW s \in Seq(Task), s # <<>>, NEW started, InLineOnce(s, started)
  PROVE  InLineOnce(Tail(s), started \union {s[1]})
<1> DEFINE r == Tail(s)
<1>1. /\ Len(s) \in Nat \ {0} /\ Len(r) = Len(s) - 1
      /\ \A k \in 1 .. Len(r) : r[k] = s[k + 1]
  BY EmptySeq, HeadTailProperties
<1> HIDE DEF r
<1>2. ASSUME NEW k \in 1 .. Len(r)
      PROVE  r[k] = s[k + 1] /\ k + 1 \in 1 .. Len(s) /\ k + 1 # 1 /\ 1 \in 1 .. Len(s)
  BY <1>1
<1>3. ASSUME NEW k \in 1 .. Len(r)
      PROVE  r[k] \notin started \union {s[1]}
  BY <1>2 DEF InLineOnce
<1>4. ASSUME NEW k \in 1 .. Len(r), NEW l \in 1 .. Len(r), r[k] = r[l]
      PROVE  k = l
  <2>1. k + 1 = l + 1
    BY <1>2, <1>4 DEF InLineOnce
  <2>2. QED
    BY <2>1
<1>5. InLineOnce(r, started \union {s[1]})
  BY <1>3, <1>4 DEF InLineOnce
<1>6. QED
  BY <1>5 DEF r

LEMMA LineGrows ==
  ASSUME NEW s \in Seq(Task), NEW t \in Task, NEW started,
         InLineOnce(s, started), t \notin started, \A k \in 1 .. Len(s) : s[k] # t
  PROVE  InLineOnce(Append(s, t), started)
<1> DEFINE r == Append(s, t)
<1>1. /\ Len(s) \in Nat /\ Len(r) = Len(s) + 1 /\ r[Len(s) + 1] = t
      /\ \A k \in 1 .. Len(s) : r[k] = s[k]
  BY AppendProperties
<1> HIDE DEF r
<1>2. ASSUME NEW k \in 1 .. Len(r)
      PROVE  (k \in 1 .. Len(s) /\ r[k] = s[k]) \/ (k = Len(s) + 1 /\ r[k] = t)
  BY <1>1
<1>3. ASSUME NEW k \in 1 .. Len(r)
      PROVE  r[k] \notin started
  BY <1>2 DEF InLineOnce
<1>4. ASSUME NEW k \in 1 .. Len(r), NEW l \in 1 .. Len(r), r[k] = r[l]
      PROVE  k = l
  BY <1>2, <1>4 DEF InLineOnce
<1>5. InLineOnce(r, started)
  BY <1>3, <1>4 DEF InLineOnce
<1>6. QED
  BY <1>5 DEF r

LEMMA FewerStarted ==
  ASSUME NEW s, NEW started, NEW fewer \in SUBSET started, InLineOnce(s, started)
  PROVE  InLineOnce(s, fewer)
BY DEF InLineOnce

(* What a step starts: nothing, the head, or an inspection beside a build. *)
Starts ==
  \/ running' \subseteq running
  \/ /\ pending # <<>>
     /\ running' = running \union {pending[1]}
  \/ /\ Running("build") # {}
     /\ \E i \in 1 .. Len(pending) :
          /\ Kind[pending[i]] = "inspection"
          /\ running' = running \union {pending[i]}

LEMMA OrderStep ==
  ASSUME OrderInv, [Next]_vars
  PROVE  OrderInv' /\ Starts
<1> USE DEF OrderInv, Typed
<1>1. ASSUME NEW t \in Task, enqueue(t)
      PROVE  OrderInv' /\ Starts
  <2>1. \A k \in 1 .. Len(pending) : pending[k] # t
    BY <1>1 DEF enqueue, Queued, ToSet
  <2>2. /\ t \notin running /\ pending' = Append(pending, t)
        /\ running' = running /\ phase' = phase
    BY <1>1 DEF enqueue
  <2>3. InLineOnce(Append(pending, t), running)
    BY <2>1, <2>2, LineGrows
  <2>4. QED
    BY <2>2, <2>3 DEF Starts
<1>2. ASSUME NEW t \in Task, abort(t)
      PROVE  OrderInv' /\ Starts
  <2>1. PICK i \in 1 .. Len(pending) : pending' = RemoveAt(pending, i)
    BY <1>2 DEF abort
  <2>2. running' = running /\ phase' = phase
    BY <1>2 DEF abort
  <2>3. InLineOnce(RemoveAt(pending, i), running)
    <3>1. InLineOnce(RemoveAt(pending, i), running \union {pending[i]})
      BY LineShrinks
    <3>2. running \in SUBSET (running \union {pending[i]})
      OBVIOUS
    <3>3. QED
      BY <3>1, <3>2, FewerStarted
  <2>4. RemoveAt(pending, i) \in Seq(Task)
    BY RemovedKeepsOrder
  <2>5. QED
    BY <2>1, <2>2, <2>3, <2>4 DEF Starts
<1>3. ASSUME NEW t \in Task, complete(t)
      PROVE  OrderInv' /\ Starts
  <2>1. running' = running \ {t} /\ pending' = pending /\ phase' = phase
    BY <1>3 DEF complete
  <2>2. InLineOnce(pending, running \ {t})
    BY FewerStarted
  <2>3. QED
    BY <2>1, <2>2 DEF Starts
<1>4. ASSUME runReconciliationExclusive \/ phaseCompletes \/ drainPhase \/ drainEnds
             \/ UNCHANGED vars
      PROVE  OrderInv' /\ Starts
  <2>1. pending' = pending /\ running' = running
        /\ phase' \in {"none", "wanted", "running"}
    BY <1>4 DEF runReconciliationExclusive, phaseCompletes, drainPhase, drainEnds, vars
  <2>2. QED
    BY <2>1 DEF Starts
<1>5. ASSUME drainHead
      PROVE  OrderInv' /\ Starts
  <2>1. /\ pending # <<>> /\ running' = running \union {pending[1]}
        /\ pending' = Tail(pending) /\ phase' = phase
    BY <1>5, HeadTailProperties DEF drainHead, HeadMayStart
  <2>2. InLineOnce(Tail(pending), running \union {pending[1]})
    BY <2>1, TailShrinks
  <2>3. Tail(pending) \in Seq(Task) /\ pending[1] \in Task
    BY <2>1, HeadTailProperties
  <2>4. QED
    BY <2>1, <2>2, <2>3 DEF Starts
<1>6. ASSUME drainInspection
      PROVE  OrderInv' /\ Starts
  <2>1. PICK i \in 1 .. Len(pending) :
          /\ Kind[pending[i]] = "inspection"
          /\ running' = running \union {pending[i]}
          /\ pending' = RemoveAt(pending, i)
    BY <1>6 DEF drainInspection, FirstInspection
  <2>2. phase' = phase /\ Running("build") # {}
    BY <1>6 DEF drainInspection, PassesBuild
  <2>3. InLineOnce(RemoveAt(pending, i), running \union {pending[i]})
    BY LineShrinks
  <2>4. RemoveAt(pending, i) \in Seq(Task) /\ pending[i] \in Task
    BY RemovedKeepsOrder
  <2>5. QED
    BY <2>1, <2>2, <2>3, <2>4 DEF Starts
<1>7. QED
  BY <1>1, <1>2, <1>3, <1>4, <1>5, <1>6 DEF Next, drain

(* For any number of tasks, none starts before an earlier one, inspections *)
(* beside a build excepted (repository-coordinator.ts, drain).             *)
THEOREM OrderKeptHolds == Spec => OrderKept
<1>1. Init => OrderInv
  BY DEF Init, OrderInv, Typed, InLineOnce
<1>2. ASSUME OrderInv, [Next]_vars
      PROVE  [\A i, j \in 1 .. Len(pending) :
                i < j /\ pending[j] \in running' /\ pending[i] \notin running'
                => Kind[pending[j]] = "inspection" /\ Running("build") # {}]_vars
  <2>1. SUFFICES ASSUME NEW i \in 1 .. Len(pending), NEW j \in 1 .. Len(pending),
                        i < j, pending[j] \in running', pending[i] \notin running'
                 PROVE  Kind[pending[j]] = "inspection" /\ Running("build") # {}
    OBVIOUS
  <2>2. InLineOnce(pending, running) /\ Len(pending) \in Nat
    BY <1>2 DEF OrderInv, Typed
  <2>3. pending[j] \notin running
    BY <2>2 DEF InLineOnce
  <2>4. Starts
    BY <1>2, OrderStep
  <2>5. CASE pending # <<>> /\ running' = running \union {pending[1]}
    <3>1. pending[j] = pending[1] /\ 1 \in 1 .. Len(pending)
      BY <2>1, <2>2, <2>3, <2>5
    <3>2. j = 1
      BY <2>2, <3>1 DEF InLineOnce
    <3>3. QED
      BY <2>1, <3>2
  <2>6. ASSUME Running("build") # {}, NEW k \in 1 .. Len(pending),
               Kind[pending[k]] = "inspection", running' = running \union {pending[k]}
        PROVE  Kind[pending[j]] = "inspection" /\ Running("build") # {}
    BY <2>1, <2>3, <2>6
  <2>7. QED
    BY <2>1, <2>3, <2>4, <2>5, <2>6 DEF Starts
<1>3. OrderInv /\ [Next]_vars => OrderInv'
  BY OrderStep
<1>4. QED
  BY <1>1, <1>2, <1>3, PTL DEF Spec, OrderKept
===============================================================================
