------------------------- MODULE OperationLocks_proofs -------------------------
(***************************************************************************)
(* Theorems about the table of operation holders, for every set of slots,  *)
(* every descriptor and every assignment of stages to moves.               *)
(***************************************************************************)
EXTENDS OperationLocks, TLAPS

(* A conflict does not depend on which of the two operations came first:   *)
(* operationDescriptorsConflict has the newcomer on the left in            *)
(* admitOperation and on the right in drainResources.                      *)
THEOREM ConflictSymmetric ==
  ASSUME NEW D, NEW E, operationDescriptorsConflict(D, E)
  PROVE  operationDescriptorsConflict(E, D)
<1>1. PICK a \in D, b \in E : operationResourcesConflict(a, b)
  BY DEF operationDescriptorsConflict
<1>2. SameAgent(a, b) => SameAgent(b, a)
  BY DEF SameAgent
<1>3. SameCodebase(a, b) => SameCodebase(b, a)
  BY DEF SameCodebase, SameAgent
<1>4. SameThing(a, b) => SameThing(b, a)
  BY <1>2 DEF SameThing, overlappingPaths
<1>5. Compatible(b.mode, a.mode) => Compatible(a.mode, b.mode)
  BY DEF Compatible
<1>6. operationResourcesConflict(b, a)
  BY <1>1, <1>2, <1>3, <1>4, <1>5 DEF operationResourcesConflict
<1>7. QED
  BY <1>6 DEF operationDescriptorsConflict

(* A holder that enters the order at one place leaves it total. *)
LEMMA EnterKeepsOrder ==
  ASSUME LockTypeOK, NEW h \in Holder, state[h] = "NONE",
         NEW S \in SUBSET (fresh \intersect Live),
         NEW s \in {"REQUESTED", "HELD"},
         state' = [state EXCEPT ![h] = s],
         before' = before \union ((Live \ S) \X {h}) \union ({h} \X S),
         fresh' = fresh \union {h},
         token' \in [Holder -> Token \union {NoToken}]
  PROVE  LockTypeOK'
<1>1. Live' = Live \union {h} /\ h \notin Live
  BY DEF LockTypeOK, Live
<1>2. state' \in [Holder -> {"NONE", "REQUESTED", "HELD", "RELEASED"}]
  BY DEF LockTypeOK
<1>3. before' \subseteq Live' \X Live'
  BY <1>1 DEF LockTypeOK
<1>4. ASSUME NEW f \in Live', NEW g \in Live', f # g
      PROVE  <<f, g>> \in before' <=> <<g, f>> \notin before'
  <2>1. CASE f = h
    BY <1>1, <1>4, <2>1 DEF LockTypeOK
  <2>2. CASE g = h
    BY <1>1, <1>4, <2>2 DEF LockTypeOK
  <2>3. CASE f \in Live /\ g \in Live
    BY <1>1, <1>4, <2>3 DEF LockTypeOK
  <2>4. QED
    BY <1>1, <1>4, <2>1, <2>2, <2>3
<1>5. fresh' \subseteq Live'
  BY <1>1 DEF LockTypeOK
<1>6. QED
  BY <1>2, <1>3, <1>4, <1>5 DEF LockTypeOK

LEMMA ForgetKeepsOrder ==
  ASSUME LockTypeOK, NEW S \in SUBSET Live,
         state' = [h \in Holder |-> IF h \in S THEN "RELEASED" ELSE state[h]],
         Forget(S), token' = token
  PROVE  LockTypeOK' /\ Live' = Live \ S
<1>1. Live' = Live \ S
  BY DEF LockTypeOK, Live
<1>2. state' \in [Holder -> {"NONE", "REQUESTED", "HELD", "RELEASED"}]
  BY DEF LockTypeOK
<1>3. before' \subseteq Live' \X Live' /\ fresh' \subseteq Live'
  BY <1>1 DEF LockTypeOK, Forget
<1>4. ASSUME NEW f \in Live', NEW g \in Live', f # g
      PROVE  <<f, g>> \in before' <=> <<g, f>> \notin before'
  BY <1>1, <1>4 DEF LockTypeOK, Forget
<1>5. QED
  BY <1>1, <1>2, <1>3, <1>4 DEF LockTypeOK

LEMMA ReleaseStep ==
  ASSUME LockTypeOK, NEW h \in Holder, NEW t, Release(h, t)
  PROVE  /\ LockTypeOK'
         /\ h \in Live
         /\ state' = [state EXCEPT ![h] = "RELEASED"]
<1>1. {h} \in SUBSET Live
  BY DEF Release
<1>2. state' = [g \in Holder |-> IF g \in {h} THEN "RELEASED" ELSE state[g]]
  BY DEF Release, LockTypeOK
<1>3. QED
  BY <1>1, <1>2, ForgetKeepsOrder DEF Release

(* Every transaction of the table keeps its types. *)
LEMMA LockStepKeepsTypes ==
  ASSUME LockTypeOK, [LockNext]_lockVars
  PROVE  LockTypeOK'
<1>1. ASSUME NEW h \in Holder, Request(h)
      PROVE  LockTypeOK'
  <2>1. PICK order \in OrdersWith(h) : Enter(h, order)
    BY <1>1 DEF Request
  <2>2. PICK S \in SUBSET (fresh \intersect Live) :
          order = before \union ((Live \ S) \X {h}) \union ({h} \X S)
    BY <2>1 DEF OrdersWith
  <2>3. QED
    BY <1>1, <2>1, <2>2, EnterKeepsOrder DEF Request, Enter, LockTypeOK
<1>2. ASSUME NEW h \in Holder, NEW t \in Token, AdmitJob(h, t)
      PROVE  LockTypeOK'
  <2>1. Live' = Live
    BY <1>2 DEF AdmitJob, Hold, Live, LockTypeOK
  <2>2. QED
    BY <1>2, <2>1 DEF AdmitJob, Hold, LockTypeOK
<1>3. ASSUME NEW h \in Holder, NEW t \in Token, AdmitNow(h, t)
      PROVE  LockTypeOK'
  <2>1. PICK order \in OrdersWith(h) : Enter(h, order)
    BY <1>3 DEF AdmitNow
  <2>2. PICK S \in SUBSET (fresh \intersect Live) :
          order = before \union ((Live \ S) \X {h}) \union ({h} \X S)
    BY <2>1 DEF OrdersWith
  <2>3. token' \in [Holder -> Token \union {NoToken}]
    BY <1>3 DEF AdmitNow, Hold, LockTypeOK
  <2>4. QED
    BY <1>3, <2>1, <2>2, <2>3, EnterKeepsOrder DEF AdmitNow, Hold, Enter
<1>4. ASSUME NEW h \in Holder, Finish(h) \/ AbandonMove(h) \/ Retire(h) \/ FailTarget(h)
      PROVE  LockTypeOK'
  BY <1>4, ReleaseStep DEF Finish, AbandonMove, Retire, FailTarget
<1>5. ASSUME NEW h \in Holder, Recycle(h)
      PROVE  LockTypeOK'
  <2>1. Live' = Live
    BY <1>5 DEF Recycle, Live, LockTypeOK
  <2>2. QED
    BY <1>5, <2>1 DEF Recycle, LockTypeOK
<1>6. ASSUME NEW a \in Agent, DeleteAgent(a)
      PROVE  LockTypeOK'
  BY <1>6, ForgetKeepsOrder DEF DeleteAgent
<1>7. CASE Tick
  BY <1>7 DEF Tick, LockTypeOK, Live
<1>8. CASE UNCHANGED lockVars
  BY <1>8 DEF lockVars, LockTypeOK, Live
<1>9. QED
  BY <1>1, <1>2, <1>3, <1>4, <1>5, <1>6, <1>7, <1>8 DEF LockNext

(* The type invariant: every transaction keeps the slots typed and leaves  *)
(* the live ones totally ordered by (createdAt, id).                       *)
THEOREM LockTypeCorrect == LockSpec => []LockTypeOK
<1>1. LockInit => LockTypeOK
  BY DEF LockInit, LockTypeOK, Live
<1>2. LockTypeOK /\ [LockNext]_lockVars => LockTypeOK'
  BY LockStepKeepsTypes
<1>3. QED
  BY <1>1, <1>2, PTL DEF LockSpec

-------------------------------------------------------------------------------
(* Mutual exclusion and the refinement *)

LEMMA ConflictingSymmetric ==
  ASSUME NEW g, NEW h, <<g, h>> \in Conflicting
  PROVE  <<h, g>> \in Conflicting
  BY ConflictSymmetric DEF Conflicting

(* What an admission must have found: everything HELD that conflicts with  *)
(* the newcomer is the move the newcomer is a stage of.                    *)
LEMMA AdmittedBesideParent ==
  ASSUME NEW h \in Holder, h \notin Held, NEW order, CanAdmit(h, order),
         NEW g \in Held, <<g, h>> \in Conflicting
  PROVE  g = Parent[h]
<1>1. g \in Live /\ g \in Holder /\ state[g] = "HELD"
  BY DEF Held, Live
<1>2. ~Blocks(g, h, order)
  BY <1>1 DEF CanAdmit
<1>3. <<h, g>> \in Conflicting
  BY ConflictingSymmetric
<1>4. ~WaitsForParent(g, h) /\ ~ReadBypass(g, h)
  BY <1>1 DEF WaitsForParent, ReadBypass
<1>5. g \in HeldParent(h)
  BY <1>1, <1>2, <1>3, <1>4 DEF Blocks
<1>6. QED
  BY <1>5 DEF HeldParent

(* A transaction admits one newcomer beside nothing but its move, or       *)
(* releases one holder, or leaves the holders alone.                       *)
LEMMA HeldStep ==
  ASSUME LockTypeOK, [LockNext]_lockVars
  PROVE  \/ Held' = Held
         \/ \E h \in Holder :
              /\ h \notin Held /\ Held' = Held \union {h}
              /\ \A g \in Held : <<g, h>> \in Conflicting => g = Parent[h]
         \/ \E h \in Held : Held' = Held \ {h}
<1>1. ASSUME NEW h \in Holder, NEW t \in Token, AdmitJob(h, t) \/ AdmitNow(h, t)
      PROVE  /\ h \notin Held /\ Held' = Held \union {h}
             /\ \A g \in Held : <<g, h>> \in Conflicting => g = Parent[h]
  <2>1. h \notin Held
    BY <1>1 DEF AdmitJob, AdmitNow, Enter, Held
  <2>2. Held' = Held \union {h}
    BY <1>1 DEF AdmitJob, AdmitNow, Hold, Held, LockTypeOK
  <2>3. PICK order : CanAdmit(h, order)
    BY <1>1 DEF AdmitJob, AdmitNow
  <2>4. QED
    BY <2>1, <2>2, <2>3, AdmittedBesideParent
<1>2. ASSUME NEW h \in Holder, Finish(h) \/ AbandonMove(h)
      PROVE  h \in Held /\ Held' = Held \ {h}
  BY <1>2, ReleaseStep DEF Finish, AbandonMove, Held, LockTypeOK
<1>3. ASSUME NEW h \in Holder, Retire(h) \/ FailTarget(h)
      PROVE  Held' = Held
  BY <1>3, ReleaseStep DEF Retire, FailTarget, Held, LockTypeOK
<1>4. ASSUME NEW h \in Holder, Request(h) \/ Recycle(h)
      PROVE  Held' = Held
  BY <1>4 DEF Request, Enter, Recycle, Held, LockTypeOK
<1>5. ASSUME NEW a \in Agent, DeleteAgent(a)
      PROVE  Held' = Held
  BY <1>5 DEF DeleteAgent, Held, LockTypeOK
<1>6. CASE Tick \/ UNCHANGED lockVars
  BY <1>6 DEF Tick, lockVars, Held
<1>7. QED
  BY <1>1, <1>2, <1>3, <1>4, <1>5, <1>6 DEF LockNext

(* The table implements an exclusive lock: the transactions of             *)
(* operation-locks.service.ts, with their bypasses, ties and bulk          *)
(* retirements, never do more to the set of HELD owners than ResourceLock  *)
(* allows.                                                                 *)
THEOREM LocksImplementResourceLock == LockSpec => ImplementsResourceLock
<1>1. LockInit => Locks!Init
  BY DEF LockInit, Locks!Init, Held
<1>2. LockTypeOK /\ [LockNext]_lockVars => [Locks!Next]_Held
  <2> SUFFICES ASSUME LockTypeOK, [LockNext]_lockVars
               PROVE  Locks!Next \/ Held' = Held
    OBVIOUS
  <2>1. CASE Held' = Held
    BY <2>1
  <2>2. ASSUME NEW h \in Holder, h \notin Held, Held' = Held \union {h},
               \A g \in Held : <<g, h>> \in Conflicting => g = Parent[h]
        PROVE  Locks!Acquire(h)
    BY <2>2 DEF Locks!Acquire, Held
  <2>3. ASSUME NEW h \in Held, Held' = Held \ {h}
        PROVE  Locks!Release(h)
    BY <2>3 DEF Locks!Release
  <2>4. QED
    BY <2>1, <2>2, <2>3, HeldStep DEF Locks!Next, Held
<1>3. QED
  BY <1>1, <1>2, LockTypeCorrect, PTL DEF LockSpec, ImplementsResourceLock, Locks!Spec

(* Mutual exclusion: whatever is queued, cancelled, retired or retried,    *)
(* two conflicting operations are admitted together only as a stage and    *)
(* its move.                                                               *)
THEOREM MutualExclusionHolds == LockSpec => []MutualExclusion
<1>1. LockInit => MutualExclusion
  BY DEF LockInit, MutualExclusion, Held
<1>2. LockTypeOK /\ MutualExclusion /\ [LockNext]_lockVars => MutualExclusion'
  <2> SUFFICES ASSUME LockTypeOK, MutualExclusion, [LockNext]_lockVars,
                      NEW f \in Held', NEW g \in Held', f # g, <<f, g>> \in Conflicting
               PROVE  f = Parent[g] \/ g = Parent[f]
    BY DEF MutualExclusion
  <2>1. CASE f \in Held /\ g \in Held
    BY <2>1 DEF MutualExclusion
  <2>2. ASSUME NEW h \in Holder, Held' = Held \union {h},
               \A k \in Held : <<k, h>> \in Conflicting => k = Parent[h]
        PROVE  f = Parent[g] \/ g = Parent[f]
    BY <2>1, <2>2, ConflictingSymmetric
  <2>3. QED
    BY <2>1, <2>2, HeldStep
<1>3. QED
  BY <1>1, <1>2, LockTypeCorrect, PTL DEF LockSpec

-------------------------------------------------------------------------------
(* Queueing *)

(* Nothing barges in: an admission never makes a request wait that nothing *)
(* HELD made wait, unless the newcomer precedes that request.              *)
LEMMA AdmissionDoesNotBarge ==
  ASSUME LockTypeOK, LockTypeOK', NEW h \in Holder, NEW t \in Token,
         AdmitJob(h, t) \/ AdmitNow(h, t),
         NEW g \in Holder, g # h, state[g] = "REQUESTED", ~HeldUp(g),
         <<h, g>> \in Conflicting
  PROVE  <<h, g>> \in before'
<1>1. CanAdmit(h, before')
  BY DEF AdmitJob, AdmitNow, Enter
<1>2. g \in Live /\ g \in Live' /\ h \in Live'
  BY DEF Live, AdmitJob, AdmitNow, Hold, LockTypeOK
<1>3. ~Blocks(g, h, before')
  BY <1>1, <1>2 DEF CanAdmit
<1>4. g \notin HeldParent(h) \union {h}
  BY DEF HeldParent, Held
<1>5. ~WaitsForParent(g, h)
  BY DEF WaitsForParent, HeldParent, HeldUp
<1>6. ~ReadBypass(g, h)
  BY DEF ReadBypass, HeldUp
<1>7. <<g, h>> \notin before'
  BY <1>3, <1>4, <1>5, <1>6 DEF Blocks
<1>8. QED
  BY <1>2, <1>7 DEF LockTypeOK

(* First come, first served: no admission makes a request wait that        *)
(* nothing HELD made wait, unless the newcomer was created before it       *)
(* (admitOperation).                                                       *)
THEOREM NoBargingHolds == LockSpec => NoBarging
<1>1. LockTypeOK /\ LockTypeOK' /\ [LockNext]_lockVars =>
        \A g, h \in Holder :
          /\ state[g] = "REQUESTED" /\ state'[g] = "REQUESTED" /\ ~HeldUp(g)
          /\ h \notin Held /\ state'[h] = "HELD" /\ <<h, g>> \in Conflicting
          => <<h, g>> \in before'
  <2> SUFFICES ASSUME LockTypeOK, LockTypeOK', [LockNext]_lockVars,
                      NEW g \in Holder, NEW h \in Holder,
                      state[g] = "REQUESTED", state'[g] = "REQUESTED", ~HeldUp(g),
                      h \notin Held, state'[h] = "HELD", <<h, g>> \in Conflicting
               PROVE  <<h, g>> \in before'
    OBVIOUS
  <2>1. h \notin Held /\ h \in Held' /\ g # h
    BY DEF Held
  <2>2. ASSUME NEW k \in Holder, NEW t \in Token, AdmitJob(k, t) \/ AdmitNow(k, t)
        PROVE  k = h
    BY <2>1, <2>2 DEF AdmitJob, AdmitNow, Hold, Held, LockTypeOK
  <2>3. \E k \in Holder, t \in Token : AdmitJob(k, t) \/ AdmitNow(k, t)
    <3>1. ASSUME NEW k \in Holder,
                 Finish(k) \/ AbandonMove(k) \/ Retire(k) \/ FailTarget(k)
          PROVE  FALSE
      BY <3>1, <2>1, ReleaseStep DEF Finish, AbandonMove, Retire, FailTarget, Held, LockTypeOK
    <3>2. ASSUME NEW k \in Holder, Request(k) \/ Recycle(k)
          PROVE  FALSE
      BY <3>2, <2>1 DEF Request, Enter, Recycle, Held, LockTypeOK
    <3>3. ASSUME NEW a \in Agent, DeleteAgent(a)
          PROVE  FALSE
      BY <3>3, <2>1 DEF DeleteAgent, Held, LockTypeOK
    <3>4. ~Tick /\ ~UNCHANGED lockVars
      BY <2>1 DEF Tick, lockVars, Held
    <3>5. QED
      BY <3>1, <3>2, <3>3, <3>4 DEF LockNext
  <2>4. QED
    BY <2>1, <2>2, <2>3, AdmissionDoesNotBarge
<1>2. QED
  BY <1>1, LockTypeCorrect, PTL DEF LockSpec, NoBarging
===============================================================================
