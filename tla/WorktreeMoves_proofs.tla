------------------------- MODULE WorktreeMoves_proofs -------------------------
(***************************************************************************)
(* A move holds its resources as long as it goes on and leaves nothing     *)
(* behind that it has not put elsewhere, for every table of holders, every *)
(* descriptor, every number of calls under way and every number of faults. *)
(***************************************************************************)
EXTENDS WorktreeMoves, OperationLocks_proofs

LEMMA MoveAndStages ==
  /\ Move \in Holder /\ Move \notin Stage /\ Parent[Move] = NoParent
  /\ \A s \in Stage : s \in Holder /\ Parent[s] = Move /\ Stages(s) = {}
<1>1. Move \in Holder /\ Kind[Move] = "WORKTREE_MOVE" /\ Stage \subseteq Holder
      /\ \A s \in Stage : Parent[s] = Move
  BY MoveAssumption
<1>2. \A s \in Stage : Kind[s] = "AGENT_JOB"
  BY <1>1, ParentAssumption, NoParentAssumption
<1>3. QED
  BY <1>1, <1>2, ParentAssumption, NoParentAssumption DEF Stages

LEMMA ProjectsStage ==
  \A p \in Projection : StageOf(p) \in Stage
BY DEF Projection, StageOf

-------------------------------------------------------------------------------
(* Moves use the table as OperationLocks allows *)

MoveStep == [MoveNext \/ Crash \/ Clock]_<<lockVars, moveVars>>

LEMMA ReleasedMove ==
  ASSUME ReleaseMove
  PROVE  AbandonMove(Move) \/ UNCHANGED lockVars
BY MoveAssumption DEF ReleaseMove, AbandonMove, Held

LEMMA AcknowledgedStage ==
  ASSUME NEW p \in Projection, Acknowledge(p)
  PROVE  Finish(StageOf(p)) \/ Retire(StageOf(p)) \/ UNCHANGED lockVars
BY MoveAndStages, ProjectsStage DEF Acknowledge, Release, Finish, Retire, Live, Held

LEMMA MoveStepIsLockStep ==
  ASSUME MoveStep
  PROVE  [LockNext]_lockVars
<1>1. CASE Begin
  BY <1>1, MoveAndStages DEF Begin, LockNext
<1>2. ASSUME NEW s \in Stage, CreateJob(s)
      PROVE  [LockNext]_lockVars
  BY <1>2, MoveAndStages DEF CreateJob, LockNext
<1>3. CASE CreatePush \/ CreateStash
  BY <1>2, <1>3 DEF CreatePush, CreateStash, Stage
<1>4. ASSUME ReleaseMove
      PROVE  [LockNext]_lockVars
  BY <1>4, ReleasedMove, MoveAndStages DEF LockNext
<1>5. ASSUME NEW s \in Stage, Claim(s)
      PROVE  [LockNext]_lockVars
  BY <1>5, MoveAndStages DEF Claim, LockNext
<1>6. ASSUME NEW p \in Projection,
             CreateCheckout(p) \/ CreateCleanup(p) \/ ReleaseFinished(p) \/ Acknowledge(p) \/ Refuse(p)
      PROVE  [LockNext]_lockVars
  <2>1. CASE CreateCheckout(p) \/ CreateCleanup(p)
    BY <1>2, <2>1 DEF CreateCheckout, CreateCleanup, Stage
  <2>2. CASE ReleaseFinished(p)
    BY <1>4, <2>2 DEF ReleaseFinished
  <2>3. CASE Acknowledge(p)
    BY <2>3, AcknowledgedStage, ProjectsStage, MoveAndStages DEF LockNext
  <2>4. CASE Refuse(p)
    BY <2>4, ProjectsStage, MoveAndStages DEF Refuse, LockNext
  <2>5. QED
    BY <1>6, <2>1, <2>2, <2>3, <2>4
<1>7. CASE \E c \in {"move", "cancel"} : UserReleases(c)
  BY <1>4, <1>7 DEF UserReleases
<1>8. CASE FailBegin \/ Retry \/ RegisterStash \/ Cancel \/ CancelUpdate \/ Crash
  BY <1>8 DEF FailBegin, Retry, RegisterStash, Cancel, CancelUpdate, Crash
<1>9. ASSUME NEW p \in Projection,
             \/ Execute(p) \/ Repeat(p) \/ Read(p) \/ Fail(p) \/ RegisterCheckout(p)
             \/ AskForStash(p) \/ Place(p) \/ End(p) \/ RegisterCleanup(p) \/ Throw(p)
      PROVE  UNCHANGED lockVars
  BY <1>9 DEF Execute, Repeat, Read, Fail, RegisterCheckout, AskForStash, Place, End, RegisterCleanup, Throw
<1>10. CASE Clock \/ UNCHANGED <<lockVars, moveVars>>
  BY <1>10 DEF Clock, LockNext
<1>11. QED
  BY <1>1, <1>3, <1>5, <1>6, <1>7, <1>8, <1>9, <1>10
  DEF MoveStep, MoveNext, CallSteps, Project

(* A move and its jobs do nothing to the holders but what OperationLocks   *)
(* allows: what is proved of every table holds of theirs.                  *)
THEOREM MovesUseOperationLocks == MoveSpec => LockSpec
<1>1. MoveStep => [LockNext]_lockVars
  BY MoveStepIsLockStep
<1>2. QED
  BY <1>1, PTL DEF MoveSpec, LockSpec, MoveStep

-------------------------------------------------------------------------------
(* Types *)

Statuses == ACTIVE_MOVE_STATUSES \union
  {"NONE", "SUCCEEDED", "SUCCEEDED_WITH_WARNING", "FAILED", "CANCELLED"}

Reported == {"SUCCEEDED", "NEEDS_STASH", "FAILED"}

Places == {"idle", "reading", "creating", "registering", "asking", "placing", "ending",
           "cleaning", "scheduling", "deleting", "warning", "failing", "releasing", "acknowledging"}

(* A projection is under way only for a job that has been reported. *)
ProjectsReports == \A p \in Projection : at[p] # "idle" => job[StageOf(p)] \in Reported

MoveTypes ==
  /\ MoveTypeOK
  /\ at \in [Projection -> Places] /\ read \in [Projection -> Statuses]
  /\ user \in [{"move", "retry", "cancel"} ->
                 {"idle", "creating", "registering", "failing", "updating", "releasing"}]
  /\ ProjectsReports

(* What holds resources goes on holding them. *)
StillHeld(S) == \A h \in S : state[h] = "HELD" => state'[h] = "HELD"

LEMMA CreateJobEffect ==
  ASSUME LockTypeOK, MoveTypes, NEW s \in Stage, CreateJob(s)
  PROVE  /\ StillHeld(Holder) /\ state'[Move] = state[Move]
         /\ \/ job' = job
            \/ job[s] = "NONE" /\ job' = [job EXCEPT ![s] = "QUEUED"]
BY MoveAndStages DEF CreateJob, Request, Enter, JobIs, StillHeld, LockTypeOK, lockVars

LEMMA ReleaseMoveEffect ==
  ASSUME LockTypeOK, ReleaseMove
  PROVE  StillHeld(Stage)
BY MoveAndStages, ReleaseStep DEF ReleaseMove, StillHeld, LockTypeOK, lockVars

LEMMA BeginEffect ==
  ASSUME LockTypeOK, Begin
  PROVE  state'[Move] = "HELD" /\ StillHeld(Stage)
BY MoveAndStages DEF Begin, AdmitNow, Hold, StillHeld, LockTypeOK

LEMMA ClaimEffect ==
  ASSUME LockTypeOK, NEW s \in Stage, Claim(s)
  PROVE  state'[s] = "HELD" /\ StillHeld(Stage) /\ state'[Move] = state[Move]
BY MoveAndStages DEF Claim, AdmitJob, Hold, StillHeld, LockTypeOK

LEMMA RefuseEffect ==
  ASSUME LockTypeOK, NEW p \in Projection, Refuse(p)
  PROVE  StillHeld(Holder) /\ state'[Move] = state[Move]
BY MoveAndStages, ProjectsStage, ReleaseStep DEF Refuse, Retire, StillHeld, LockTypeOK

LEMMA AcknowledgeEffect ==
  ASSUME LockTypeOK, NEW p \in Projection, Acknowledge(p)
  PROVE  StillHeld(Holder \ {StageOf(p)}) /\ state'[Move] = state[Move]
BY MoveAndStages, ProjectsStage, ReleaseStep DEF Acknowledge, StillHeld, LockTypeOK, lockVars

LEMMA CallKeepsTypes ==
  ASSUME LockTypeOK, MoveTypes,
         \/ Begin \/ FailBegin \/ Retry \/ RegisterStash \/ Cancel \/ CancelUpdate
         \/ CreatePush \/ CreateStash \/ \E c \in {"move", "cancel"} : UserReleases(c)
  PROVE  MoveTypes'
<1> USE BoundsAssumption
    DEF MoveTypes, MoveTypeOK, UserAt, ProjectsReports, Statuses, ACTIVE_MOVE_STATUSES, WAITING, lockVars
<1>1. CASE Begin
  BY <1>1, BeginEffect DEF Begin, StillHeld
<1>2. CASE FailBegin \/ Retry \/ Cancel \/ CancelUpdate
  BY <1>2 DEF FailBegin, Retry, Cancel, CancelUpdate
<1>3. CASE RegisterStash
  BY <1>3, MoveAndStages, NoParentAssumption DEF RegisterStash, Registered, Checkout, Stage
<1>4. CASE CreatePush
  <2>1. Push \in Stage
    BY DEF Stage
  <2>2. CASE CreateJob(Push)
    BY <1>4, <2>1, <2>2, CreateJobEffect, ProjectsStage, MoveAndStages DEF CreatePush, StillHeld, Reported
  <2>3. CASE UNCHANGED <<lockVars, job>>
    BY <1>4, <2>3 DEF CreatePush
  <2>4. QED
    BY <1>4, <2>2, <2>3 DEF CreatePush
<1>5. CASE CreateStash
  <2>1. Stash \in Stage
    BY DEF Stage
  <2>2. CASE CreateJob(Stash)
    BY <1>5, <2>1, <2>2, CreateJobEffect, ProjectsStage, MoveAndStages DEF CreateStash, StillHeld, Reported
  <2>3. CASE UNCHANGED <<lockVars, job>>
    BY <1>5, <2>3 DEF CreateStash
  <2>4. QED
    BY <1>5, <2>2, <2>3 DEF CreateStash
<1>6. CASE \E c \in {"move", "cancel"} : UserReleases(c)
  BY <1>6, ReleaseMoveEffect DEF UserReleases, StillHeld
<1>7. QED
  BY <1>1, <1>2, <1>3, <1>4, <1>5, <1>6

LEMMA AgentKeepsTypes ==
  ASSUME LockTypeOK, MoveTypes,
         \/ \E s \in Stage : Claim(s)
         \/ \E p \in Projection : Refuse(p) \/ Execute(p) \/ Repeat(p) \/ Throw(p)
         \/ Crash
  PROVE  MoveTypes'
<1> USE BoundsAssumption DEF MoveTypes, MoveTypeOK, At, JobIs, ProjectsReports, lockVars
<1>1. ASSUME NEW s \in Stage, Claim(s)
      PROVE  MoveTypes'
  BY <1>1, ClaimEffect, ProjectsStage DEF Claim, StillHeld, Reported
<1>2. ASSUME NEW p \in Projection, Refuse(p)
      PROVE  MoveTypes'
  BY <1>2, RefuseEffect, ProjectsStage, MoveAndStages DEF Refuse, StillHeld, Reported, Places
<1>3. ASSUME NEW p \in Projection, Execute(p)
      PROVE  MoveTypes'
  BY <1>3, ProjectsStage DEF Execute, Effect, Reported, Places
<1>4. ASSUME NEW p \in Projection, Repeat(p)
      PROVE  MoveTypes'
  BY <1>4 DEF Repeat, Reported, Places
<1>5. ASSUME NEW p \in Projection, Throw(p)
      PROVE  MoveTypes'
  BY <1>5 DEF Throw, Thrown, Places, Statuses, ACTIVE_MOVE_STATUSES, WAITING
<1>6. CASE Crash
  BY <1>6 DEF Crash, Halt, Places, Statuses
<1>7. QED
  BY <1>1, <1>2, <1>3, <1>4, <1>5, <1>6

LEMMA ProjectionKeepsTypes ==
  ASSUME LockTypeOK, MoveTypes, NEW p \in Projection, Project(p)
  PROVE  MoveTypes'
<1> USE BoundsAssumption DEF MoveTypes, MoveTypeOK, At, ProjectsReports, lockVars, Places
<1>1. CASE Read(p)
  BY <1>1 DEF Read, AfterPush, AfterCleanup, AfterCheckout, Statuses
<1>2. CASE Fail(p) \/ Place(p) \/ End(p) \/ RegisterCleanup(p)
  BY <1>2 DEF Fail, Place, End, RegisterCleanup, Statuses, ACTIVE_MOVE_STATUSES
<1>3. CASE RegisterCheckout(p) \/ AskForStash(p)
  BY <1>3, MoveAndStages, NoParentAssumption DEF RegisterCheckout, AskForStash, Registered,
     Checkout, Stage, Statuses, ACTIVE_MOVE_STATUSES, WAITING
<1>4. CASE CreateCheckout(p)
  <2>1. Initial \in Stage
    BY DEF Stage
  <2>2. CASE CreateJob(Initial)
    BY <1>4, <2>1, <2>2, CreateJobEffect, ProjectsStage, MoveAndStages
    DEF CreateCheckout, StillHeld, Reported, Statuses, ACTIVE_MOVE_STATUSES, WAITING
  <2>3. CASE UNCHANGED <<lockVars, job>>
    BY <1>4, <2>1, <2>3 DEF CreateCheckout, Statuses, ACTIVE_MOVE_STATUSES, WAITING
  <2>4. QED
    BY <1>4, <2>2, <2>3 DEF CreateCheckout
<1>5. CASE CreateCleanup(p)
  <2>1. Cleanup \in Stage
    BY DEF Stage
  <2>2. CASE CreateJob(Cleanup)
    BY <1>5, <2>1, <2>2, CreateJobEffect, ProjectsStage, MoveAndStages DEF CreateCleanup, StillHeld, Reported
  <2>3. CASE UNCHANGED <<lockVars, job>>
    BY <1>5, <2>3 DEF CreateCleanup
  <2>4. QED
    BY <1>5, <2>2, <2>3 DEF CreateCleanup
<1>6. CASE ReleaseFinished(p)
  BY <1>6, ReleaseMoveEffect DEF ReleaseFinished, StillHeld
<1>7. CASE Acknowledge(p)
  BY <1>7, AcknowledgeEffect, ProjectsStage, MoveAndStages DEF Acknowledge, StillHeld, Reported
<1>8. QED
  BY <1>1, <1>2, <1>3, <1>4, <1>5, <1>6, <1>7 DEF Project

LEMMA MoveStepKeepsTypes ==
  ASSUME LockTypeOK, MoveTypes, MoveStep
  PROVE  MoveTypes'
<1>1. CASE Clock \/ UNCHANGED <<lockVars, moveVars>>
  BY <1>1 DEF Clock, Tick, lockVars, moveVars, MoveTypes, MoveTypeOK, ProjectsReports
<1>2. QED
  BY <1>1, CallKeepsTypes, AgentKeepsTypes, ProjectionKeepsTypes
  DEF MoveStep, MoveNext, CallSteps

LEMMA MoveTypesHold == MoveSpec => []MoveTypes
<1>1. LockInit /\ MoveInit => MoveTypes
  BY BoundsAssumption DEF LockInit, MoveInit, MoveTypes, MoveTypeOK, ProjectsReports, Places,
     Statuses, ACTIVE_MOVE_STATUSES, WAITING
<1>2. LockTypeOK /\ MoveTypes /\ MoveStep => MoveTypes'
  BY MoveStepKeepsTypes
<1>3. QED
  BY <1>1, <1>2, MovesUseOperationLocks, LockTypeCorrect, PTL DEF MoveSpec, MoveStep

(* Whatever calls, projections and crashes interleave, what executes holds *)
(* its resources, and a move that checks out knows its checkout (claimJob, *)
(* advanceMoveAfterCheckout).                                              *)
THEOREM MoveTypeCorrect == MoveSpec => []MoveTypeOK
<1>1. MoveTypes => MoveTypeOK
  BY DEF MoveTypes
<1>2. QED
  BY <1>1, MoveTypesHold, PTL

-------------------------------------------------------------------------------
(* An active move is reserved *)

Ended == status \notin ACTIVE_MOVE_STATUSES \union {"NONE"}

(* A user's call that is about to release the move has ended it, and what  *)
(* is ended never goes on again.                                           *)
ReleasingIsOver ==
  user["move"] = "releasing" \/ user["cancel"] = "releasing" => Ended

ReservedInv == ActiveIsReserved /\ ReleasingIsOver

(* A step that leaves the holder of the move and what the calls are about  *)
(* to do alone can only end the move, or take it from one of its active    *)
(* statuses to another.                                                    *)
LEMMA StaysReserved ==
  ASSUME ReservedInv, state'[Move] = state[Move], UNCHANGED user,
         \/ status' = status
         \/ status' \in {"FAILED", "SUCCEEDED", "SUCCEEDED_WITH_WARNING"}
         \/ status \in ACTIVE_MOVE_STATUSES
  PROVE  ReservedInv'
BY DEF ReservedInv, ActiveIsReserved, ReleasingIsOver, Ended, ACTIVE_MOVE_STATUSES, WAITING

LEMMA CallKeepsReserved ==
  ASSUME LockTypeOK, MoveTypes, ReservedInv,
         \/ Begin \/ FailBegin \/ Retry \/ RegisterStash \/ Cancel \/ CancelUpdate
         \/ CreatePush \/ CreateStash \/ \E c \in {"move", "cancel"} : UserReleases(c)
  PROVE  ReservedInv'
<1> USE DEF ReservedInv, ActiveIsReserved, ReleasingIsOver, Ended, ACTIVE_MOVE_STATUSES, WAITING,
            UserAt, MoveTypes, lockVars
<1>1. CASE Begin
  BY <1>1, BeginEffect DEF Begin
<1>2. CASE FailBegin \/ Retry \/ Cancel \/ CancelUpdate \/ RegisterStash
  BY <1>2 DEF FailBegin, Retry, Cancel, CancelUpdate, RegisterStash
<1>3. CASE CreatePush \/ CreateStash
  <2>1. Push \in Stage /\ Stash \in Stage
    BY DEF Stage
  <2>2. state'[Move] = state[Move]
    BY <1>3, <2>1, CreateJobEffect DEF CreatePush, CreateStash
  <2>3. QED
    BY <1>3, <2>2 DEF CreatePush, CreateStash
<1>4. CASE \E c \in {"move", "cancel"} : UserReleases(c)
  BY <1>4 DEF UserReleases
<1>5. QED
  BY <1>1, <1>2, <1>3, <1>4

LEMMA AgentKeepsReserved ==
  ASSUME LockTypeOK, MoveTypes, ReservedInv,
         \/ \E s \in Stage : Claim(s)
         \/ \E p \in Projection : Refuse(p) \/ Execute(p) \/ Repeat(p) \/ Throw(p)
         \/ Crash
  PROVE  ReservedInv'
<1>1. ASSUME NEW s \in Stage, Claim(s)
      PROVE  ReservedInv'
  BY <1>1, ClaimEffect, StaysReserved DEF Claim
<1>2. ASSUME NEW p \in Projection, Refuse(p)
      PROVE  ReservedInv'
  BY <1>2, RefuseEffect, StaysReserved DEF Refuse
<1>3. ASSUME NEW p \in Projection, Execute(p) \/ Repeat(p) \/ Throw(p)
      PROVE  ReservedInv'
  BY <1>3, StaysReserved DEF Execute, Repeat, Throw, lockVars
<1>4. CASE Crash
  BY <1>4 DEF Crash, Halt, lockVars, MoveTypes, ReservedInv, ActiveIsReserved, ReleasingIsOver
<1>5. QED
  BY <1>1, <1>2, <1>3, <1>4

LEMMA ProjectionKeepsReserved ==
  ASSUME LockTypeOK, MoveTypes, ReservedInv, NEW p \in Projection, Project(p)
  PROVE  ReservedInv'
<1>1. CASE \/ Read(p) \/ Fail(p) \/ Place(p) \/ End(p)
           \/ RegisterCheckout(p) \/ AskForStash(p) \/ RegisterCleanup(p)
  <2>1. state'[Move] = state[Move] /\ UNCHANGED user
    BY <1>1 DEF Read, Fail, Place, End, RegisterCleanup, RegisterCheckout, AskForStash, lockVars
  <2>2. \/ status' = status
        \/ status' \in {"FAILED", "SUCCEEDED", "SUCCEEDED_WITH_WARNING"}
        \/ status \in ACTIVE_MOVE_STATUSES
    BY <1>1 DEF Read, Fail, Place, End, RegisterCleanup, RegisterCheckout, AskForStash,
       ACTIVE_MOVE_STATUSES, WAITING
  <2>3. QED
    BY <2>1, <2>2, StaysReserved
<1>2. CASE CreateCleanup(p) \/ CreateCheckout(p)
  <2>1. Cleanup \in Stage /\ Initial \in Stage
    BY DEF Stage
  <2>2. state'[Move] = state[Move]
    BY <1>2, <2>1, CreateJobEffect DEF CreateCleanup, CreateCheckout, lockVars
  <2>3. QED
    BY <1>2, <2>2, StaysReserved DEF CreateCleanup, CreateCheckout
<1>3. CASE Acknowledge(p)
  BY <1>3, AcknowledgeEffect, StaysReserved DEF Acknowledge
<1>4. CASE ReleaseFinished(p)
  BY <1>4 DEF ReleaseFinished, Over, ReservedInv, ActiveIsReserved, ReleasingIsOver, Ended, lockVars
<1>5. QED
  BY <1>1, <1>2, <1>3, <1>4 DEF Project

LEMMA MoveStepKeepsReserved ==
  ASSUME LockTypeOK, MoveTypes, ReservedInv, MoveStep
  PROVE  ReservedInv'
<1>1. CASE Clock \/ UNCHANGED <<lockVars, moveVars>>
  BY <1>1, StaysReserved DEF Clock, Tick, lockVars, moveVars
<1>2. QED
  BY <1>1, CallKeepsReserved, AgentKeepsReserved, ProjectionKeepsReserved
  DEF MoveStep, MoveNext, CallSteps

(* As long as a move goes on it holds both worktrees and the branch: no    *)
(* late call, repeated projection or crash lets them go before its end     *)
(* (moveWorktree, cancelWorktreeMove, releaseFinishedMoveResources).       *)
THEOREM ActiveIsReservedHolds == MoveSpec => []ActiveIsReserved
<1>1. LockInit /\ MoveInit => ReservedInv
  BY DEF LockInit, MoveInit, ReservedInv, ActiveIsReserved, ReleasingIsOver,
     ACTIVE_MOVE_STATUSES, WAITING
<1>2. LockTypeOK /\ MoveTypes /\ ReservedInv /\ MoveStep => ReservedInv'
  BY MoveStepKeepsReserved
<1>3. ReservedInv => ActiveIsReserved
  BY DEF ReservedInv
<1>4. QED
  BY <1>1, <1>2, <1>3, MovesUseOperationLocks, LockTypeCorrect, MoveTypesHold, PTL
  DEF MoveSpec, MoveStep

-------------------------------------------------------------------------------
(* The destination first *)

(* Each job exists because of the result of the one before it. *)
JobsInOrder ==
  /\ job[Initial] # "NONE" => job[Push] = "SUCCEEDED"
  /\ job[Stash] # "NONE" => job[Initial] = "NEEDS_STASH"
  /\ job[Cleanup] # "NONE" => job[Initial] = "SUCCEEDED" \/ job[Stash] = "SUCCEEDED"
  /\ \A s \in Stage : job[s] = "NEEDS_STASH" => s = Initial

(* Nobody asks for a stash, or answers, before a checkout needed one. *)
AskedIsNeeded ==
  status = "AWAITING_STASH" \/ user["retry"] \in {"creating", "registering"} =>
    job[Initial] = "NEEDS_STASH"

(* A projection is where the result it has read leads to, also when a      *)
(* query of it has failed.                                                 *)
PlacesFit ==
  \A p \in Projection :
    LET s == StageOf(p) IN
    /\ at[p] \in {"creating", "registering"} => s = Push /\ job[s] = "SUCCEEDED"
    /\ at[p] = "asking" => job[s] = "NEEDS_STASH"
    /\ at[p] \in {"placing", "cleaning", "scheduling", "ending"} =>
         s \in Checkout /\ job[s] = "SUCCEEDED"
    /\ at[p] = "ending" => ~deleteSource
    /\ at[p] = "warning" => s = Cleanup \/ (s \in Checkout /\ job[s] = "SUCCEEDED")
    /\ at[p] = "deleting" => s = Cleanup /\ job[s] = "SUCCEEDED"

(* What a job reports, and then the move, has been done. *)
ReportsAreTrue ==
  /\ job[Initial] = "SUCCEEDED" \/ job[Stash] = "SUCCEEDED" => destination = "branch"
  /\ job[Cleanup] = "SUCCEEDED" => source = "removed"
  /\ source = "removed" => job[Cleanup] # "NONE"
  /\ status \in {"CLEANING_UP", "SUCCEEDED", "SUCCEEDED_WITH_WARNING"} => destination = "branch"
  /\ status = "SUCCEEDED" /\ deleteSource => source = "removed"

OrderInv == JobsInOrder /\ AskedIsNeeded /\ PlacesFit /\ ReportsAreTrue

StagesDiffer ==
  /\ Push # Initial /\ Push # Stash /\ Push # Cleanup
  /\ Initial # Stash /\ Initial # Cleanup /\ Stash # Cleanup

LEMMA StagesAreDifferent == StagesDiffer
BY MoveAssumption DEF StagesDiffer

(* A job that is created when its turn has come fits in. *)
LEMMA CreatedInOrder ==
  ASSUME MoveTypes, OrderInv, NEW s \in Stage,
         \/ job' = job
         \/ job[s] = "NONE" /\ job' = [job EXCEPT ![s] = "QUEUED"],
         \/ s = Push
         \/ s = Initial /\ job[Push] = "SUCCEEDED"
         \/ s = Stash /\ job[Initial] = "NEEDS_STASH"
         \/ s = Cleanup /\ (job[Initial] = "SUCCEEDED" \/ job[Stash] = "SUCCEEDED")
  PROVE  /\ JobsInOrder'
         /\ \A t \in Stage : job[t] \in Reported => job'[t] = job[t]
         /\ \A t \in Stage : job'[t] \in Reported => job'[t] = job[t]
         /\ \A t \in Stage : job[t] # "NONE" => job'[t] # "NONE"
BY StagesAreDifferent DEF StagesDiffer, Stage, MoveTypes, MoveTypeOK, OrderInv, JobsInOrder, Reported

(* Jobs that were reported stay so, and no report is made up. *)
LEMMA SameReports ==
  ASSUME MoveTypes, OrderInv, JobsInOrder',
         \A t \in Stage : job[t] \in Reported => job'[t] = job[t],
         \A t \in Stage : job'[t] \in Reported => job'[t] = job[t],
         \A t \in Stage : job[t] # "NONE" => job'[t] # "NONE",
         UNCHANGED <<deleteSource, source, destination>>,
         status' = status \/ status' \in {"PUSHING", "CHECKING_OUT", "FAILED", "CANCELLED"},
         user'["retry"] = user["retry"] \/ user'["retry"] \in {"idle", "failing"}
           \/ job[Initial] = "NEEDS_STASH",
         \A q \in Projection :
           \/ at'[q] = at[q]
           \/ at'[q] \in {"idle", "reading", "failing", "releasing", "acknowledging"}
           \/ StageOf(q) \in Checkout /\ job[StageOf(q)] = "SUCCEEDED" /\ at'[q] \in {"scheduling", "warning"}
           \/ StageOf(q) = Push /\ job[Push] = "SUCCEEDED" /\ at'[q] = "registering"
  PROVE  OrderInv'
<1> USE DEF MoveTypes, MoveTypeOK, OrderInv, Reported
<1>1. AskedIsNeeded'
  BY DEF AskedIsNeeded, Stage
<1>2. PlacesFit'
  BY ProjectsStage DEF PlacesFit
<1>3. ReportsAreTrue'
  BY DEF ReportsAreTrue, Stage, Reported
<1>4. QED
  BY <1>1, <1>2, <1>3

LEMMA UnchangedJobs ==
  ASSUME OrderInv, UNCHANGED job
  PROVE  /\ JobsInOrder'
         /\ \A t \in Stage : job[t] \in Reported => job'[t] = job[t]
         /\ \A t \in Stage : job'[t] \in Reported => job'[t] = job[t]
         /\ \A t \in Stage : job[t] # "NONE" => job'[t] # "NONE"
BY DEF OrderInv, JobsInOrder

LEMMA CallKeepsOrder ==
  ASSUME LockTypeOK, MoveTypes, OrderInv,
         \/ Begin \/ FailBegin \/ Retry \/ RegisterStash \/ Cancel \/ CancelUpdate
         \/ CreatePush \/ CreateStash \/ \E c \in {"move", "cancel"} : UserReleases(c)
  PROVE  OrderInv'
<1> USE DEF UserAt, MoveTypes
<1>1. CASE Begin \/ FailBegin \/ RegisterStash \/ Cancel \/ CancelUpdate
           \/ \E c \in {"move", "cancel"} : UserReleases(c)
  BY <1>1, UnchangedJobs, SameReports
  DEF Begin, FailBegin, RegisterStash, Cancel, CancelUpdate, UserReleases
<1>2. CASE Retry
  BY <1>2, UnchangedJobs, SameReports DEF Retry, OrderInv, AskedIsNeeded
<1>3. CASE CreatePush
  <2>1. Push \in Stage
    BY DEF Stage
  <2>2. \/ job' = job
        \/ job[Push] = "NONE" /\ job' = [job EXCEPT ![Push] = "QUEUED"]
    BY <1>3, <2>1, CreateJobEffect DEF CreatePush
  <2>3. QED
    BY <1>3, <2>1, <2>2, CreatedInOrder, SameReports DEF CreatePush
<1>4. CASE CreateStash
  <2>1. Stash \in Stage /\ job[Initial] = "NEEDS_STASH"
    BY <1>4 DEF CreateStash, OrderInv, AskedIsNeeded, Stage
  <2>2. \/ job' = job
        \/ job[Stash] = "NONE" /\ job' = [job EXCEPT ![Stash] = "QUEUED"]
    BY <1>4, <2>1, CreateJobEffect DEF CreateStash
  <2>3. QED
    BY <1>4, <2>1, <2>2, CreatedInOrder, SameReports DEF CreateStash
<1>5. QED
  BY <1>1, <1>2, <1>3, <1>4

LEMMA AgentKeepsOrder ==
  ASSUME LockTypeOK, MoveTypes, OrderInv,
         \/ \E s \in Stage : Claim(s)
         \/ \E p \in Projection : Refuse(p) \/ Execute(p) \/ Repeat(p) \/ Throw(p)
         \/ Crash
  PROVE  OrderInv'
<1> USE DEF At, JobIs, MoveTypes, MoveTypeOK
<1>1. ASSUME NEW s \in Stage, Claim(s)
      PROVE  OrderInv'
  <2>1. job[s] = "QUEUED" /\ job' = [job EXCEPT ![s] = "RUNNING"]
    BY <1>1 DEF Claim
  <2>2. JobsInOrder'
    BY <2>1 DEF OrderInv, JobsInOrder, Stage
  <2>3. QED
    BY <1>1, <2>1, <2>2, SameReports DEF Claim, Reported
<1>2. ASSUME NEW p \in Projection, Refuse(p) \/ Execute(p)
      PROVE  OrderInv'
  <2> DEFINE s == StageOf(p)
  <2>1. s \in Stage /\ job[s] \in {"QUEUED", "RUNNING"} /\ at' = [at EXCEPT ![p] = "reading"]
    BY <1>2, ProjectsStage DEF Refuse, Execute
  <2>2. \A q \in Projection : StageOf(q) = s => at[q] = "idle"
    BY <2>1 DEF ProjectsReports, Reported
  <2>3. UNCHANGED <<status, deleteSource, user>>
    BY <1>2 DEF Refuse, Execute
  <2>4. PICK j \in Reported, done \in BOOLEAN :
          /\ job' = [job EXCEPT ![s] = j]
          /\ Effect(s, done) \/ UNCHANGED <<source, destination>>
          /\ j = "NEEDS_STASH" => s = Initial
          /\ j = "SUCCEEDED" => done /\ Effect(s, done)
    BY <1>2 DEF Refuse, Execute, Reported
  <2> HIDE DEF s
  <2>5. JobsInOrder' /\ AskedIsNeeded'
    BY <2>1, <2>3, <2>4, StagesAreDifferent DEF OrderInv, JobsInOrder, AskedIsNeeded, Stage, StagesDiffer, Reported
  <2>6. PlacesFit'
    BY <2>1, <2>2, <2>3, <2>4, ProjectsStage DEF OrderInv, PlacesFit
  <2>7. ReportsAreTrue'
    BY <2>1, <2>3, <2>4, StagesAreDifferent DEF OrderInv, JobsInOrder, ReportsAreTrue, Effect, Stage,
       Checkout, StagesDiffer, Reported
  <2>8. QED
    BY <2>5, <2>6, <2>7 DEF OrderInv
<1>3. ASSUME NEW p \in Projection, Repeat(p)
      PROVE  OrderInv'
  BY <1>3, UnchangedJobs, SameReports DEF Repeat
<1>4. ASSUME NEW p \in Projection, Throw(p)
      PROVE  OrderInv'
  <2>1. UNCHANGED <<status, job, deleteSource, source, destination, user>>
    BY <1>4 DEF Throw
  <2>2. \A q \in Projection : at'[q] = at[q] \/ at'[q] \in {"idle", "failing"}
          \/ (StageOf(q) \in Checkout /\ job[StageOf(q)] = "SUCCEEDED" /\ at'[q] = "warning")
    BY <1>4 DEF Throw, Thrown, OrderInv, PlacesFit
  <2>3. QED
    BY <2>1, <2>2, UnchangedJobs, SameReports
<1>5. CASE Crash
  BY <1>5, UnchangedJobs, SameReports DEF Crash, Halt
<1>6. QED
  BY <1>1, <1>2, <1>3, <1>4, <1>5

LEMMA ProjectionKeepsOrder ==
  ASSUME LockTypeOK, MoveTypes, OrderInv, NEW p \in Projection, Project(p)
  PROVE  OrderInv'
<1> DEFINE s == StageOf(p)
<1> USE DEF At, MoveTypes, MoveTypeOK
<1>0. s \in Stage
  BY ProjectsStage
<1>1. CASE Read(p)
  <2>1. job[s] \in Reported /\ UNCHANGED <<status, deleteSource, job, user, source, destination>>
    BY <1>1 DEF Read, ProjectsReports
  <2>2. PlacesFit'
    <3>1. \A q \in Projection : q # p => at'[q] = at[q]
      BY <1>1 DEF Read
    <3>2. CASE s = Push
      BY <1>1, <2>1, <3>1, <3>2, StagesAreDifferent
      DEF Read, AfterPush, OrderInv, PlacesFit, StagesDiffer, Checkout, Reported
    <3>3. CASE s = Cleanup
      BY <1>1, <2>1, <3>1, <3>3, StagesAreDifferent
      DEF Read, AfterCleanup, OrderInv, PlacesFit, StagesDiffer, Checkout, Reported
    <3>4. CASE s \in Checkout
      BY <1>1, <2>1, <3>1, <3>4, StagesAreDifferent
      DEF Read, AfterCheckout, OrderInv, PlacesFit, StagesDiffer, Checkout, Reported
    <3>5. QED
      BY <1>0, <3>2, <3>3, <3>4 DEF Stage, Checkout
  <2>3. QED
    BY <2>1, <2>2 DEF OrderInv, JobsInOrder, AskedIsNeeded, ReportsAreTrue
<1>2. CASE Fail(p) \/ ReleaseFinished(p) \/ Acknowledge(p) \/ RegisterCheckout(p)
  BY <1>2, UnchangedJobs, SameReports DEF Fail, ReleaseFinished, Acknowledge, RegisterCheckout
<1>3. CASE Place(p)
  BY <1>3 DEF Place, OrderInv, JobsInOrder, AskedIsNeeded, PlacesFit, ReportsAreTrue
<1>4. CASE End(p)
  <2>1. destination = "branch"
    BY <1>0, <1>4 DEF End, OrderInv, JobsInOrder, PlacesFit, ReportsAreTrue, Checkout, ProjectsReports, Reported
  <2>2. status' = "SUCCEEDED" /\ deleteSource => source = "removed"
    BY <1>4 DEF End, OrderInv, PlacesFit, ReportsAreTrue
  <2>3. QED
    BY <1>4, <2>1, <2>2 DEF End, OrderInv, JobsInOrder, AskedIsNeeded, PlacesFit, ReportsAreTrue
<1>5. CASE RegisterCleanup(p)
  <2>1. destination = "branch"
    BY <1>5 DEF RegisterCleanup, OrderInv, PlacesFit, ReportsAreTrue, Checkout
  <2>2. QED
    BY <1>5, <2>1 DEF RegisterCleanup, OrderInv, JobsInOrder, AskedIsNeeded, PlacesFit, ReportsAreTrue
<1>6. CASE AskForStash(p)
  <2>1. job[Initial] = "NEEDS_STASH"
    BY <1>0, <1>6 DEF AskForStash, OrderInv, PlacesFit, JobsInOrder
  <2>2. QED
    BY <1>6, <2>1 DEF AskForStash, OrderInv, JobsInOrder, AskedIsNeeded, PlacesFit, ReportsAreTrue
<1>7. CASE CreateCheckout(p)
  <2>1. Initial \in Stage /\ s = Push /\ job[Push] = "SUCCEEDED"
    BY <1>7 DEF CreateCheckout, OrderInv, PlacesFit, Stage
  <2>2. \/ job' = job
        \/ job[Initial] = "NONE" /\ job' = [job EXCEPT ![Initial] = "QUEUED"]
    BY <1>7, <2>1, CreateJobEffect DEF CreateCheckout
  <2>3. QED
    BY <1>7, <2>1, <2>2, CreatedInOrder, SameReports DEF CreateCheckout
<1>8. CASE CreateCleanup(p)
  <2>1. Cleanup \in Stage /\ s \in Checkout /\ job[s] = "SUCCEEDED"
    BY <1>8 DEF CreateCleanup, OrderInv, PlacesFit, Stage
  <2>2. job[Initial] = "SUCCEEDED" \/ job[Stash] = "SUCCEEDED"
    BY <2>1 DEF Checkout
  <2>3. \/ job' = job
        \/ job[Cleanup] = "NONE" /\ job' = [job EXCEPT ![Cleanup] = "QUEUED"]
    BY <1>8, <2>1, CreateJobEffect DEF CreateCleanup
  <2>4. QED
    BY <1>8, <2>1, <2>2, <2>3, CreatedInOrder, SameReports DEF CreateCleanup
<1>9. QED
  BY <1>1, <1>2, <1>3, <1>4, <1>5, <1>6, <1>7, <1>8 DEF Project

LEMMA MoveStepKeepsOrder ==
  ASSUME LockTypeOK, MoveTypes, OrderInv, MoveStep
  PROVE  OrderInv'
<1>1. CASE Clock \/ UNCHANGED <<lockVars, moveVars>>
  BY <1>1 DEF Clock, lockVars, moveVars, OrderInv, JobsInOrder, AskedIsNeeded, PlacesFit, ReportsAreTrue
<1>2. QED
  BY <1>1, CallKeepsOrder, AgentKeepsOrder, ProjectionKeepsOrder
  DEF MoveStep, MoveNext, CallSteps

(* The stages of a move run one after the other, the source is removed     *)
(* only when the destination has the branch, and a move claims no more     *)
(* than was done, whatever is repeated, retried or cut off                 *)
(* (advanceMoveAfterPush, advanceMoveAfterCheckout, scheduleMoveCleanup).  *)
THEOREM DestinationFirstHolds == MoveSpec => []DestinationFirst
<1>1. LockInit /\ MoveInit => OrderInv
  BY DEF MoveInit, OrderInv, JobsInOrder, AskedIsNeeded, PlacesFit, ReportsAreTrue, Stage
<1>2. LockTypeOK /\ MoveTypes /\ OrderInv /\ MoveStep => OrderInv'
  BY MoveStepKeepsOrder
<1>3. OrderInv => DestinationFirst
  <2> SUFFICES ASSUME OrderInv
               PROVE  DestinationFirst
    OBVIOUS
  <2>1. ASSUME NEW s \in Stage, NEW u \in Stage, job[s] = "RUNNING", job[u] = "RUNNING"
        PROVE  s = u
    BY <2>1 DEF OrderInv, JobsInOrder, Stage
  <2>2. source = "removed" => destination = "branch"
    BY DEF OrderInv, JobsInOrder, ReportsAreTrue
  <2>3. QED
    BY <2>1, <2>2 DEF DestinationFirst, OrderInv, ReportsAreTrue
<1>4. QED
  BY <1>1, <1>2, <1>3, MovesUseOperationLocks, LockTypeCorrect, MoveTypesHold, PTL
  DEF MoveSpec, MoveStep
===============================================================================
