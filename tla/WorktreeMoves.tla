----------------------------- MODULE WorktreeMoves -----------------------------
(***************************************************************************)
(* Moving a branch from the worktree of one agent to a worktree of another *)
(* (moveWorktree and what follows it in                                    *)
(* src/services/worktrees/worktrees.service.ts).                           *)
(*                                                                         *)
(* A move holds both worktrees and the branch from its creation to its     *)
(* end and has up to four jobs run, each requested when the result of the  *)
(* one before it is projected: the push of the branch, its checkout at the *)
(* destination, a second checkout that stashes what is in the way, if the  *)
(* user says so, and the deletion of the source.                           *)
(*                                                                         *)
(* Every read and every write of the database is a step of its own, as the *)
(* code has nothing but conditions in its writes to keep the steps of      *)
(* different calls apart.  The destination is an existing worktree.  What  *)
(* makes a claim, an execution and an acknowledgement reliable is          *)
(* AgentJobs' subject: here each is one step.                              *)
(***************************************************************************)
EXTENDS OperationLocks, Naturals

CONSTANTS
  Move,                          \* the holder of the move
  Push, Initial, Stash, Cleanup, \* the holders of its jobs
  Calls,                         \* bound on the calls of each stage at once
  MaxFaults                      \* bound on crashes, late calls and failed projections

Stage == {Push, Initial, Stash, Cleanup}

(* A projection is what one call makes of the result of one stage: a late  *)
(* completeJob and its repetition project the same result side by side.    *)
Projection == UNION {{s} \X (1 .. Calls[s]) : s \in Stage}
StageOf(p) == p[1]

Checkout == {Initial, Stash}

ASSUME MoveAssumption ==
  /\ Move \in Holder /\ Kind[Move] = "WORKTREE_MOVE"
  /\ Stage \subseteq Holder /\ \A s \in Stage : Parent[s] = Move
  /\ Push # Initial /\ Push # Stash /\ Push # Cleanup
  /\ Initial # Stash /\ Initial # Cleanup /\ Stash # Cleanup

ASSUME BoundsAssumption == MaxFaults \in Nat /\ Calls \in [Stage -> Nat]

VARIABLES
  status,       \* WorktreeMove.status, NONE before the move
  deleteSource, \* what the user asked for
  target,       \* the checkout registered as targetJobId, or NoParent
  job,          \* AgentJob.status of each stage; NEEDS_STASH is a success
  at,           \* where each projection is
  read,         \* the status of the move that projection has read
  user,         \* where each call of a user is
  source,       \* the source worktree
  destination,  \* the destination worktree
  faults

moveVars == <<status, deleteSource, target, job, at, read, user, source, destination, faults>>

WAITING == {"PUSHING", "CHECKING_OUT", "AWAITING_STASH"}
ACTIVE_MOVE_STATUSES == WAITING \union {"CLEANING_UP"}

MoveInit ==
  /\ status = "NONE" /\ deleteSource \in BOOLEAN /\ target = NoParent
  /\ job = [s \in Stage |-> "NONE"]
  /\ at = [p \in Projection |-> "idle"]
  /\ read = [p \in Projection |-> "NONE"]
  /\ user = [c \in {"move", "retry", "cancel"} |-> "idle"]
  /\ source = "present" /\ destination = "other"
  /\ faults = 0

UserAt(c, p) == user' = [user EXCEPT ![c] = p]
At(p, place) == at' = [at EXCEPT ![p] = place]
JobIs(s, j) == job' = [job EXCEPT ![s] = j]

(* createJob is idempotent: a second one finds the first. *)
CreateJob(s) ==
  IF job[s] = "NONE"
  THEN Request(s) /\ JobIs(s, "QUEUED")
  ELSE UNCHANGED <<lockVars, job>>

(* Mutant: the job is not recorded with the move. *)
M_Registered(s) == UNCHANGED target

(* The job of a checkout is recorded with the move. *)
Registered(s) == target' = s

ReleaseMove ==
  IF state[Move] = "HELD" THEN Release(Move, token[Move]) ELSE UNCHANGED lockVars

-------------------------------------------------------------------------------
(* Calls of users *)

(* moveWorktree: the move and its reservation are one transaction ...      *)
Begin ==
  /\ status = "NONE"
  /\ \E t \in Token : AdmitNow(Move, t)
  /\ status' = "PUSHING"
  /\ UserAt("move", "creating")
  /\ UNCHANGED <<deleteSource, target, job, at, read, source, destination, faults>>

(* ... and its first job another; the source agent may have left, or the   *)
(* update that follows the creation fails.                                 *)
CreatePush ==
  /\ user["move"] = "creating"
  /\ \/ CreateJob(Push) /\ UserAt("move", "idle") /\ UNCHANGED faults
     \/ CreateJob(Push) /\ UserAt("move", "failing")
           /\ faults < MaxFaults /\ faults' = faults + 1
     \/ UserAt("move", "failing") /\ UNCHANGED <<lockVars, job, faults>>
  /\ UNCHANGED <<status, deleteSource, target, at, read, source, destination>>

FailBegin ==
  /\ user["move"] = "failing"
  /\ status' = "FAILED"
  /\ UserAt("move", "releasing")
  /\ UNCHANGED <<deleteSource, target, job, at, read, source, destination, faults>>
  /\ UNCHANGED lockVars

(* retryWorktreeMoveWithStash: a read, the job, the update. *)
Retry ==
  /\ user["retry"] = "idle" /\ status = "AWAITING_STASH"
  /\ UserAt("retry", "creating")
  /\ UNCHANGED <<status, deleteSource, target, job, at, read, source, destination, faults>>
  /\ UNCHANGED lockVars

CreateStash ==
  /\ user["retry"] = "creating"
  /\ \/ CreateJob(Stash) /\ UserAt("retry", "registering")
     \/ UserAt("retry", "idle") /\ UNCHANGED <<lockVars, job>>
  /\ UNCHANGED <<status, deleteSource, target, at, read, source, destination, faults>>

RegisterStash ==
  /\ user["retry"] = "registering"
  /\ IF status = "AWAITING_STASH"
     THEN status' = "CHECKING_OUT" /\ Registered(Stash)
     ELSE UNCHANGED <<status, target>>
  /\ UserAt("retry", "idle")
  /\ UNCHANGED <<deleteSource, job, at, read, source, destination, faults>>
  /\ UNCHANGED lockVars

(* cancelWorktreeMove: a read, an update without a condition, the release. *)
Cancel ==
  /\ user["cancel"] = "idle" /\ status = "AWAITING_STASH"
  /\ UserAt("cancel", "updating")
  /\ UNCHANGED <<status, deleteSource, target, job, at, read, source, destination, faults>>
  /\ UNCHANGED lockVars

CancelUpdate ==
  /\ user["cancel"] = "updating"
  /\ status' = "CANCELLED"
  /\ UserAt("cancel", "releasing")
  /\ UNCHANGED <<deleteSource, target, job, at, read, source, destination, faults>>
  /\ UNCHANGED lockVars

UserReleases(c) ==
  /\ user[c] = "releasing"
  /\ ReleaseMove
  /\ UserAt(c, "idle")
  /\ UNCHANGED <<status, deleteSource, target, job, at, read, source, destination, faults>>

-------------------------------------------------------------------------------
(* The jobs *)

(* claimJob: the move goes on, is reserved and knows of this job. *)
Claimable(s) ==
  /\ status \in ACTIVE_MOVE_STATUSES
  /\ s \in Checkout => target \in {NoParent, s}
  /\ state[Move] = "HELD"

Claim(s) ==
  /\ job[s] = "QUEUED" /\ Claimable(s)
  /\ \E t \in Token : AdmitJob(s, t)
  /\ JobIs(s, "RUNNING")
  /\ UNCHANGED <<status, deleteSource, target, at, read, user, source, destination, faults>>

(* The claim finds that the target of the job has changed, or a user       *)
(* cancels the queued job: its failure is projected, once.                 *)
Refuse(p) ==
  LET s == StageOf(p) IN
    /\ job[s] = "QUEUED"
    /\ Retire(s)
    /\ JobIs(s, "FAILED") /\ At(p, "reading")
    /\ UNCHANGED <<status, deleteSource, target, read, user, source, destination, faults>>

(* What a job leaves behind, whatever it reports. *)
Effect(s, done) ==
  /\ source' = IF s = Cleanup /\ done THEN "removed" ELSE source
  /\ destination' = IF s \in Checkout /\ done THEN "branch" ELSE destination

(* The agent executes the job and reports; the report is projected at once.*)
(* A job that fails, is cancelled or is cut off may have done its work.    *)
Execute(p) ==
  LET s == StageOf(p) IN
    /\ job[s] = "RUNNING"
    /\ \/ JobIs(s, "SUCCEEDED") /\ Effect(s, TRUE)
       \/ s = Initial /\ JobIs(s, "NEEDS_STASH") /\ Effect(s, FALSE)
       \/ JobIs(s, "FAILED") /\ \E done \in BOOLEAN : Effect(s, done)
    /\ At(p, "reading")
    /\ UNCHANGED <<status, deleteSource, target, read, user, faults>>
    /\ UNCHANGED lockVars

(* The agent repeats a report until it is acknowledged.  A repetition that *)
(* overtakes the call before it, or comes after all was let go, counts as  *)
(* a fault.                                                                *)
Repeat(p) ==
  LET s == StageOf(p)
      needed == state[s] = "HELD" /\ \A q \in Projection : StageOf(q) = s => at[q] = "idle" IN
    /\ job[s] \in {"SUCCEEDED", "NEEDS_STASH", "FAILED"}
    /\ at[p] = "idle" /\ At(p, "reading")
    /\ IF needed THEN UNCHANGED faults ELSE faults < MaxFaults /\ faults' = faults + 1
    /\ UNCHANGED <<status, deleteSource, target, job, read, user, source, destination>>
    /\ UNCHANGED lockVars

-------------------------------------------------------------------------------
(* Projections of the stages *)

(* advanceMoveAfterPush reads the move and decides. *)
AfterPush ==
  IF status # "PUSHING" THEN "releasing"
  ELSE IF job[Push] = "SUCCEEDED" THEN "creating" ELSE "failing"

(* Mutant: a destination that needs a stash counts as checked out. *)
M_AfterCheckout(s) ==
  IF status \notin WAITING \/ target \notin {NoParent, s} THEN "releasing"
  ELSE IF job[s] = "FAILED" THEN "failing" ELSE "placing"

(* advanceMoveAfterCheckout *)
AfterCheckout(s) ==
  IF status \notin WAITING \/ target \notin {NoParent, s} THEN "releasing"
  ELSE CASE job[s] = "FAILED" -> "failing"
         [] job[s] = "NEEDS_STASH" -> "asking"
         [] OTHER -> "placing"

(* projectDeleteOperation *)
AfterCleanup ==
  IF status \notin ACTIVE_MOVE_STATUSES THEN "releasing"
  ELSE IF job[Cleanup] = "SUCCEEDED" THEN "deleting" ELSE "warning"

Read(p) ==
  /\ at[p] = "reading"
  /\ LET s == StageOf(p)
         next == CASE s = Push -> AfterPush [] s = Cleanup -> AfterCleanup
                   [] OTHER -> AfterCheckout(s) IN
       /\ At(p, next)
       /\ read' = [read EXCEPT ![p] = IF next = "failing" THEN status ELSE "NONE"]
  /\ UNCHANGED <<status, deleteSource, target, job, user, source, destination, faults>>
  /\ UNCHANGED lockVars

(* failMove: only from the status that was read. *)
Fail(p) ==
  /\ at[p] = "failing"
  /\ status' = IF status = read[p] THEN "FAILED" ELSE status
  /\ read' = [read EXCEPT ![p] = "NONE"]
  /\ At(p, "releasing")
  /\ UNCHANGED <<deleteSource, target, job, user, source, destination, faults>>
  /\ UNCHANGED lockVars

(* createMoveCheckoutJob; the destination may be offline or gone. *)
CreateCheckout(p) ==
  /\ at[p] = "creating"
  /\ \/ CreateJob(Initial) /\ At(p, "registering") /\ UNCHANGED read
     \/ /\ At(p, "failing") /\ read' = [read EXCEPT ![p] = "PUSHING"]
        /\ UNCHANGED <<lockVars, job>>
  /\ UNCHANGED <<status, deleteSource, target, user, source, destination, faults>>

RegisterCheckout(p) ==
  /\ at[p] = "registering"
  /\ IF status = "PUSHING"
     THEN status' = "CHECKING_OUT" /\ Registered(Initial)
     ELSE UNCHANGED <<status, target>>
  /\ At(p, "releasing")
  /\ UNCHANGED <<deleteSource, job, read, user, source, destination, faults>>
  /\ UNCHANGED lockVars

AskForStash(p) ==
  /\ at[p] = "asking"
  /\ status' = IF status \in WAITING THEN "AWAITING_STASH" ELSE status
  /\ At(p, "releasing")
  /\ UNCHANGED <<deleteSource, target, job, read, user, source, destination, faults>>
  /\ UNCHANGED lockVars

(* projectMoveDestination succeeded; without a deletion that is the end.   *)
Place(p) ==
  /\ at[p] = "placing"
  /\ At(p, IF deleteSource THEN "cleaning" ELSE "ending")
  /\ UNCHANGED <<status, deleteSource, target, job, read, user, source, destination, faults>>
  /\ UNCHANGED lockVars

(* The last writes are unconditional. *)
End(p) ==
  /\ \/ at[p] = "ending" /\ status' = "SUCCEEDED"
     \/ at[p] = "warning" /\ status' = "SUCCEEDED_WITH_WARNING"
     \/ at[p] = "deleting" /\ status' \in {"SUCCEEDED", "SUCCEEDED_WITH_WARNING"}
  /\ At(p, "releasing")
  /\ UNCHANGED <<deleteSource, target, job, read, user, source, destination, faults>>
  /\ UNCHANGED lockVars

(* scheduleMoveCleanup *)
CreateCleanup(p) ==
  /\ at[p] = "cleaning"
  /\ \/ CreateJob(Cleanup) /\ At(p, "scheduling")
     \/ At(p, "warning") /\ UNCHANGED <<lockVars, job>>
  /\ UNCHANGED <<status, deleteSource, target, read, user, source, destination, faults>>

RegisterCleanup(p) ==
  /\ at[p] = "scheduling"
  /\ status' = IF status \in WAITING THEN "CLEANING_UP" ELSE status
  /\ At(p, "releasing")
  /\ UNCHANGED <<deleteSource, target, job, read, user, source, destination, faults>>
  /\ UNCHANGED lockVars

(* Mutant: every projection lets the reservation go. *)
M_Over == TRUE

(* releaseFinishedMoveResources reads the move ... *)
Over == status \notin ACTIVE_MOVE_STATUSES

(* ... and releases a finished one. *)
ReleaseFinished(p) ==
  /\ at[p] = "releasing"
  /\ IF Over THEN ReleaseMove ELSE UNCHANGED lockVars
  /\ At(p, IF state[StageOf(p)] = "HELD" THEN "acknowledging" ELSE "idle")
  /\ UNCHANGED <<status, deleteSource, target, job, read, user, source, destination, faults>>

(* Then completeJob releases what the job holds, if it still does. *)
Acknowledge(p) ==
  /\ at[p] = "acknowledging"
  /\ LET s == StageOf(p) IN
       IF state[s] = "HELD" THEN Release(s, token[s]) ELSE UNCHANGED lockVars
  /\ At(p, "idle")
  /\ UNCHANGED <<status, deleteSource, target, job, read, user, source, destination, faults>>

-------------------------------------------------------------------------------
(* Faults *)

(* The control plane stops: no call of it goes on. *)
Halt ==
  /\ at' = [p \in Projection |-> "idle"]
  /\ read' = [p \in Projection |-> "NONE"]
  /\ user' = [c \in DOMAIN user |-> "idle"]
  /\ UNCHANGED <<status, deleteSource, target, job, source, destination>>

Crash ==
  /\ faults < MaxFaults /\ faults' = faults + 1
  /\ Halt
  /\ UNCHANGED lockVars

(* Where a projection goes on when a query of it throws: what creates a    *)
(* job is caught, anything else ends it.                                   *)
Thrown(p) ==
  CASE at[p] \in {"creating", "registering"} -> "failing"
    [] at[p] = "scheduling" -> "warning"
    [] OTHER -> "idle"

(* A projection throws: the destination's row is gone or the database busy.*)
Throw(p) ==
  /\ faults < MaxFaults /\ faults' = faults + 1
  /\ at[p] # "idle" /\ At(p, Thrown(p))
  /\ read' = [read EXCEPT ![p] = IF Thrown(p) = "failing" THEN "PUSHING" ELSE "NONE"]
  /\ UNCHANGED <<status, deleteSource, target, job, user, source, destination>>
  /\ UNCHANGED lockVars

Project(p) ==
  \/ Read(p) \/ Fail(p) \/ CreateCheckout(p) \/ RegisterCheckout(p)
  \/ AskForStash(p) \/ Place(p) \/ End(p)
  \/ CreateCleanup(p) \/ RegisterCleanup(p)
  \/ ReleaseFinished(p) \/ Acknowledge(p)

CallSteps ==
  \/ CreatePush \/ FailBegin \/ CreateStash \/ RegisterStash \/ CancelUpdate
  \/ \E c \in {"move", "cancel"} : UserReleases(c)

MoveNext ==
  \/ Begin \/ Retry \/ Cancel \/ CallSteps
  \/ \E s \in Stage : Claim(s)
  \/ \E p \in Projection : Execute(p) \/ Repeat(p) \/ Refuse(p) \/ Project(p) \/ Throw(p)

(* Jobs created in one millisecond may be ordered either way. *)
Clock == Tick /\ UNCHANGED moveVars

MoveSpec == LockInit /\ MoveInit /\ [][MoveNext \/ Crash \/ Clock]_<<lockVars, moveVars>>

-------------------------------------------------------------------------------
(* Properties *)

(* Every variable is typed; what executes holds its resources, and a move  *)
(* that says it checks out knows the job: claimJob and                     *)
(* advanceMoveAfterCheckout tell the checkouts apart by it.                *)
MoveTypeOK ==
  /\ status \in ACTIVE_MOVE_STATUSES \union
       {"NONE", "SUCCEEDED", "SUCCEEDED_WITH_WARNING", "FAILED", "CANCELLED"}
  /\ deleteSource \in BOOLEAN /\ target \in Checkout \union {NoParent}
  /\ job \in [Stage -> {"NONE", "QUEUED", "RUNNING", "SUCCEEDED", "NEEDS_STASH", "FAILED"}]
  /\ source \in {"present", "removed"} /\ destination \in {"other", "branch"}
  /\ faults \in 0 .. MaxFaults
  /\ \A s \in Stage : job[s] = "RUNNING" => state[s] = "HELD"
  /\ status = "CHECKING_OUT" => target # NoParent

(* As long as a move goes on it holds both worktrees and the branch,       *)
(* whatever calls, projections, repetitions and crashes interleave: what   *)
(* the stages do between two jobs is protected by nothing else.            *)
ActiveIsReserved == status \in ACTIVE_MOVE_STATUSES => state[Move] = "HELD"

(* The stages of a move never execute side by side, although those at      *)
(* different agents share no resource that would keep them apart; the      *)
(* source is removed only after the branch is checked out at the           *)
(* destination; and a move says that its destination is ready, or that it  *)
(* succeeded, only when that is so.                                        *)
DestinationFirst ==
  /\ \A s, u \in Stage : job[s] = "RUNNING" /\ job[u] = "RUNNING" => s = u
  /\ source = "removed" => destination = "branch"
  /\ status \in {"CLEANING_UP", "SUCCEEDED", "SUCCEEDED_WITH_WARNING"} => destination = "branch"
  /\ status = "SUCCEEDED" /\ deleteSource => source = "removed"
===============================================================================
