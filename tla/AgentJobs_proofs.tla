--------------------------- MODULE AgentJobs_proofs ---------------------------
(***************************************************************************)
(* The jobs of an agent keep to the rules of the operation locks: every    *)
(* step of AgentJobs is a step of OperationLocks or leaves the holders     *)
(* alone, so what is proved of the holders is true of the jobs, for every  *)
(* set of jobs and any number of crashes, restarts, lost calls and         *)
(* cancellations.                                                          *)
(*                                                                         *)
(* The jobs' own promises follow: the first completion counts, a handler   *)
(* runs once, a running process keeps its operation, and, where the        *)
(* control plane refuses no completion, a built result is not lost.        *)
(***************************************************************************)
EXTENDS AgentJobs, OperationLocks_proofs

(* The types of AgentJobs' own variables, apart from those of the holders. *)
CallsTyped ==
  /\ calls \subseteq CallType
  /\ \A c \in calls : c.kind = "claim" => c.tok \in Token

ServerTyped ==
  /\ status \in [Job -> Statuses]
  /\ jobToken \in [Job -> TokenOrNone]

AgentTyped ==
  /\ snap \in [Job -> SnapType]
  /\ task \in [Job -> TaskType]

HostTyped ==
  /\ journal \in [Job -> JournalType]
  /\ proc \subseteq Job
  /\ started \in [Job -> Nat]

OwnTypes == CallsTyped /\ ServerTyped /\ AgentTyped /\ HostTyped

-------------------------------------------------------------------------------
(* Calls *)

(* What is in a call, without the records around it.                       *)
LEMMA SeenTyped ==
  ASSUME ServerTyped, NEW j \in Job
  PROVE  Seen(j) \in SnapType
BY DEF ServerTyped, Seen, SnapType

LEMMA NoSnapTyped == NoSnap \in SnapType
BY DEF NoSnap, SnapType, TokenOrNone, Statuses

LEMMA AdvanceTyped ==
  ASSUME CallsTyped, NEW c \in calls, NEW seen \in SnapType,
         NEW pc \in {"read", "write", "release", "answer"},
         Advance(c, pc, seen)
  PROVE  CallsTyped'
<1> DEFINE d == [c EXCEPT !.pc = pc, !.seen = seen]
<1>1. c \in CallType /\ (c.kind = "claim" => c.tok \in Token)
  BY DEF CallsTyped
<1>2. d \in CallType /\ d.kind = c.kind /\ d.tok = c.tok
  BY <1>1 DEF CallType
<1>3. calls' = (calls \ {c}) \union {d}
  BY DEF Advance
<1> HIDE DEF d
<1>4. QED
  BY <1>1, <1>2, <1>3 DEF CallsTyped

LEMMA ForsakenTyped ==
  ASSUME NEW c \in CallType
  PROVE  Forsaken(c) \in CallType /\ Forsaken(c).kind = c.kind /\ Forsaken(c).tok = c.tok
BY DEF Forsaken, CallType

LEMMA CallTyped ==
  ASSUME NEW kind \in {"claim", "complete", "cancel"}, NEW j \in Job, NEW t \in TokenOrNone,
         NEW s \in Statuses, NEW clean \in BOOLEAN, NEW verified \in BOOLEAN
  PROVE  /\ Call(kind, j, t, s, clean, verified) \in CallType
         /\ Call(kind, j, t, s, clean, verified).kind = kind
         /\ Call(kind, j, t, s, clean, verified).tok = t
<1>1. (kind # "cancel") \in BOOLEAN
  OBVIOUS
<1>2. QED
  BY <1>1, NoSnapTyped DEF Call, CallType

(* Calls that end, go on or are forsaken stay typed. *)
LEMMA FewerCallsTyped ==
  ASSUME CallsTyped, calls' \subseteq calls \union {Forsaken(c) : c \in calls}
  PROVE  CallsTyped'
BY ForsakenTyped DEF CallsTyped

-------------------------------------------------------------------------------
(* The holders *)

(* A release, by whatever path the code reaches it, ends an execution or   *)
(* retires a request: no job of an agent is a move with stages.            *)
LEMMA ReleaseIsLockStep ==
  ASSUME NEW j \in Job, NEW t, Release(j, t)
  PROVE  LockNext
<1>1. Release(j, token[j])
  BY DEF Release
<1>2. Stages(j) = {}
  BY JobAssumption, NoParentAssumption DEF Stages, Job
<1>3. j \in Held \/ state[j] = "REQUESTED"
  BY DEF Release, Live, Held
<1>4. Finish(j) \/ Retire(j)
  BY <1>1, <1>2, <1>3 DEF Finish, Retire
<1>5. QED
  BY <1>4 DEF LockNext, Job

(* Every step of the protocol is a transaction of OperationLocks or leaves *)
(* the holders as they are.                                                *)
LEMMA ServeIsLockStep ==
  ASSUME CallsTyped, NEW c \in calls, Serve(c) \/ claimTargetError(c)
  PROVE  [LockNext]_lockVars
<1>1. c.job \in Job /\ (c.kind = "claim" => c.tok \in Token)
  BY DEF CallsTyped, CallType
<1>2. CASE claimQueued(c)
  BY <1>1, <1>2 DEF claimQueued, LockNext, Job
<1>3. CASE claimTargetError(c)
  BY <1>1, <1>3, ReleaseIsLockStep DEF claimTargetError
<1>4. CASE completeRelease(c)
  BY <1>1, <1>4, ReleaseIsLockStep DEF completeRelease
<1>5. CASE cancelRelease(c)
  BY <1>1, <1>5, ReleaseIsLockStep DEF cancelRelease
<1>6. CASE claimAgain(c) \/ claimRejected(c)
  BY <1>6 DEF claimAgain, claimRejected
<1>7. CASE completeRefused(c) \/ completeRead(c) \/ completeWrite(c) \/ completeAnswer(c)
  BY <1>7 DEF completeRefused, completeRead, completeWrite, completeAnswer
<1>8. CASE cancelRead(c) \/ cancelWrite(c)
  BY <1>8 DEF cancelRead, cancelWrite
<1>9. QED
  BY <1>2, <1>3, <1>4, <1>5, <1>6, <1>7, <1>8 DEF Serve

LEMMA AgentLeavesLocks ==
  ASSUME NEW j \in Job,
         \/ Executor(j) \/ preserve(j) \/ requestCancel(j) \/ reconcile(j)
         \/ jobAvailable(j) \/ jobCancelRequested(j) \/ givesUp(j)
  PROVE  UNCHANGED lockVars
<1>1. CASE Executor(j)
  BY <1>1 DEF Executor, claim, startHandler, handlerEnds, settle, report, enterRecovery,
              cleanUp, reportRecovered
<1>2. CASE preserve(j) \/ requestCancel(j) \/ reconcile(j)
  BY <1>2 DEF preserve, requestCancel, reconcile
<1>3. CASE jobAvailable(j) \/ jobCancelRequested(j) \/ givesUp(j)
  BY <1>3 DEF jobAvailable, jobCancelRequested, givesUp
<1>4. QED
  BY <1>1, <1>2, <1>3, ZenonT(40)

LEMMA StepIsLockStep ==
  ASSUME CallsTyped, [Next]_vars
  PROVE  [LockNext]_lockVars
<1>1. ASSUME NEW j \in Job, createJob(j)
      PROVE  LockNext
  BY <1>1 DEF createJob, LockNext, Job
<1>2. CASE fetch \/ startupRecovered \/ agentExits \/ agentStarts
  BY <1>2 DEF fetch, startupRecovered, agentExits, agentStarts
<1>3. CASE Faults
  BY <1>3 DEF Faults, agentStops, agentCrashes, serverRestarts, callFails,
              completionRejected, agentTimesOut, eventLost, Fault
<1>4. CASE ClockTick
  BY <1>4 DEF ClockTick, LockNext
<1>5. CASE UNCHANGED vars
  BY <1>5 DEF vars
<1>6. QED
  BY <1>1, <1>2, <1>3, <1>4, <1>5, ServeIsLockStep, AgentLeavesLocks DEF Next

-------------------------------------------------------------------------------
(* Types *)

LEMMA NewCallTyped ==
  ASSUME CallsTyped, NEW c \in CallType, c.kind = "claim" => c.tok \in Token,
         calls' = calls \union {c}
  PROVE  CallsTyped'
BY DEF CallsTyped

(* What the executor reports about a job.                                  *)
LEMMA VerdictTyped ==
  ASSUME AgentTyped, HostTyped, NEW j \in Job
  PROVE  /\ task[j].tok \in TokenOrNone
         /\ task[j].outcome \in Statuses
         /\ Verdict(j) \in Statuses
         /\ (Checkpoint(j) # "NONE") \in BOOLEAN
<1>1. task[j].tok \in TokenOrNone /\ task[j].outcome \in Statuses
  BY DEF AgentTyped, TaskType
<1>2. Checkpoint(j) \in Statuses
  BY DEF HostTyped, JournalType, Checkpoint, Statuses
<1>3. Verdict(j) \in Statuses
  BY <1>1, <1>2 DEF Verdict, Statuses, Active, Final
<1>4. QED
  BY <1>1, <1>3

LEMMA CompletionTyped ==
  ASSUME CallsTyped, NEW j \in Job, NEW s \in Statuses, NEW clean \in BOOLEAN,
         NEW verified \in BOOLEAN, task[j].tok \in TokenOrNone,
         completeJob(j, s, clean, verified)
  PROVE  CallsTyped'
BY CallTyped, NewCallTyped DEF completeJob, Send

LEMMA CallsTypedServe ==
  ASSUME CallsTyped, ServerTyped, NEW c \in calls, Serve(c) \/ claimTargetError(c)
  PROVE  CallsTyped'
<1>1. c \in CallType /\ c.job \in Job /\ c.seen \in SnapType
  BY DEF CallsTyped, CallType
<1>2. Seen(c.job) \in SnapType
  BY <1>1, SeenTyped
<1>3. CASE claimQueued(c) \/ claimAgain(c) \/ claimRejected(c) \/ claimTargetError(c)
  BY <1>3, FewerCallsTyped DEF claimQueued, claimAgain, claimRejected, claimTargetError, Drop
<1>4. CASE completeRefused(c) \/ completeAnswer(c)
  BY <1>4, FewerCallsTyped DEF completeRefused, completeAnswer, Drop
<1>5. CASE completeRead(c)
  BY <1>2, <1>5, AdvanceTyped DEF completeRead
<1>6. CASE completeWrite(c)
  BY <1>2, <1>6, AdvanceTyped DEF completeWrite
<1>7. CASE completeRelease(c)
  BY <1>1, <1>7, AdvanceTyped DEF completeRelease
<1>8. CASE cancelRead(c)
  <2>1. Advance(c, "write", Seen(c.job)) \/ Drop(c)
    BY <1>8 DEF cancelRead
  <2>2. QED
    BY <1>2, <2>1, AdvanceTyped, FewerCallsTyped DEF Drop
<1>9. CASE cancelWrite(c)
  BY <1>1, <1>9, AdvanceTyped DEF cancelWrite
<1>10. CASE cancelRelease(c)
  BY <1>10, FewerCallsTyped DEF cancelRelease, Drop
<1>11. QED
  BY <1>3, <1>4, <1>5, <1>6, <1>7, <1>8, <1>9, <1>10 DEF Serve

LEMMA NewClaimTyped ==
  ASSUME CallsTyped, NEW j \in Job, NEW t \in Token,
         calls' = calls \union {Call("claim", j, t, "NONE", TRUE, TRUE)}
  PROVE  CallsTyped'
<1> DEFINE c == Call("claim", j, t, "NONE", TRUE, TRUE)
<1>1. "NONE" \in Statuses /\ t \in TokenOrNone
  BY DEF Statuses, TokenOrNone
<1>2. c \in CallType /\ c.tok = t
  BY <1>1, NoSnapTyped DEF Call, CallType
<1> HIDE DEF c
<1>3. calls' = calls \union {c}
  BY DEF c
<1>4. QED
  BY <1>2, <1>3, NewCallTyped

LEMMA CallsTypedAgent ==
  ASSUME OwnTypes, NEW j \in Job,
         \/ Executor(j) \/ preserve(j) \/ requestCancel(j) \/ reconcile(j)
         \/ jobAvailable(j) \/ jobCancelRequested(j) \/ givesUp(j)
  PROVE  CallsTyped'
<1> USE DEF OwnTypes
<1>1. NoToken \in TokenOrNone /\ "NONE" \in Statuses /\ "CANCELLED" \in Statuses
  BY DEF TokenOrNone, Statuses, Active, Final
<1>2. CASE claim(j)
  <2>1. PICK t \in IF task[j].tok # NoToken THEN {task[j].tok} ELSE FreshTokens(j) :
          Send(Call("claim", j, t, "NONE", TRUE, TRUE))
    BY <1>2 DEF claim
  <2>2. t \in Token
    BY <2>1, VerdictTyped DEF TokenOrNone, FreshTokens
  <2>3. QED
    BY <2>1, <2>2, NewClaimTyped DEF Send
<1>3. CASE startHandler(j) \/ handlerEnds(j) \/ settle(j) \/ enterRecovery(j) \/ cleanUp(j)
  BY <1>3 DEF startHandler, handlerEnds, settle, enterRecovery, cleanUp, serverVars, CallsTyped
<1>4. CASE report(j)
  BY <1>4, VerdictTyped, CompletionTyped DEF report
<1>5. CASE reportRecovered(j)
  BY <1>5, VerdictTyped, CompletionTyped DEF reportRecovered
<1>6. CASE preserve(j)
  BY <1>6, VerdictTyped, CompletionTyped DEF preserve
<1>7. CASE requestCancel(j)
  BY <1>1, <1>7, CallTyped, NewCallTyped DEF requestCancel
<1>8. CASE reconcile(j)
  <2>1. completeUnclaimed(j) \/ UNCHANGED calls
    BY <1>8 DEF reconcile
  <2>2. QED
    BY <1>1, <2>1, CallTyped, NewCallTyped DEF completeUnclaimed, CallsTyped
<1>9. CASE jobAvailable(j) \/ jobCancelRequested(j) \/ givesUp(j)
  BY <1>9 DEF jobAvailable, jobCancelRequested, givesUp, serverVars, CallsTyped
<1>10. QED
  BY <1>2, <1>3, <1>4, <1>5, <1>6, <1>7, <1>8, <1>9 DEF Executor

LEMMA CallsTypedStep ==
  ASSUME OwnTypes, [Next]_vars
  PROVE  CallsTyped'
<1> USE DEF OwnTypes
<1>1. ASSUME NEW j \in Job, createJob(j)
      PROVE  CallsTyped'
  BY <1>1 DEF createJob, CallsTyped
<1>2. CASE fetch \/ startupRecovered \/ agentExits \/ agentStarts
  BY <1>2, FewerCallsTyped
     DEF fetch, startupRecovered, agentExits, agentStarts, serverVars, ForsakeAll
<1>3. CASE Faults
  BY <1>3, FewerCallsTyped
     DEF Faults, agentStops, agentCrashes, serverRestarts, callFails,
         completionRejected, agentTimesOut, eventLost, ForsakeAll, Drop
<1>4. CASE ClockTick \/ UNCHANGED vars
  BY <1>4 DEF ClockTick, vars, serverVars, CallsTyped
<1>5. QED
  BY <1>1, <1>2, <1>3, <1>4, CallsTypedServe, CallsTypedAgent DEF Next

LEMMA ServerTypedStep ==
  ASSUME OwnTypes, [Next]_vars
  PROVE  ServerTyped'
<1> USE DEF OwnTypes
<1>1. ASSUME NEW c \in calls, Serve(c) \/ claimTargetError(c)
      PROVE  ServerTyped'
  <2>1. c.job \in Job /\ c.status \in Statuses /\ (c.kind = "claim" => c.tok \in TokenOrNone)
    BY DEF CallsTyped, CallType, TokenOrNone
  <2>2. CASE claimQueued(c) \/ claimTargetError(c)
    BY <2>1, <2>2 DEF claimQueued, claimTargetError, ServerTyped, Statuses, Active, Final
  <2>3. CASE claimAgain(c) \/ claimRejected(c)
    BY <2>3 DEF claimAgain, claimRejected, ServerTyped
  <2>4. CASE completeRefused(c) \/ completeRead(c) \/ completeRelease(c)
    BY <2>4 DEF completeRefused, completeRead, completeRelease, ServerTyped
  <2>5. CASE completeWrite(c)
    BY <2>1, <2>5 DEF completeWrite, ServerTyped
  <2>6. CASE completeAnswer(c)
    BY <2>1, <2>6 DEF completeAnswer, ServerTyped, TokenOrNone
  <2>7. CASE cancelRead(c) \/ cancelRelease(c)
    BY <2>7 DEF cancelRead, cancelRelease, ServerTyped
  <2>8. CASE cancelWrite(c)
    BY <2>1, <2>8 DEF cancelWrite, ServerTyped, Statuses, Active, Final
  <2>9. QED
    BY <1>1, <2>2, <2>3, <2>4, <2>5, <2>6, <2>7, <2>8 DEF Serve
<1>2. ASSUME NEW j \in Job, createJob(j)
      PROVE  ServerTyped'
  BY <1>2, SMTT(30) DEF createJob, ServerTyped, Statuses, Active
<1>3. ASSUME NEW j \in Job, Executor(j) \/ preserve(j) \/ requestCancel(j)
      PROVE  ServerTyped'
  BY <1>3 DEF Executor, claim, startHandler, handlerEnds, settle, report, enterRecovery,
              cleanUp, reportRecovered, preserve, requestCancel, serverVars, ServerTyped
<1>4. ASSUME NEW j \in Job,
             reconcile(j) \/ jobAvailable(j) \/ jobCancelRequested(j) \/ givesUp(j)
      PROVE  ServerTyped'
  BY <1>4 DEF reconcile, jobAvailable, jobCancelRequested, givesUp, serverVars, ServerTyped
<1>5. CASE fetch \/ startupRecovered \/ agentExits \/ agentStarts \/ Faults
  BY <1>5 DEF fetch, startupRecovered, agentExits, agentStarts, Faults, agentStops,
              agentCrashes, serverRestarts, callFails, completionRejected, agentTimesOut,
              eventLost, Fault,
              serverVars, ServerTyped
<1>6. CASE ClockTick \/ UNCHANGED vars
  BY <1>6 DEF ClockTick, vars, serverVars, ServerTyped
<1>7. QED
  BY <1>1, <1>2, <1>3, <1>4, <1>5, <1>6 DEF Next

LEMMA HostTypedStep ==
  ASSUME OwnTypes, [Next]_vars
  PROVE  HostTyped'
<1> USE DEF OwnTypes
<1>1. ASSUME NEW j \in Job, Executor(j)
      PROVE  HostTyped'
  <2>1. task[j].tok \in TokenOrNone
    BY VerdictTyped
  <2>2. CASE startHandler(j)
    <3>1. [NoJournal EXCEPT !.tok = task[j].tok] \in JournalType
      BY <2>1 DEF NoJournal, JournalType, Statuses
    <3>2. journal' \in [Job -> JournalType]
      BY <2>2, <3>1 DEF startHandler, HostTyped
    <3>3. QED
      BY <2>2, <3>2 DEF startHandler, HostTyped
  <2>3. CASE handlerEnds(j)
    BY <2>3 DEF handlerEnds, HostTyped, JournalType, Statuses, Final
  <2>4. CASE settle(j) \/ cleanUp(j)
    <3>1. Settled(j) \/ UNCHANGED <<proc, journal>>
      BY <2>4 DEF settle, cleanUp
    <3>2. [journal EXCEPT ![j].settled = TRUE] \in [Job -> JournalType]
      BY DEF HostTyped, JournalType
    <3>3. UNCHANGED started
      BY <2>4 DEF settle, cleanUp
    <3>4. QED
      BY <3>1, <3>2, <3>3 DEF Settled, HostTyped
  <2>5. CASE claim(j) \/ report(j) \/ enterRecovery(j) \/ reportRecovered(j)
    BY <2>5 DEF claim, report, enterRecovery, reportRecovered, hostVars, HostTyped
  <2>6. QED
    BY <1>1, <2>2, <2>3, <2>4, <2>5 DEF Executor
<1>2. ASSUME NEW c \in calls, completeAnswer(c)
      PROVE  HostTyped'
  <2>1. c.job \in Job /\ NoJournal \in JournalType
    BY DEF CallsTyped, CallType, NoJournal, JournalType, TokenOrNone, Statuses
  <2>2. QED
    BY <1>2, <2>1 DEF completeAnswer, HostTyped
<1>3. ASSUME NEW c \in calls, Serve(c) \/ claimTargetError(c), ~completeAnswer(c)
      PROVE  HostTyped'
  BY <1>3 DEF Serve, claimQueued, claimTargetError, claimAgain, claimRejected, completeRefused,
              completeRead, completeRelease, completeWrite, cancelRead, cancelRelease,
              cancelWrite, hostVars, HostTyped
<1>4. ASSUME NEW j \in Job, createJob(j) \/ preserve(j) \/ requestCancel(j)
      PROVE  HostTyped'
  BY <1>4 DEF createJob, preserve, requestCancel, hostVars, HostTyped
<1>5. ASSUME NEW j \in Job,
             reconcile(j) \/ jobAvailable(j) \/ jobCancelRequested(j) \/ givesUp(j)
      PROVE  HostTyped'
  BY <1>5 DEF reconcile, jobAvailable, jobCancelRequested, givesUp, hostVars, HostTyped
<1>6. CASE fetch \/ startupRecovered \/ agentExits \/ agentStarts \/ Faults
  BY <1>6 DEF fetch, startupRecovered, agentExits, agentStarts, Faults, agentStops,
              agentCrashes, serverRestarts, callFails, completionRejected, agentTimesOut,
              eventLost, Fault,
              hostVars, HostTyped
<1>7. CASE ClockTick \/ UNCHANGED vars
  BY <1>7 DEF ClockTick, vars, hostVars, HostTyped
<1>8. QED
  BY <1>1, <1>2, <1>3, <1>4, <1>5, <1>6, <1>7 DEF Next

(* The tasks of the executor. *)
LEMMA TaskTyped ==
  ASSUME AgentTyped, NEW j \in Job, NEW t \in TaskType, SetTask(j, t)
  PROVE  task' \in [Job -> TaskType]
BY DEF AgentTyped, SetTask

LEMMA NoTaskTyped == NoTask \in TaskType
BY DEF NoTask, TaskType, TokenOrNone, Statuses

LEMMA DeadAgentTyped ==
  ASSUME AgentDies
  PROVE  AgentTyped'
BY NoTaskTyped, NoSnapTyped DEF AgentDies, AgentTyped

LEMMA UnansweredTyped ==
  ASSUME AgentTyped, NEW C, GoUnanswered(C)
  PROVE  AgentTyped'
BY NoTaskTyped, DeadAgentTyped DEF GoUnanswered, AgentTyped

(* execute, recover and cancel keep the tasks typed. *)
LEMMA ExecutorEntryTyped ==
  ASSUME AgentTyped, NEW j \in Job, NEW s \in SnapType,
         execute(j, s.tok) \/ recover(j, s) \/ cancel(j)
  PROVE  task' \in [Job -> TaskType]
<1>1. s.tok \in TokenOrNone /\ s.status \in Statuses
  BY DEF SnapType
<1>2. [NoTask EXCEPT !.pc = "queued", !.tok = s.tok] \in TaskType
  BY <1>1 DEF NoTask, TaskType, Statuses
<1>3. [NoTask EXCEPT !.pc = "rqueued", !.tok = s.tok, !.outcome = s.status] \in TaskType
  BY <1>1 DEF NoTask, TaskType
<1>4. [task[j] EXCEPT !.abort = TRUE] \in TaskType
  BY DEF AgentTyped, TaskType
<1>5. CASE execute(j, s.tok)
  BY <1>2, <1>5 DEF execute, Enqueue, AgentTyped
<1>6. CASE recover(j, s)
  BY <1>3, <1>6 DEF recover, Enqueue, AgentTyped
<1>7. CASE cancel(j)
  <2>1. EndTask(j) \/ SetTask(j, [task[j] EXCEPT !.abort = TRUE]) \/ UNCHANGED task
    BY <1>7 DEF cancel
  <2>2. QED
    BY <1>4, <2>1, NoTaskTyped, TaskTyped DEF EndTask, AgentTyped
<1>8. QED
  BY <1>5, <1>6, <1>7

LEMMA AgentTypedServe ==
  ASSUME CallsTyped, AgentTyped, NEW c \in calls, Serve(c) \/ claimTargetError(c)
  PROVE  AgentTyped'
<1>1. c.job \in Job /\ (c.kind = "claim" => c.tok \in TokenOrNone)
  BY DEF CallsTyped, CallType, TokenOrNone
<1>2. CASE claimQueued(c) \/ claimAgain(c)
  <2>1. Claimed(c) /\ UNCHANGED snap /\ c.tok \in TokenOrNone
    BY <1>1, <1>2 DEF claimQueued, claimAgain
  <2>2. [task[c.job] EXCEPT !.pc = "granted", !.tok = c.tok] \in TaskType
    BY <1>1, <2>1 DEF AgentTyped, TaskType
  <2>3. QED
    BY <1>1, <2>1, <2>2, TaskTyped DEF Claimed, AgentTyped
<1>3. CASE claimRejected(c) \/ claimTargetError(c)
  <2>1. Refused(c) /\ UNCHANGED snap
    BY <1>3 DEF claimRejected, claimTargetError
  <2>2. QED
    BY <1>1, <2>1, NoTaskTyped, TaskTyped DEF Refused, EndTask, AgentTyped
<1>4. CASE completeAnswer(c)
  BY <1>1, <1>4, NoTaskTyped, TaskTyped DEF completeAnswer, EndTask, AgentTyped
<1>5. CASE completeRefused(c)
  BY <1>5, DeadAgentTyped DEF completeRefused, agentVars, AgentTyped
<1>6. CASE completeRead(c) \/ completeWrite(c) \/ completeRelease(c)
  BY <1>6 DEF completeRead, completeWrite, completeRelease, agentVars, AgentTyped
<1>7. CASE cancelRead(c) \/ cancelWrite(c) \/ cancelRelease(c)
  BY <1>7 DEF cancelRead, cancelWrite, cancelRelease, agentVars, AgentTyped
<1>8. QED
  BY <1>2, <1>3, <1>4, <1>5, <1>6, <1>7 DEF Serve

LEMMA AgentTypedExecutor ==
  ASSUME AgentTyped, NEW j \in Job, Executor(j) \/ givesUp(j)
  PROVE  AgentTyped'
<1>1. ASSUME NEW pc \in {"claiming", "running", "settling", "reporting", "rcleaning", "rreporting"},
             NEW o \in Statuses
      PROVE  /\ [task[j] EXCEPT !.pc = pc] \in TaskType
             /\ [task[j] EXCEPT !.pc = pc, !.outcome = o] \in TaskType
  BY DEF AgentTyped, TaskType
<1>2. "CANCELLED" \in Statuses /\ "SUCCEEDED" \in Statuses
  BY DEF Statuses, Final
<1>3. CASE claim(j) \/ settle(j) \/ enterRecovery(j) \/ cleanUp(j)
  BY <1>1, <1>2, <1>3, TaskTyped DEF claim, settle, enterRecovery, cleanUp, AgentTyped
<1>4. CASE startHandler(j)
  <2>1. \/ SetTask(j, [task[j] EXCEPT !.pc = "settling", !.outcome = "CANCELLED"])
        \/ SetTask(j, [task[j] EXCEPT !.pc = "running"])
    BY <1>4 DEF startHandler
  <2>2. QED
    BY <1>1, <1>2, <1>4, <2>1, TaskTyped DEF startHandler, AgentTyped
<1>5. CASE handlerEnds(j)
  <2>1. PICK o \in {"SUCCEEDED", "CANCELLED"} :
          SetTask(j, [task[j] EXCEPT !.pc = "settling", !.outcome = o])
    BY <1>5 DEF handlerEnds
  <2>2. QED
    BY <1>1, <1>2, <1>5, <2>1, TaskTyped DEF handlerEnds, AgentTyped
<1>6. CASE report(j) \/ reportRecovered(j)
  BY <1>6 DEF report, reportRecovered, agentVars, AgentTyped
<1>7. CASE givesUp(j)
  BY <1>7, NoTaskTyped, TaskTyped DEF givesUp, EndTask, AgentTyped
<1>8. QED
  BY <1>3, <1>4, <1>5, <1>6, <1>7 DEF Executor

LEMMA ReconcileTyped ==
  ASSUME AgentTyped, NEW j \in Job, reconcile(j)
  PROVE  AgentTyped'
<1>1. snap[j] \in SnapType /\ snap' \in [Job -> SnapType]
  BY NoSnapTyped DEF reconcile, AgentTyped
<1>2. execute(j, snap[j].tok) \/ recover(j, snap[j]) \/ cancel(j) \/ UNCHANGED task
  BY DEF reconcile
<1>3. QED
  BY <1>1, <1>2, ExecutorEntryTyped DEF AgentTyped

LEMMA AgentTypedStep ==
  ASSUME OwnTypes, [Next]_vars
  PROVE  AgentTyped'
<1> USE DEF OwnTypes
<1>1. ASSUME NEW j \in Job, createJob(j) \/ requestCancel(j) \/ preserve(j)
      PROVE  AgentTyped'
  BY <1>1 DEF createJob, requestCancel, preserve, agentVars, AgentTyped
<1>2. ASSUME NEW j \in Job, jobAvailable(j) \/ jobCancelRequested(j)
      PROVE  AgentTyped'
  <2>1. (execute(j, NoSnap.tok) \/ cancel(j)) /\ UNCHANGED snap
    BY <1>2 DEF jobAvailable, jobCancelRequested, NoSnap
  <2>2. QED
    BY <2>1, NoSnapTyped, ExecutorEntryTyped DEF AgentTyped
<1>3. CASE fetch
  <2>1. \A j \in Job : Seen(j) \in SnapType
    BY SeenTyped
  <2>2. QED
    BY <1>3, <2>1, NoSnapTyped DEF fetch, AgentTyped
<1>4. CASE startupRecovered \/ agentStarts
  BY <1>4 DEF startupRecovered, agentStarts, AgentTyped
<1>5. CASE agentExits
  BY <1>5, DeadAgentTyped DEF agentExits
<1>6. CASE Faults
  <2>1. CASE agentStops
    <3>1. \A j \in Job : [task[j] EXCEPT !.abort = TRUE] \in TaskType /\ task[j] \in TaskType
      BY DEF AgentTyped, TaskType
    <3>2. \A j \in Job : task'[j] \in TaskType
      BY <2>1, <3>1, NoTaskTyped DEF agentStops
    <3>3. QED
      BY <2>1, <3>2, NoSnapTyped DEF agentStops, AgentTyped
  <2>2. CASE agentCrashes
    BY <2>2, DeadAgentTyped DEF agentCrashes
  <2>3. CASE serverRestarts
    BY <2>3, UnansweredTyped DEF serverRestarts
  <2>4. ASSUME NEW c \in calls, callFails(c) \/ agentTimesOut(c)
        PROVE  AgentTyped'
    BY <2>4, UnansweredTyped DEF callFails, agentTimesOut
  <2>5. ASSUME NEW e \in events, eventLost(e)
        PROVE  AgentTyped'
    BY <2>5 DEF eventLost, agentVars, AgentTyped
  <2>6. ASSUME NEW c \in calls, completionRejected(c)
        PROVE  AgentTyped'
    BY <2>6, NoTaskTyped DEF completionRejected, EndTask, SetTask, AgentTyped, CallsTyped, CallType
  <2>7. QED
    BY <1>6, <2>1, <2>2, <2>3, <2>4, <2>5, <2>6 DEF Faults
<1>7. CASE ClockTick \/ UNCHANGED vars
  BY <1>7 DEF ClockTick, vars, agentVars, AgentTyped
<1>8. QED
  BY <1>1, <1>2, <1>3, <1>4, <1>5, <1>6, <1>7, AgentTypedServe, AgentTypedExecutor,
     ReconcileTyped DEF Next

LEMMA OwnTypesInitially == Init => OwnTypes
BY NoSnapTyped, NoTaskTyped
   DEF Init, OwnTypes, CallsTyped, ServerTyped, AgentTyped, HostTyped, NoJournal, JournalType,
       TokenOrNone, Statuses

LEMMA OwnTypesHold == Spec => []OwnTypes
<1>1. OwnTypes /\ [Next]_vars => OwnTypes'
  BY CallsTypedStep, ServerTypedStep, AgentTypedStep, HostTypedStep DEF OwnTypes
<1>2. QED
  BY <1>1, OwnTypesInitially, PTL DEF Spec

-------------------------------------------------------------------------------
(* Theorems *)

(* The job protocol implements the operation locks: claims, completions,   *)
(* cancellations and failed targets, whatever is lost or repeated, do to   *)
(* the holders only what OperationLocks allows.                            *)
THEOREM JobsUseOperationLocks == Spec => UsesOperationLocks
<1>1. OwnTypes /\ [Next]_vars => [LockNext]_lockVars
  BY StepIsLockStep DEF OwnTypes
<1>2. Init => LockInit
  BY DEF Init
<1>3. QED
  BY <1>1, <1>2, OwnTypesHold, PTL DEF Spec, UsesOperationLocks, LockSpec

(* The records of the control plane, the agent and its disk are typed, and *)
(* every claim under way presents an execution token.                      *)
THEOREM AgentJobsTypeCorrect == Spec => []AgentJobsTypeOK
<1>1. OwnTypes /\ LockTypeOK => AgentJobsTypeOK
  BY DEF OwnTypes, CallsTyped, ServerTyped, AgentTyped, HostTyped, AgentJobsTypeOK
<1>2. QED
  BY <1>1, OwnTypesHold, JobsUseOperationLocks, LockTypeCorrect, PTL DEF UsesOperationLocks

(* Two jobs of an agent that conflict never hold their resources together, *)
(* through any crash, restart, lost or repeated call or cancellation.      *)
THEOREM JobsMutuallyExclusive == Spec => []MutualExclusion
BY JobsUseOperationLocks, MutualExclusionHolds, PTL DEF UsesOperationLocks

-------------------------------------------------------------------------------
(* No holder is orphaned *)

Created == {j \in Job : state[j] # "NONE"}

(* What the agent and the calls are about was created. *)
OnlyCreated ==
  /\ \A j \in Job : status[j] # "NONE" \/ jobToken[j] # NoToken => j \in Created
  /\ \A j \in Job : snap[j] # NoSnap \/ HasTask(j) => j \in Created
  /\ \A c \in calls : c.job \in Created
  /\ \A e \in events : e[2] \in Created

(* An acknowledgement that clears a token finds the resources released.    *)
ReleasedBeforeAnswer ==
  \A c \in calls : c.kind = "complete" /\ c.pc = "answer" /\ c.clean => state[c.job] = "RELEASED"

(* How holders move in this protocol: a slot is used once, and HELD only   *)
(* by the claim that sets the token of its job.                            *)
LEMMA RequestMoves ==
  ASSUME LockTypeOK, NEW j \in Job, createJob(j)
  PROVE  /\ state[j] = "NONE" /\ state' = [state EXCEPT ![j] = "REQUESTED"]
         /\ UNCHANGED token
BY DEF createJob, Request, Enter

LEMMA ReleaseMoves ==
  ASSUME NEW j \in Job, NEW t, Release(j, t)
  PROVE  /\ j \in Live /\ state' = [state EXCEPT ![j] = "RELEASED"]
         /\ UNCHANGED token
BY DEF Release

StateMove(j) ==
  \/ state[j] = "NONE" /\ state' = [state EXCEPT ![j] = "REQUESTED"]
  \/ state[j] = "REQUESTED" /\ state' = [state EXCEPT ![j] = "HELD"]
  \/ j \in Live /\ state' = [state EXCEPT ![j] = "RELEASED"]

LEMMA CallMoves ==
  ASSUME CallsTyped, NEW c \in calls, Serve(c) \/ claimTargetError(c)
  PROVE  UNCHANGED state \/ StateMove(c.job)
<1>1. c.job \in Job
  BY DEF CallsTyped, CallType
<1>2. CASE claimQueued(c)
  BY <1>2 DEF claimQueued, AdmitJob, Hold, StateMove
<1>3. CASE claimTargetError(c) \/ completeRelease(c) \/ cancelRelease(c)
  BY <1>1, <1>3, ReleaseMoves
     DEF claimTargetError, completeRelease, cancelRelease, lockVars, StateMove
<1>4. CASE claimAgain(c) \/ claimRejected(c) \/ completeRefused(c) \/ completeRead(c)
  BY <1>4 DEF claimAgain, claimRejected, completeRefused, completeRead, lockVars
<1>5. CASE completeWrite(c) \/ completeAnswer(c) \/ cancelRead(c) \/ cancelWrite(c)
  BY <1>5 DEF completeWrite, completeAnswer, cancelRead, cancelWrite, lockVars
<1>6. QED
  BY <1>2, <1>3, <1>4, <1>5 DEF Serve

LEMMA StateMoves ==
  ASSUME LockTypeOK, CallsTyped, [Next]_vars
  PROVE  /\ \A j \in Job : state[j] # "NONE" => state'[j] # "NONE"
         /\ \A j \in Job : state[j] = "RELEASED" => state'[j] = "RELEASED"
<1> DEFINE Moves == UNCHANGED state \/ \E j \in Job : StateMove(j)
<1>1. ASSUME NEW j \in Job, createJob(j)
      PROVE  Moves
  BY <1>1, RequestMoves DEF StateMove
<1>2. ASSUME NEW c \in calls, Serve(c) \/ claimTargetError(c)
      PROVE  Moves
  BY <1>2, CallMoves DEF CallsTyped, CallType
<1>3. ASSUME fetch \/ startupRecovered \/ agentExits \/ agentStarts \/ Faults \/ ClockTick
      PROVE  Moves
  BY <1>3 DEF fetch, startupRecovered, agentExits, agentStarts, Faults, agentStops,
              agentCrashes, serverRestarts, callFails, completionRejected, agentTimesOut,
              eventLost, Fault,
              ClockTick, Tick, lockVars
<1>4. ASSUME UNCHANGED vars
      PROVE  Moves
  BY <1>4 DEF vars, lockVars
<1>5. ASSUME NEW j \in Job,
             \/ Executor(j) \/ preserve(j) \/ requestCancel(j) \/ reconcile(j)
             \/ jobAvailable(j) \/ jobCancelRequested(j) \/ givesUp(j)
      PROVE  Moves
  BY <1>5, AgentLeavesLocks DEF lockVars
<1> HIDE DEF Moves
<1>6. Moves
  BY <1>1, <1>2, <1>3, <1>4, <1>5 DEF Next
<1>7. QED
  BY <1>6 DEF Moves, StateMove, LockTypeOK, Live, Job

(* A step that brings up only jobs of S. *)
Touches(S) ==
  /\ \A k \in Job \ S : status'[k] # "NONE" \/ jobToken'[k] # NoToken =>
                          status[k] # "NONE" \/ jobToken[k] # NoToken
  /\ \A k \in Job \ S : snap'[k] # NoSnap => snap[k] # NoSnap \/ HasTask(k)
  /\ \A k \in Job \ S : HasTask(k)' => snap[k] # NoSnap \/ HasTask(k)
  /\ \A c \in calls' : c.job \in S \/ \E d \in calls : d.job = c.job
  /\ \A e \in events' : e[2] \in S \/ e \in events

LEMMA TouchesCreated ==
  ASSUME OnlyCreated, NEW S \in SUBSET Created', Created \subseteq Created', Touches(S)
  PROVE  OnlyCreated'
BY DEF OnlyCreated, Touches

LEMMA CallTouches ==
  ASSUME OwnTypes, NEW c \in calls, Serve(c) \/ claimTargetError(c)
  PROVE  Touches({c.job})
<1> USE DEF OwnTypes
<1>1. c.job \in Job
  BY DEF CallsTyped, CallType
<1>2. CASE claimQueued(c) \/ claimAgain(c)
  BY <1>1, <1>2 DEF claimQueued, claimAgain, Claimed, Drop, SetTask, HasTask, Touches,
                    ServerTyped, AgentTyped
<1>3. CASE claimRejected(c) \/ claimTargetError(c)
  BY <1>1, <1>3 DEF claimRejected, claimTargetError, Refused, Drop, EndTask, SetTask, HasTask,
                    Touches, ServerTyped, AgentTyped
<1>4. CASE completeRefused(c)
  BY <1>4 DEF completeRefused, AgentDies, Forsaken, Drop, HasTask, NoTask, agentVars, Touches,
              CallsTyped, CallType
<1>5. CASE completeRead(c) \/ completeWrite(c) \/ completeRelease(c)
  BY <1>1, <1>5 DEF completeRead, completeWrite, completeRelease, Advance, HasTask, agentVars,
                    Touches, ServerTyped, CallsTyped, CallType
<1>6. CASE completeAnswer(c)
  BY <1>1, <1>6 DEF completeAnswer, Drop, EndTask, SetTask, HasTask, Touches, ServerTyped,
                    AgentTyped
<1>7. CASE cancelRead(c)
  <2>1. Advance(c, "write", Seen(c.job)) \/ Drop(c)
    BY <1>7 DEF cancelRead
  <2>2. [c EXCEPT !.pc = "write", !.seen = Seen(c.job)].job = c.job
    BY DEF CallsTyped, CallType
  <2>3. \A d \in calls' : d.job = c.job \/ d \in calls
    BY <2>1, <2>2 DEF Advance, Drop
  <2>4. QED
    BY <1>7, <2>3 DEF cancelRead, HasTask, agentVars, Touches
<1>8. CASE cancelWrite(c)
  <2>1. \A d \in calls' : d.job = c.job \/ d \in calls
    BY <1>8 DEF cancelWrite, Advance, CallsTyped, CallType
  <2>2. QED
    BY <1>1, <1>8, <2>1 DEF cancelWrite, HasTask, agentVars, Touches, ServerTyped
<1>9. CASE cancelRelease(c)
  <2>1. \A e \in events' : e[2] = c.job \/ e \in events
    BY <1>9 DEF cancelRelease, Publish
  <2>2. QED
    BY <1>9, <2>1 DEF cancelRelease, Drop, HasTask, agentVars, Touches
<1>10. QED
  BY <1>2, <1>3, <1>4, <1>5, <1>6, <1>7, <1>8, <1>9 DEF Serve

(* The agent's steps about a job: the job was in its tasks or its snapshot *)
(* or in an event.                                                         *)
LEMMA ExecutorTouches ==
  ASSUME OwnTypes, OnlyCreated, NEW j \in Job, Executor(j) \/ preserve(j) \/ givesUp(j)
  PROVE  j \in Created /\ Touches({j})
<1> USE DEF OwnTypes
<1>1. j \in Created
  BY DEF Executor, claim, startHandler, handlerEnds, settle, report, enterRecovery, cleanUp,
         reportRecovered, preserve, givesUp, HasTask, OnlyCreated
<1>2. CASE claim(j)
  BY <1>1, <1>2 DEF claim, Send, Call, SetTask, HasTask, Touches, AgentTyped
<1>3. CASE startHandler(j) \/ handlerEnds(j)
  BY <1>1, <1>3 DEF startHandler, handlerEnds, SetTask, HasTask, serverVars, Touches, AgentTyped
<1>4. CASE settle(j) \/ enterRecovery(j) \/ cleanUp(j) \/ givesUp(j)
  BY <1>1, <1>4 DEF settle, enterRecovery, cleanUp, givesUp, EndTask, SetTask, HasTask, serverVars,
              Touches, AgentTyped
<1>5. CASE report(j) \/ reportRecovered(j) \/ preserve(j)
  BY <1>1, <1>5 DEF report, reportRecovered, preserve, completeJob, Send, Call, HasTask, agentVars,
              Touches
<1>6. QED
  BY <1>1, <1>2, <1>3, <1>4, <1>5, SMTT(30) DEF Executor

LEMMA EventTouches ==
  ASSUME OwnTypes, OnlyCreated, NEW j \in Job, jobAvailable(j) \/ jobCancelRequested(j)
  PROVE  j \in Created /\ Touches({j})
<1> USE DEF OwnTypes
<1>1. j \in Created
  BY DEF jobAvailable, jobCancelRequested, OnlyCreated
<1>2. CASE jobAvailable(j)
  BY <1>1, <1>2 DEF jobAvailable, execute, Enqueue, HasTask, serverVars, Touches, AgentTyped
<1>3. CASE jobCancelRequested(j)
  BY <1>1, <1>3 DEF jobCancelRequested, cancel, EndTask, SetTask, HasTask, serverVars, Touches,
                    AgentTyped
<1>4. QED
  BY <1>2, <1>3

LEMMA ReconcileTouches ==
  ASSUME OwnTypes, OnlyCreated, NEW j \in Job, reconcile(j)
  PROVE  j \in Created /\ Touches({j})
<1> USE DEF OwnTypes
<1>1. j \in Created
  BY DEF reconcile, OnlyCreated
<1>2. \/ UNCHANGED task
      \/ execute(j, snap[j].tok) \/ recover(j, snap[j]) \/ cancel(j)
  BY DEF reconcile
<1>3. \A k \in Job \ {j} : task'[k] = task[k]
  BY <1>2 DEF execute, recover, cancel, Enqueue, EndTask, SetTask, AgentTyped
<1>4. UNCHANGED calls \/ completeUnclaimed(j)
  BY DEF reconcile
<1>5. \A c \in calls' : c.job = j \/ c \in calls
  BY <1>4 DEF completeUnclaimed, Call
<1>6. QED
  BY <1>1, <1>3, <1>5 DEF reconcile, HasTask, Touches, AgentTyped

(* Steps of the agent and faults that are about no job in particular.      *)
LEMMA OthersTouchNothing ==
  ASSUME OwnTypes,
         \/ startupRecovered \/ agentExits \/ agentStarts \/ Faults \/ ClockTick
         \/ UNCHANGED vars
  PROVE  Touches({})
<1> USE DEF OwnTypes
<1>1. CASE startupRecovered \/ agentExits \/ agentStarts
  BY <1>1 DEF startupRecovered, agentExits, agentStarts, AgentDies, ForsakeAll, Forsaken,
              HasTask, NoTask, serverVars, Touches, CallsTyped, CallType
<1>2. CASE agentStops
  BY <1>2 DEF agentStops, Fault, HasTask, NoTask, Touches, AgentTyped
<1>3. CASE agentCrashes
  BY <1>3 DEF agentCrashes, Fault, AgentDies, ForsakeAll, Forsaken, HasTask, NoTask, Touches,
              CallsTyped, CallType
<1>4. ASSUME NEW C, GoUnanswered(C)
      PROVE  /\ \A k \in Job : HasTask(k)' => HasTask(k)
             /\ \A k \in Job : snap'[k] # NoSnap => snap[k] # NoSnap
             /\ events' \subseteq events
  BY <1>4 DEF GoUnanswered, AgentDies, HasTask, NoTask, AgentTyped
<1>5. CASE serverRestarts
  BY <1>4, <1>5 DEF serverRestarts, Fault, Touches
<1>6. ASSUME NEW c \in calls, callFails(c) \/ agentTimesOut(c)
      PROVE  Touches({})
  <2>1. GoUnanswered({c}) /\ UNCHANGED <<status, jobToken>>
    BY <1>6 DEF callFails, agentTimesOut, Fault
  <2>2. \A d \in calls' : \E e \in calls : d.job = e.job
    BY <1>6 DEF callFails, agentTimesOut, ForsakeAll, Forsaken, CallsTyped, CallType
  <2>3. QED
    BY <1>4, <2>1, <2>2 DEF Touches
<1>7. ASSUME NEW e \in events, eventLost(e)
      PROVE  Touches({})
  BY <1>7 DEF eventLost, Fault, agentVars, HasTask, Touches
<1>8. ASSUME NEW c \in calls, completionRejected(c)
      PROVE  Touches({})
  BY <1>8 DEF completionRejected, Fault, EndTask, SetTask, Drop, HasTask, NoTask, Touches,
              AgentTyped
<1>9. CASE ClockTick \/ UNCHANGED vars
  BY <1>9 DEF ClockTick, vars, serverVars, agentVars, HasTask, Touches
<1>10. QED
  BY <1>1, <1>2, <1>3, <1>5, <1>6, <1>7, <1>8, <1>9 DEF Faults

LEMMA OnlyCreatedStep ==
  ASSUME OwnTypes, LockTypeOK, OnlyCreated, [Next]_vars
  PROVE  OnlyCreated'
<1> USE DEF OwnTypes
<1>1. Created \subseteq Created'
  BY StateMoves DEF Created
<1>2. ASSUME NEW j \in Job, createJob(j)
      PROVE  OnlyCreated'
  <2>1. j \in Created'
    BY <1>2, RequestMoves DEF Created, LockTypeOK, Job
  <2>2. Touches({j})
    BY <1>2 DEF createJob, Publish, HasTask, agentVars, Touches, ServerTyped
  <2>3. QED
    BY <1>1, <2>1, <2>2, TouchesCreated
<1>3. ASSUME NEW j \in Job, requestCancel(j)
      PROVE  OnlyCreated'
  <2>1. j \in Created /\ Touches({j})
    BY <1>3 DEF requestCancel, Call, HasTask, agentVars, Touches, OnlyCreated
  <2>2. QED
    BY <1>1, <2>1, TouchesCreated
<1>4. ASSUME NEW j \in Job,
             \/ Executor(j) \/ preserve(j) \/ givesUp(j) \/ reconcile(j)
             \/ jobAvailable(j) \/ jobCancelRequested(j)
      PROVE  OnlyCreated'
  BY <1>1, <1>4, ExecutorTouches, ReconcileTouches, EventTouches, TouchesCreated
<1>5. ASSUME NEW c \in calls, Serve(c) \/ claimTargetError(c)
      PROVE  OnlyCreated'
  BY <1>1, <1>5, CallTouches, TouchesCreated DEF OnlyCreated
<1>6. CASE fetch
  <2>1. \A j \in Job : Listed(j) => j \in Created
    BY DEF Listed, OnlyCreated, Active
  <2>2. QED
    BY <1>1, <1>6, <2>1 DEF fetch, HasTask, serverVars, OnlyCreated
<1>7. CASE startupRecovered \/ agentExits \/ agentStarts \/ Faults \/ ClockTick \/ UNCHANGED vars
  BY <1>1, <1>7, OthersTouchNothing, TouchesCreated
<1>8. QED
  BY <1>2, <1>3, <1>4, <1>5, <1>6, <1>7 DEF Next

-------------------------------------------------------------------------------
(* A token is cleared when the holder is released. *)

Answering(c) == c.kind = "complete" /\ c.pc = "answer" /\ c.clean

(* Calls that reach their answer were answering, or find the holder        *)
(* released.                                                               *)
AnswersReleased ==
  \A d \in calls' : Answering(d) =>
     \/ state'[d.job] = "RELEASED"
     \/ \E c \in calls : Answering(c) /\ c.job = d.job

LEMMA ServeAnswersReleased ==
  ASSUME LockTypeOK, OwnTypes, OnlyCreated, NEW c \in calls, Serve(c) \/ claimTargetError(c)
  PROVE  AnswersReleased
<1> USE DEF OwnTypes
<1>1. c \in CallType /\ c.job \in Job /\ c.job \in Created
  BY DEF CallsTyped, CallType, OnlyCreated
<1>2. ASSUME Drop(c)
      PROVE  AnswersReleased
  BY <1>2 DEF Drop, AnswersReleased
<1>3. CASE claimQueued(c) \/ claimAgain(c) \/ claimRejected(c) \/ claimTargetError(c)
  BY <1>2, <1>3 DEF claimQueued, claimAgain, claimRejected, claimTargetError
<1>4. CASE completeRefused(c)
  <2>1. Drop(c) \/ calls' = {Forsaken(d) : d \in calls \ {c}}
    BY <1>4 DEF completeRefused
  <2>2. QED
    BY <1>2, <2>1 DEF Forsaken, AnswersReleased, Answering, CallsTyped, CallType
<1>5. ASSUME NEW pc, NEW seen, Advance(c, pc, seen),
             pc = "answer" /\ c.clean => state'[c.job] = "RELEASED"
      PROVE  AnswersReleased
  BY <1>1, <1>5 DEF Advance, AnswersReleased, Answering, CallType
<1>6. CASE completeRead(c) \/ completeWrite(c)
  BY <1>5, <1>6 DEF completeRead, completeWrite
<1>7. CASE completeRelease(c)
  <2>1. state'[c.job] = "RELEASED"
    BY <1>1, <1>7, ReleaseMoves DEF completeRelease, lockVars, Created, Live, LockTypeOK, Job
  <2>2. QED
    BY <1>5, <1>7, <2>1 DEF completeRelease
<1>8. CASE cancelRead(c) \/ cancelWrite(c)
  BY <1>2, <1>5, <1>8 DEF cancelRead, cancelWrite
<1>9. CASE completeAnswer(c) \/ cancelRelease(c)
  BY <1>2, <1>9 DEF completeAnswer, cancelRelease
<1>10. QED
  BY <1>3, <1>4, <1>6, <1>7, <1>8, <1>9 DEF Serve

LEMMA ReleasedBeforeAnswerStep ==
  ASSUME LockTypeOK, OwnTypes, OnlyCreated, ReleasedBeforeAnswer, [Next]_vars
  PROVE  ReleasedBeforeAnswer'
<1> USE DEF OwnTypes
<1> DEFINE Begun == \A d \in calls' : d \in calls \/ d.pc = "read"
           Fewer == calls' \subseteq calls \union {Forsaken(c) : c \in calls}
<1>1. Begun => AnswersReleased
  BY DEF AnswersReleased, Answering
<1>2. Fewer => AnswersReleased
  BY DEF Forsaken, AnswersReleased, Answering, CallsTyped, CallType
<1>3. ASSUME NEW j \in Job, createJob(j) \/ requestCancel(j) \/ givesUp(j)
      PROVE  Begun
  BY <1>3 DEF createJob, requestCancel, givesUp, Call, serverVars
<1>4. ASSUME NEW j \in Job, Executor(j) \/ preserve(j)
      PROVE  Begun
  <2>1. CASE claim(j)
    BY <2>1 DEF claim, Send, Call
  <2>2. CASE startHandler(j) \/ handlerEnds(j) \/ settle(j) \/ enterRecovery(j) \/ cleanUp(j)
    BY <2>2 DEF startHandler, handlerEnds, settle, enterRecovery, cleanUp, serverVars
  <2>3. CASE report(j) \/ reportRecovered(j) \/ preserve(j)
    BY <2>3 DEF report, reportRecovered, preserve, completeJob, Send, Call
  <2>4. QED
    BY <1>4, <2>1, <2>2, <2>3 DEF Executor
<1>5. ASSUME NEW j \in Job, reconcile(j)
      PROVE  Begun
  <2>1. UNCHANGED calls \/ completeUnclaimed(j)
    BY <1>5 DEF reconcile
  <2>2. QED
    BY <2>1 DEF completeUnclaimed, Call
<1>6. ASSUME NEW j \in Job, jobAvailable(j) \/ jobCancelRequested(j)
      PROVE  Begun
  BY <1>6 DEF jobAvailable, jobCancelRequested, serverVars
<1>7. fetch \/ startupRecovered \/ agentExits \/ agentStarts => Fewer
  BY DEF fetch, startupRecovered, agentExits, agentStarts, ForsakeAll, serverVars
<1>8. ASSUME Faults
      PROVE  Fewer
  <2>1. CASE agentStops \/ agentCrashes \/ serverRestarts \/ \E e \in events : eventLost(e)
    BY <2>1 DEF agentStops, agentCrashes, serverRestarts, eventLost, ForsakeAll
  <2>2. ASSUME NEW c \in calls, callFails(c) \/ agentTimesOut(c)
        PROVE  Fewer
    BY <2>2 DEF callFails, agentTimesOut, ForsakeAll
  <2>3. ASSUME NEW c \in calls, completionRejected(c)
        PROVE  Fewer
    BY <2>3 DEF completionRejected, Drop
  <2>4. QED
    BY <1>8, <2>1, <2>2, <2>3 DEF Faults
<1>9. ClockTick \/ UNCHANGED vars => Begun
  BY DEF ClockTick, vars, serverVars
<1> HIDE DEF Begun, Fewer
<1>10. AnswersReleased
  BY <1>1, <1>2, <1>3, <1>4, <1>5, <1>6, <1>7, <1>8, <1>9, ServeAnswersReleased DEF Next
<1>11. CallsTyped'
  BY CallsTypedStep
<1>12. QED
  BY <1>10, <1>11, StateMoves
     DEF AnswersReleased, Answering, ReleasedBeforeAnswer, CallsTyped, CallType

(* Only a claim that is granted makes a holder HELD or gives it a token,   *)
(* and only an acknowledgement takes the token of a job away.              *)
LEMMA HoldersKept ==
  ASSUME LockTypeOK, OwnTypes, [Next]_vars,
         \A c \in calls : ~claimQueued(c) /\ ~completeAnswer(c)
  PROVE  /\ \A j \in Job : state'[j] = "HELD" => state[j] = "HELD"
         /\ UNCHANGED <<token, jobToken>>
<1> USE DEF OwnTypes
<1>1. ASSUME NEW j \in Job, createJob(j)
      PROVE  /\ \A k \in Job : state'[k] = "HELD" => state[k] = "HELD"
             /\ UNCHANGED <<token, jobToken>>
  BY <1>1, RequestMoves DEF createJob, LockTypeOK, Job
<1>2. ASSUME NEW c \in calls, Serve(c) \/ claimTargetError(c)
      PROVE  /\ \A k \in Job : state'[k] = "HELD" => state[k] = "HELD"
             /\ UNCHANGED <<token, jobToken>>
  <2>1. c.job \in Job
    BY DEF CallsTyped, CallType
  <2>2. CASE claimTargetError(c) \/ completeRelease(c) \/ cancelRelease(c)
    BY <2>1, <2>2, ReleaseMoves
       DEF claimTargetError, completeRelease, cancelRelease, lockVars, LockTypeOK, Job
  <2>3. CASE claimAgain(c) \/ claimRejected(c) \/ completeRefused(c) \/ completeRead(c)
    BY <2>3 DEF claimAgain, claimRejected, completeRefused, completeRead, lockVars
  <2>4. CASE completeWrite(c) \/ cancelRead(c) \/ cancelWrite(c)
    BY <2>4 DEF completeWrite, cancelRead, cancelWrite, lockVars
  <2>5. QED
    BY <1>2, <2>2, <2>3, <2>4 DEF Serve
<1>3. ASSUME NEW j \in Job,
             \/ Executor(j) \/ preserve(j) \/ requestCancel(j) \/ reconcile(j)
             \/ jobAvailable(j) \/ jobCancelRequested(j) \/ givesUp(j)
      PROVE  UNCHANGED <<state, token, jobToken>>
  <2>1. UNCHANGED jobToken
    BY <1>3 DEF Executor, claim, startHandler, handlerEnds, settle, report, enterRecovery,
                cleanUp, reportRecovered, preserve, requestCancel, reconcile, jobAvailable,
                jobCancelRequested, givesUp, serverVars
  <2>2. QED
    BY <1>3, <2>1, AgentLeavesLocks, SMTT(30) DEF lockVars
<1>4. CASE fetch \/ startupRecovered \/ agentExits \/ agentStarts \/ Faults \/ ClockTick
  BY <1>4 DEF fetch, startupRecovered, agentExits, agentStarts, Faults, agentStops,
              agentCrashes, serverRestarts, callFails, completionRejected, agentTimesOut,
              eventLost, Fault,
              ClockTick, Tick, lockVars, serverVars
<1>5. CASE UNCHANGED vars
  BY <1>5 DEF vars, lockVars, serverVars
<1>6. QED
  BY <1>1, <1>2, <1>3, <1>4, <1>5 DEF Next

LEMMA HeldIsListedStep ==
  ASSUME LockTypeOK, OwnTypes, ReleasedBeforeAnswer, HeldIsListed, [Next]_vars
  PROVE  HeldIsListed'
<1> USE DEF OwnTypes
<1>1. ASSUME NEW c \in calls, claimQueued(c)
      PROVE  HeldIsListed'
  <2>1. c.job \in Job /\ c.tok # NoToken
    BY <1>1, NoTokenAssumption DEF claimQueued, CallsTyped, CallType
  <2>2. QED
    BY <1>1, <2>1 DEF claimQueued, AdmitJob, Hold, HeldIsListed, Held, LockTypeOK, ServerTyped, Job
<1>2. ASSUME NEW c \in calls, completeAnswer(c)
      PROVE  HeldIsListed'
  <2>1. UNCHANGED <<state, token>>
    BY <1>2 DEF completeAnswer, lockVars
  <2>2. \A j \in Job : jobToken'[j] = jobToken[j] \/ (j = c.job /\ c.clean)
    BY <1>2 DEF completeAnswer, ServerTyped
  <2>3. c.clean => state[c.job] = "RELEASED"
    BY <1>2 DEF completeAnswer, IsComplete, ReleasedBeforeAnswer
  <2>4. QED
    BY <2>1, <2>2, <2>3 DEF HeldIsListed, Held, Job
<1>3. CASE \A c \in calls : ~claimQueued(c) /\ ~completeAnswer(c)
  BY <1>3, HoldersKept DEF HeldIsListed, Held, Job
<1>4. QED
  BY <1>1, <1>2, <1>3

(* No holder is orphaned by any crash, restart, lost, failed or repeated   *)
(* call or cancellation: while a holder is HELD its job carries the        *)
(* holder's token, so listJobs offers the job to the agent for cleanup.    *)
THEOREM NoHolderOrphaned == Spec => []HeldIsListed
<1> DEFINE Inv == OnlyCreated /\ ReleasedBeforeAnswer /\ HeldIsListed
<1>1. Init => Inv
  BY DEF Init, LockInit, OnlyCreated, ReleasedBeforeAnswer, HeldIsListed, HasTask, NoTask, Held, Job
<1>2. OwnTypes /\ LockTypeOK /\ Inv /\ [Next]_vars => Inv'
  BY OnlyCreatedStep, ReleasedBeforeAnswerStep, HeldIsListedStep
<1>3. Inv => HeldIsListed
  OBVIOUS
<1>4. Spec => []LockTypeOK
  BY JobsUseOperationLocks, LockTypeCorrect, PTL DEF UsesOperationLocks
<1> HIDE DEF Inv
<1>5. QED
  BY <1>1, <1>2, <1>3, <1>4, OwnTypesHold, PTL DEF Spec

-------------------------------------------------------------------------------
(* A handler runs once *)

Open == {"NONE", "QUEUED"}
Starting == {"queued", "claiming", "granted"}
Busy == {"running", "settling", "reporting", "rqueued", "rcleaning", "rreporting"}

(* What is reported of a job, now or later, is a final status.             *)
ResultsAreFinal ==
  /\ \A c \in calls : c.kind = "complete" => c.status \in Final
  /\ \A j \in Job : journal[j].done \in Final \union {"NONE"}
  /\ \A j \in Job : task[j].pc \in {"settling", "reporting"} => task[j].outcome \in Final
  /\ \A j \in Job : Recovering(j) => task[j].outcome \notin Open

(* What has a token or an execution is no longer open.                     *)
ClaimedIsPast ==
  /\ \A j \in Job : jobToken[j] # NoToken => status[j] \notin Open
  /\ \A j \in Job : snap[j].tok # NoToken => {status[j], snap[j].status} \intersect Open = {}
  /\ \A j \in Job : task[j].pc \in Busy \union {"granted"} => status[j] \notin Open
  /\ \A c \in calls : c.kind = "cancel" /\ c.seen.status = "QUEUED" => c.seen.tok = NoToken

(* An execution awaits one call at a time, and a claim only while it has   *)
(* nothing else to do.                                                     *)
AwaitsOneCall ==
  /\ \A c, d \in calls : c.awaited /\ d.awaited /\ c.tok # NoToken /\ d.tok # NoToken /\ c.job = d.job
                           => c = d
  /\ \A c \in calls : c.kind = "claim" /\ c.awaited => task[c.job].pc = "claiming"

(* A completion that has gone past the status leaves a job that is not     *)
(* running.                                                                *)
CompletedIsPast ==
  /\ \A j \in Job : status[j] = "RUNNING" => jobToken[j] # NoToken
  /\ \A j \in Created : status[j] # "NONE"
  /\ \A c \in calls : c.kind = "complete" /\ c.pc \in {"release", "answer"} =>
                        status[c.job] \notin Open \union {"RUNNING"}
  /\ \A c \in calls : c.kind = "complete" /\ c.pc = "release" => c.clean

(* A job that was begun: it is not open, and while it is RUNNING no claim  *)
(* of it is on its way, and an agent that could claim it has an execution  *)
(* of it or is about to recover it.                                        *)
Engaged(j) ==
  /\ status[j] \notin Open
  /\ task[j].pc # "granted"
  /\ status[j] = "RUNNING" =>
       /\ task[j].pc \notin Starting
       /\ session = "ready" => task[j].pc \in Busy
       /\ session = "recovering" => task[j].pc \in Busy \/ Interrupted(j)

BegunIsEngaged ==
  /\ \A j \in Job : started[j] > 0 => Engaged(j)
  /\ \A c \in calls : c.kind = "complete" /\ c.tok # NoToken => Engaged(c.job)

(* Who reports an execution, or has reported it, has ended its processes.  *)
ReportedIsOver ==
  /\ \A j \in Job : task[j].pc = "granted" => j \in Held /\ token[j] = task[j].tok
  /\ \A j \in Job : task[j].pc \in {"reporting", "rreporting"} /\ task[j].tok = token[j] => j \notin proc
  /\ \A c \in calls : c.kind = "complete" /\ c.clean /\ c.tok = token[c.job] => c.job \notin proc

-------------------------------------------------------------------------------
(* How the status, token and snapshot of a job, and the session, move.     *)

StatusMoves(j) ==
  \/ status'[j] = status[j]
  \/ status[j] = "NONE" /\ status'[j] = "QUEUED" /\ createJob(j)
  \/ status[j] = "QUEUED" /\ status'[j] = "RUNNING" /\ \E c \in calls : c.job = j /\ claimQueued(c)
  \/ status[j] = "QUEUED" /\ status'[j] = "FAILED"
  \/ status[j] \in Active /\ \E c \in calls : IsComplete(c, "write") /\ c.job = j /\ status'[j] = c.status
  \/ status'[j] \in {"CANCELLING", "CANCELLED"} /\ \E c \in calls : c.job = j /\ IsCancel(c, "write")

LEMMA StatusStep ==
  ASSUME OwnTypes, [Next]_vars, NEW k \in Job
  PROVE  StatusMoves(k)
<1> USE DEF OwnTypes
<1>1. ASSUME NEW c \in calls, Serve(c) \/ claimTargetError(c)
      PROVE  StatusMoves(k)
  <2>1. c.job \in Job
    BY DEF CallsTyped, CallType
  <2>2. CASE claimQueued(c)
    BY <2>1, <2>2 DEF claimQueued, StatusMoves, ServerTyped
  <2>3. CASE claimTargetError(c)
    BY <2>1, <2>3 DEF claimTargetError, StatusMoves, ServerTyped
  <2>4. CASE completeWrite(c)
    BY <2>1, <2>4 DEF completeWrite, StatusMoves, ServerTyped
  <2>5. CASE cancelWrite(c)
    BY <2>1, <2>5 DEF cancelWrite, StatusMoves, ServerTyped
  <2>6. CASE UNCHANGED status
    BY <2>6 DEF StatusMoves
  <2>7. QED
    BY <1>1, <2>2, <2>3, <2>4, <2>5, <2>6
       DEF Serve, claimAgain, claimRejected, completeRefused, completeRead, completeRelease,
           completeAnswer, cancelRead, cancelRelease
<1>2. ASSUME NEW j \in Job, createJob(j)
      PROVE  StatusMoves(k)
  BY <1>2 DEF createJob, StatusMoves, ServerTyped
<1>3. ASSUME NEW j \in Job, Executor(j) \/ preserve(j) \/ requestCancel(j)
      PROVE  UNCHANGED status
  BY <1>3 DEF Executor, claim, startHandler, handlerEnds, settle, report, enterRecovery,
              cleanUp, reportRecovered, preserve, requestCancel, serverVars
<1>4. ASSUME NEW j \in Job,
             reconcile(j) \/ jobAvailable(j) \/ jobCancelRequested(j) \/ givesUp(j)
      PROVE  UNCHANGED status
  BY <1>4 DEF reconcile, jobAvailable, jobCancelRequested, givesUp, serverVars
<1>5. CASE fetch \/ startupRecovered \/ agentExits \/ agentStarts \/ Faults
  BY <1>5 DEF fetch, startupRecovered, agentExits, agentStarts, Faults, agentStops,
              agentCrashes, serverRestarts, callFails, completionRejected, agentTimesOut,
              eventLost, Fault, serverVars, StatusMoves
<1>6. CASE ClockTick \/ UNCHANGED vars
  BY <1>6 DEF ClockTick, vars, serverVars, StatusMoves
<1>7. QED
  BY <1>1, <1>2, <1>3, <1>4, <1>5, <1>6 DEF Next, StatusMoves

(* The first status a completion writes stays, unless a cancellation that  *)
(* read the job before overwrites it: completions that come late, twice or *)
(* after a restart of either side change nothing.                          *)
THEOREM FirstCompletionCountsHolds == Spec => FirstCompletionCounts
<1>1. OwnTypes /\ [Next]_vars =>
        [\A j \in Job : status[j] \in Final /\ status'[j] # status[j] =>
           \E c \in calls : c.job = j /\ IsCancel(c, "write")]_vars
  BY StatusStep DEF StatusMoves, Final, Active
<1>2. QED
  BY <1>1, OwnTypesHold, PTL DEF Spec, FirstCompletionCounts

JobTokenMoves(j) ==
  \/ jobToken'[j] = jobToken[j]
  \/ \E c \in calls : c.job = j /\ claimQueued(c)
  \/ jobToken'[j] = NoToken /\ \E c \in calls : c.job = j /\ completeAnswer(c) /\ c.clean

LEMMA JobTokenStep ==
  ASSUME OwnTypes, [Next]_vars, NEW k \in Job
  PROVE  JobTokenMoves(k)
<1> USE DEF OwnTypes
<1>1. ASSUME NEW c \in calls, Serve(c) \/ claimTargetError(c)
      PROVE  JobTokenMoves(k)
  <2>1. c.job \in Job
    BY DEF CallsTyped, CallType
  <2>2. CASE claimQueued(c)
    BY <2>1, <2>2 DEF claimQueued, JobTokenMoves, ServerTyped
  <2>3. CASE completeAnswer(c)
    BY <2>1, <2>3 DEF completeAnswer, JobTokenMoves, ServerTyped
  <2>4. CASE UNCHANGED jobToken
    BY <2>4 DEF JobTokenMoves
  <2>5. QED
    BY <1>1, <2>2, <2>3, <2>4
       DEF Serve, claimAgain, claimRejected, claimTargetError, completeRefused, completeRead,
           completeWrite, completeRelease, cancelRead, cancelWrite, cancelRelease
<1>2. ASSUME NEW j \in Job, createJob(j) \/ Executor(j) \/ preserve(j) \/ requestCancel(j)
      PROVE  UNCHANGED jobToken
  BY <1>2 DEF createJob, Executor, claim, startHandler, handlerEnds, settle, report, enterRecovery,
              cleanUp, reportRecovered, preserve, requestCancel, serverVars
<1>3. ASSUME NEW j \in Job,
             reconcile(j) \/ jobAvailable(j) \/ jobCancelRequested(j) \/ givesUp(j)
      PROVE  UNCHANGED jobToken
  BY <1>3 DEF reconcile, jobAvailable, jobCancelRequested, givesUp, serverVars
<1>4. CASE fetch \/ startupRecovered \/ agentExits \/ agentStarts \/ Faults
  BY <1>4 DEF fetch, startupRecovered, agentExits, agentStarts, Faults, agentStops,
              agentCrashes, serverRestarts, callFails, completionRejected, agentTimesOut,
              eventLost, Fault, serverVars, JobTokenMoves
<1>5. CASE ClockTick \/ UNCHANGED vars
  BY <1>5 DEF ClockTick, vars, serverVars, JobTokenMoves
<1>6. QED
  BY <1>1, <1>2, <1>3, <1>4, <1>5 DEF Next, JobTokenMoves

SnapMoves(j) ==
  \/ snap'[j] = snap[j]
  \/ snap'[j] = NoSnap /\ session' \notin {"recovering", "ready"}
  \/ snap'[j] = NoSnap /\ reconcile(j)
  \/ snap'[j] \in {NoSnap, Seen(j)} /\ fetch

SessionMoves ==
  /\ session' = "ready" => session = "ready" \/ startupRecovered
  /\ session' = "recovering" => session = "recovering" \/ fetch

LEMMA SnapStep ==
  ASSUME OwnTypes, [Next]_vars, NEW k \in Job
  PROVE  SnapMoves(k) /\ SessionMoves
<1> USE DEF OwnTypes
<1>1. ASSUME AgentDies
      PROVE  SnapMoves(k) /\ SessionMoves
  BY <1>1 DEF AgentDies, SnapMoves, SessionMoves
<1>2. ASSUME UNCHANGED <<session, snap>>
      PROVE  SnapMoves(k) /\ SessionMoves
  BY <1>2 DEF SnapMoves, SessionMoves
<1>3. ASSUME NEW c \in calls, Serve(c) \/ claimTargetError(c)
      PROVE  AgentDies \/ UNCHANGED <<session, snap>>
  BY <1>3, SMTT(20) DEF Serve, claimQueued, claimTargetError, claimAgain, claimRejected, completeRefused,
              completeRead, completeWrite, completeRelease, completeAnswer, cancelRead,
              cancelWrite, cancelRelease, agentVars
<1>4. ASSUME NEW j \in Job, createJob(j) \/ Executor(j) \/ preserve(j) \/ requestCancel(j)
      PROVE  UNCHANGED <<session, snap>>
  BY <1>4 DEF createJob, Executor, claim, startHandler, handlerEnds, settle, report, enterRecovery,
              cleanUp, reportRecovered, preserve, requestCancel, agentVars
<1>5. ASSUME NEW j \in Job, jobAvailable(j) \/ jobCancelRequested(j) \/ givesUp(j)
      PROVE  UNCHANGED <<session, snap>>
  BY <1>5 DEF jobAvailable, jobCancelRequested, givesUp
<1>6. ASSUME NEW j \in Job, reconcile(j)
      PROVE  SnapMoves(k) /\ SessionMoves
  BY <1>6 DEF reconcile, AgentTyped, SnapMoves, SessionMoves
<1>7. CASE fetch
  BY <1>7 DEF fetch, SnapMoves, SessionMoves
<1>8. CASE startupRecovered \/ agentStarts
  BY <1>8 DEF startupRecovered, agentStarts, SnapMoves, SessionMoves
<1>9. CASE agentExits \/ agentCrashes
  BY <1>1, <1>9 DEF agentExits, agentCrashes
<1>10. CASE agentStops
  BY <1>10 DEF agentStops, SnapMoves, SessionMoves
<1>11. ASSUME NEW C, GoUnanswered(C)
       PROVE  AgentDies \/ UNCHANGED <<session, snap>>
  BY <1>11 DEF GoUnanswered
<1>12. CASE Faults
  BY <1>1, <1>2, <1>9, <1>10, <1>11, <1>12
     DEF Faults, serverRestarts, callFails, completionRejected, agentTimesOut, eventLost, agentVars
<1>13. CASE ClockTick \/ UNCHANGED vars
  BY <1>2, <1>13 DEF ClockTick, vars, agentVars
<1>14. QED
  BY <1>1, <1>2, <1>3, <1>4, <1>5, <1>6, <1>7, <1>8, <1>9, <1>12, <1>13 DEF Next

-------------------------------------------------------------------------------
(* How an execution moves.                                                 *)

(* An execution that ends: the agent stops, or nothing was started, or its *)
(* completion was answered or refused.                                     *)
Ends(j) ==
  \/ session' \notin {"recovering", "ready"}
  \/ task[j].pc \in {"queued", "claiming"}
  \/ \E c \in calls : c.job = j /\ c.kind = "claim" /\ c.awaited
  \/ \E c \in calls : c.job = j /\ completeAnswer(c) /\ c.clean
  \/ Rejecting

Begins(j) ==
  /\ ~HasTask(j)
  /\ \/ /\ task'[j].pc = "queued"
        /\ (session = "ready" /\ jobAvailable(j)) \/ (reconcile(j) /\ ~Interrupted(j))
     \/ /\ task'[j].pc = "rqueued" /\ reconcile(j)
        /\ snap[j].tok # NoToken /\ task'[j].tok = snap[j].tok
        /\ task'[j].outcome = snap[j].status

GoesOn(j) ==
  \/ task'[j].pc = "claiming" /\ claim(j)
  \/ task'[j].pc = "granted" /\ \E c \in calls :
        /\ c.job = j /\ c.awaited /\ task'[j].tok = c.tok
        /\ claimQueued(c) \/ claimAgain(c)
  \/ task'[j].pc = "running" /\ startHandler(j)
  \/ /\ task'[j].pc = "settling" /\ task'[j].outcome \in Final
     /\ startHandler(j) \/ handlerEnds(j)
  \/ task'[j].pc = "reporting" /\ settle(j)
  \/ task'[j].pc = "rcleaning" /\ enterRecovery(j)
  \/ task'[j].pc = "rreporting" /\ cleanUp(j)

TaskMoves(j) ==
  \/ task'[j] = task[j]
  \/ task'[j] = NoTask /\ Ends(j)
  \/ task'[j] = [task[j] EXCEPT !.abort = TRUE]
  \/ Begins(j)
  \/ GoesOn(j)

(* What stays of an execution that goes on. *)
KeepsTask(j) ==
  /\ task'[j].pc \notin {"granted", "none", "queued", "rqueued"} => task'[j].tok = task[j].tok
  /\ task'[j].pc \in {"reporting", "rcleaning", "rreporting"} => task'[j].outcome = task[j].outcome

LEMMA SameTask ==
  ASSUME NEW j \in Job, AgentTyped, task'[j] \in {task[j], NoTask, [task[j] EXCEPT !.abort = TRUE]}
  PROVE  KeepsTask(j)
BY DEF KeepsTask, AgentTyped, TaskType, NoTask

LEMMA ExecutorTaskStep ==
  ASSUME OwnTypes, NEW j \in Job, Executor(j) \/ givesUp(j)
  PROVE  /\ \A k \in Job \ {j} : task'[k] = task[k]
         /\ TaskMoves(j) /\ KeepsTask(j)
<1> USE DEF OwnTypes
<1>1. CASE claim(j)
  BY <1>1 DEF claim, SetTask, AgentTyped, TaskType, TaskMoves, GoesOn, KeepsTask
<1>2. CASE startHandler(j)
  <2>1. \/ SetTask(j, [task[j] EXCEPT !.pc = "settling", !.outcome = "CANCELLED"])
        \/ SetTask(j, [task[j] EXCEPT !.pc = "running"])
    BY <1>2 DEF startHandler
  <2>2. /\ task'[j] \in {[task[j] EXCEPT !.pc = "settling", !.outcome = "CANCELLED"],
                         [task[j] EXCEPT !.pc = "running"]}
        /\ \A k \in Job \ {j} : task'[k] = task[k]
    BY <2>1 DEF SetTask, AgentTyped
  <2>3. task[j] \in TaskType
    BY DEF AgentTyped
  <2>4. /\ task'[j].tok = task[j].tok
        /\ task'[j].pc = "running" \/ (task'[j].pc = "settling" /\ task'[j].outcome = "CANCELLED")
    BY <2>2, <2>3 DEF TaskType
  <2>5. QED
    BY <1>2, <2>2, <2>4 DEF TaskMoves, GoesOn, KeepsTask, Final
<1>3. CASE handlerEnds(j)
  <2>1. PICK o \in {"SUCCEEDED", "CANCELLED"} :
          SetTask(j, [task[j] EXCEPT !.pc = "settling", !.outcome = o])
    BY <1>3 DEF handlerEnds
  <2>2. QED
    BY <1>3, <2>1 DEF SetTask, AgentTyped, TaskType, TaskMoves, GoesOn, KeepsTask, Final
<1>4. CASE settle(j) \/ enterRecovery(j) \/ cleanUp(j)
  BY <1>4 DEF settle, enterRecovery, cleanUp, SetTask, AgentTyped, TaskType, TaskMoves, GoesOn, KeepsTask
<1>5. CASE report(j) \/ reportRecovered(j)
  BY <1>5 DEF report, reportRecovered, agentVars, TaskMoves, KeepsTask
<1>6. CASE givesUp(j)
  BY <1>6 DEF givesUp, EndTask, SetTask, NoTask, AgentTyped, TaskMoves, Ends, KeepsTask
<1>7. QED
  BY <1>1, <1>2, <1>3, <1>4, <1>5, <1>6 DEF Executor

LEMMA ServeTaskStep ==
  ASSUME OwnTypes, NEW c \in calls, Serve(c) \/ claimTargetError(c), NEW k \in Job
  PROVE  TaskMoves(k) /\ KeepsTask(k)
<1> USE DEF OwnTypes
<1>1. c.job \in Job
  BY DEF CallsTyped, CallType
<1>2. CASE claimQueued(c) \/ claimAgain(c)
  <2>1. Claimed(c)
    BY <1>2 DEF claimQueued, claimAgain
  <2>2. CASE c.awaited /\ k = c.job
    <3>1. task'[k] = [task[k] EXCEPT !.pc = "granted", !.tok = c.tok]
      BY <1>1, <2>1, <2>2 DEF Claimed, SetTask, AgentTyped
    <3>2. task'[k].pc = "granted" /\ task'[k].tok = c.tok
      BY <3>1 DEF AgentTyped, TaskType
    <3>3. QED
      BY <1>2, <2>2, <3>2 DEF TaskMoves, GoesOn, KeepsTask
  <2>3. CASE ~(c.awaited /\ k = c.job)
    BY <1>1, <2>1, <2>3, SameTask DEF Claimed, SetTask, AgentTyped, TaskMoves
  <2>4. QED
    BY <2>2, <2>3
<1>3. CASE claimRejected(c) \/ claimTargetError(c)
  <2>1. Refused(c) /\ c.kind = "claim"
    BY <1>3 DEF claimRejected, claimTargetError
  <2>2. QED
    BY <1>1, <2>1, SameTask DEF Refused, EndTask, SetTask, AgentTyped, TaskMoves, Ends
<1>4. CASE completeAnswer(c)
  BY <1>1, <1>4, SameTask DEF completeAnswer, EndTask, SetTask, AgentTyped, TaskMoves, Ends
<1>5. CASE completeRefused(c)
  BY <1>5, SameTask DEF completeRefused, AgentDies, agentVars, TaskMoves, Ends
<1>6. CASE completeRead(c) \/ completeWrite(c) \/ completeRelease(c)
  BY <1>6, SameTask DEF completeRead, completeWrite, completeRelease, agentVars, TaskMoves
<1>7. CASE cancelRead(c) \/ cancelWrite(c) \/ cancelRelease(c)
  BY <1>7, SameTask DEF cancelRead, cancelWrite, cancelRelease, agentVars, TaskMoves
<1>8. QED
  BY <1>2, <1>3, <1>4, <1>5, <1>6, <1>7 DEF Serve

LEMMA EntryTaskStep ==
  ASSUME OwnTypes, NEW j \in Job, reconcile(j) \/ jobAvailable(j) \/ jobCancelRequested(j)
  PROVE  /\ \A k \in Job \ {j} : task'[k] = task[k]
         /\ TaskMoves(j) /\ KeepsTask(j)
<1> USE DEF OwnTypes
<1>1. ASSUME cancel(j)
      PROVE  /\ \A k \in Job \ {j} : task'[k] = task[k]
             /\ TaskMoves(j) /\ KeepsTask(j)
  <2>1. \/ EndTask(j) /\ task[j].pc = "queued"
        \/ SetTask(j, [task[j] EXCEPT !.abort = TRUE])
        \/ UNCHANGED task
    BY <1>1 DEF cancel
  <2>2. QED
    BY <2>1, SameTask DEF EndTask, SetTask, AgentTyped, TaskMoves, Ends
<1>2. ASSUME UNCHANGED task
      PROVE  /\ \A k \in Job \ {j} : task'[k] = task[k]
             /\ TaskMoves(j) /\ KeepsTask(j)
  BY <1>2, SameTask DEF TaskMoves
<1>3. ASSUME NEW t \in TaskType, Enqueue(j, t)
      PROVE  (\A k \in Job \ {j} : task'[k] = task[k]) /\ task'[j] = t
  BY <1>3 DEF Enqueue, AgentTyped
<1>4. CASE jobAvailable(j)
  <2>1. [NoTask EXCEPT !.pc = "queued", !.tok = NoToken] \in TaskType
    BY NoTaskTyped DEF TaskType, NoTask
  <2>2. UNCHANGED task \/ (~HasTask(j) /\ Enqueue(j, [NoTask EXCEPT !.pc = "queued", !.tok = NoToken]))
    BY <1>4 DEF jobAvailable, execute
  <2>3. session = "ready"
    BY <1>4 DEF jobAvailable
  <2>4. QED
    BY <1>2, <1>3, <1>4, <2>1, <2>2, <2>3 DEF TaskMoves, Begins, NoTask, KeepsTask
<1>5. CASE jobCancelRequested(j)
  BY <1>1, <1>5 DEF jobCancelRequested
<1>6. CASE reconcile(j)
  <2>1. snap[j] \in SnapType
    BY DEF AgentTyped
  <2>2. \/ execute(j, snap[j].tok) /\ ~Interrupted(j)
        \/ recover(j, snap[j]) /\ snap[j].tok # NoToken
        \/ cancel(j) \/ UNCHANGED task
    BY <1>6 DEF reconcile, Interrupted
  <2>3. CASE execute(j, snap[j].tok) /\ ~Interrupted(j)
    <3>1. [NoTask EXCEPT !.pc = "queued", !.tok = snap[j].tok] \in TaskType
      BY <2>1, NoTaskTyped DEF TaskType, NoTask, SnapType
    <3>2. UNCHANGED task \/ (~HasTask(j) /\ Enqueue(j, [NoTask EXCEPT !.pc = "queued", !.tok = snap[j].tok]))
      BY <2>3 DEF execute
    <3>3. QED
      BY <1>2, <1>3, <1>6, <2>3, <3>1, <3>2 DEF TaskMoves, Begins, NoTask, KeepsTask
  <2>4. CASE recover(j, snap[j]) /\ snap[j].tok # NoToken
    <3>1. [NoTask EXCEPT !.pc = "rqueued", !.tok = snap[j].tok, !.outcome = snap[j].status] \in TaskType
      BY <2>1, NoTaskTyped DEF TaskType, NoTask, SnapType
    <3>2. \/ UNCHANGED task
          \/ /\ ~HasTask(j)
             /\ Enqueue(j, [NoTask EXCEPT !.pc = "rqueued", !.tok = snap[j].tok, !.outcome = snap[j].status])
      BY <2>4 DEF recover
    <3>3. QED
      BY <1>2, <1>3, <1>6, <2>4, <3>1, <3>2 DEF TaskMoves, Begins, NoTask, KeepsTask
  <2>5. QED
    BY <1>1, <1>2, <2>2, <2>3, <2>4
<1>7. QED
  BY <1>4, <1>5, <1>6

LEMMA OtherTaskStep ==
  ASSUME OwnTypes, NEW k \in Job,
         \/ fetch \/ startupRecovered \/ agentExits \/ agentStarts \/ Faults \/ ClockTick
         \/ UNCHANGED vars
  PROVE  TaskMoves(k) /\ KeepsTask(k)
<1> USE DEF OwnTypes
<1>1. ASSUME AgentDies
      PROVE  TaskMoves(k) /\ KeepsTask(k)
  BY <1>1, SameTask DEF AgentDies, TaskMoves, Ends
<1>2. ASSUME UNCHANGED task
      PROVE  TaskMoves(k) /\ KeepsTask(k)
  BY <1>2, SameTask DEF TaskMoves
<1>3. ASSUME NEW C, GoUnanswered(C)
      PROVE  TaskMoves(k) /\ KeepsTask(k)
  <2>1. AgentDies \/ task'[k] = task[k] \/ (task[k].pc = "claiming" /\ task'[k] = NoTask)
    BY <1>3 DEF GoUnanswered
  <2>2. QED
    BY <1>1, <2>1, SameTask DEF TaskMoves, Ends
<1>4. CASE agentStops
  BY <1>4, SameTask DEF agentStops, TaskMoves, Ends
<1>5. ASSUME NEW c \in calls, completionRejected(c)
      PROVE  TaskMoves(k) /\ KeepsTask(k)
  BY <1>5, SameTask DEF completionRejected, EndTask, SetTask, AgentTyped, TaskMoves, Ends
<1>6. CASE agentExits \/ agentCrashes
  BY <1>1, <1>6 DEF agentExits, agentCrashes
<1>7. CASE fetch \/ startupRecovered \/ agentStarts \/ ClockTick \/ UNCHANGED vars
  BY <1>2, <1>7 DEF fetch, startupRecovered, agentStarts, ClockTick, vars, agentVars
<1>8. CASE Faults
  BY <1>2, <1>3, <1>4, <1>5, <1>6, <1>8
     DEF Faults, serverRestarts, callFails, agentTimesOut, eventLost, agentVars
<1>9. QED
  BY <1>6, <1>7, <1>8

LEMMA TaskStep ==
  ASSUME OwnTypes, [Next]_vars, NEW k \in Job
  PROVE  TaskMoves(k) /\ KeepsTask(k)
<1>1. ASSUME task'[k] = task[k]
      PROVE  TaskMoves(k) /\ KeepsTask(k)
  BY <1>1, SameTask DEF TaskMoves, OwnTypes
<1>2. ASSUME NEW j \in Job, Executor(j) \/ givesUp(j) \/ reconcile(j) \/ jobAvailable(j) \/ jobCancelRequested(j)
      PROVE  TaskMoves(k) /\ KeepsTask(k)
  BY <1>1, <1>2, ExecutorTaskStep, EntryTaskStep
<1>3. ASSUME NEW j \in Job, createJob(j) \/ requestCancel(j) \/ preserve(j)
      PROVE  TaskMoves(k) /\ KeepsTask(k)
  BY <1>1, <1>3 DEF createJob, requestCancel, preserve, agentVars
<1>4. QED
  BY <1>2, <1>3, ServeTaskStep, OtherTaskStep DEF Next

-------------------------------------------------------------------------------
(* Where the calls of a step come from.                                    *)

SameCall(c, d) ==
  /\ d.kind = c.kind /\ d.job = c.job /\ d.tok = c.tok
  /\ d.status = c.status /\ d.clean = c.clean

(* A call goes on at its server, or is forsaken by the agent.              *)
Advanced(c, d) ==
  \/ d.pc = c.pc /\ d.seen = c.seen
  \/ /\ completeRead(c) /\ d.pc \in {"write", "release", "answer"}
     /\ d.pc # "write" => status[c.job] \notin Active
     /\ d.pc = "release" => c.clean
  \/ completeWrite(c) /\ (d.pc = "release" => c.clean)
  \/ completeRelease(c) /\ d.pc = "answer"
  \/ cancelRead(c) /\ d.seen = Seen(c.job)
  \/ cancelWrite(c) /\ d.seen = c.seen

Sent(d) ==
  \/ d.kind = "claim" /\ claim(d.job)
  \/ d.kind = "complete" /\ d.pc = "read" /\ d.tok = task[d.job].tok /\
       \/ report(d.job) /\ d.status = task[d.job].outcome
       \/ reportRecovered(d.job) /\ d.status = Verdict(d.job)
       \/ preserve(d.job) /\ ~d.clean /\ task[d.job].pc = "settling" /\ d.status = task[d.job].outcome
       \/ preserve(d.job) /\ ~d.clean /\ task[d.job].pc = "rcleaning" /\ d.status = Verdict(d.job)
  \/ d.kind = "complete" /\ d.pc = "read" /\ d.tok = NoToken /\ d.status = "CANCELLED" /\
       reconcile(d.job) /\ snap[d.job].status = "CANCELLING"
  \/ d.kind = "cancel" /\ d.seen = NoSnap /\ requestCancel(d.job)

ComesFrom(d) ==
  \/ \E c \in calls : SameCall(c, d) /\ Advanced(c, d)
  \/ d.job \in Job /\ Sent(d)

LEMMA OldCall ==
  ASSUME CallsTyped, NEW d \in calls \union {Forsaken(c) : c \in calls}
  PROVE  ComesFrom(d)
BY DEF CallsTyped, CallType, Forsaken, ComesFrom, SameCall, Advanced

LEMMA AdvancedCall ==
  ASSUME CallsTyped, NEW c \in calls, NEW pc, NEW seen, Advance(c, pc, seen),
         NEW d \in calls'
  PROVE  \/ ComesFrom(d)
         \/ SameCall(c, d) /\ d.pc = pc /\ d.seen = seen
BY OldCall DEF CallsTyped, CallType, Advance, SameCall

LEMMA ServeCallStep ==
  ASSUME CallsTyped, NEW c \in calls, Serve(c) \/ claimTargetError(c), NEW d \in calls'
  PROVE  ComesFrom(d)
<1>1. CASE claimQueued(c) \/ claimAgain(c) \/ claimRejected(c) \/ claimTargetError(c)
  BY <1>1, OldCall DEF claimQueued, claimAgain, claimRejected, claimTargetError, Drop
<1>2. CASE completeRefused(c) \/ completeAnswer(c) \/ cancelRelease(c)
  BY <1>2, OldCall DEF completeRefused, completeAnswer, cancelRelease, Drop
<1>3. CASE completeRead(c)
  <2>1. Advance(c, IF status[c.job] \in Active THEN "write"
                   ELSE IF c.clean THEN "release" ELSE "answer", Seen(c.job))
    BY <1>3 DEF completeRead
  <2>2. QED
    BY <1>3, <2>1, AdvancedCall DEF ComesFrom, Advanced
<1>4. CASE completeWrite(c)
  <2>1. Advance(c, IF c.clean THEN "release" ELSE "answer", Seen(c.job))
    BY <1>4 DEF completeWrite
  <2>2. QED
    BY <1>4, <2>1, AdvancedCall DEF ComesFrom, Advanced
<1>5. CASE completeRelease(c)
  <2>1. Advance(c, "answer", c.seen)
    BY <1>5 DEF completeRelease
  <2>2. QED
    BY <1>5, <2>1, AdvancedCall DEF ComesFrom, Advanced
<1>6. CASE cancelRead(c)
  <2>1. Advance(c, "write", Seen(c.job)) \/ Drop(c)
    BY <1>6 DEF cancelRead
  <2>2. QED
    BY <1>6, <2>1, AdvancedCall, OldCall DEF ComesFrom, Advanced, Drop
<1>7. CASE cancelWrite(c)
  <2>1. Advance(c, "release", c.seen)
    BY <1>7 DEF cancelWrite
  <2>2. QED
    BY <1>7, <2>1, AdvancedCall DEF ComesFrom, Advanced
<1>8. QED
  BY <1>1, <1>2, <1>3, <1>4, <1>5, <1>6, <1>7 DEF Serve

LEMMA AgentCallStep ==
  ASSUME CallsTyped, NEW d \in calls', NEW j \in Job,
         \/ Executor(j) \/ preserve(j) \/ requestCancel(j) \/ reconcile(j)
         \/ jobAvailable(j) \/ jobCancelRequested(j) \/ givesUp(j) \/ createJob(j)
  PROVE  ComesFrom(d)
<1>1. ASSUME UNCHANGED calls
      PROVE  ComesFrom(d)
  BY <1>1, OldCall
<1>2. CASE claim(j)
  <2>1. d \in calls \/ (d.job = j /\ d.kind = "claim")
    BY <1>2 DEF claim, Send, Call
  <2>2. QED
    BY <1>2, <2>1, OldCall DEF ComesFrom, Sent
<1>3. ASSUME NEW s, NEW clean, NEW verified, completeJob(j, s, clean, verified)
      PROVE  \/ d \in calls
             \/ /\ d.job = j /\ d.kind = "complete" /\ d.pc = "read"
                /\ d.tok = task[d.job].tok /\ d.status = s /\ d.clean = clean
  BY <1>3 DEF completeJob, Send, Call
<1>4. CASE report(j)
  <2>1. completeJob(j, task[j].outcome, TRUE, TRUE)
    BY <1>4 DEF report
  <2>2. QED
    BY <1>3, <1>4, <2>1, OldCall DEF ComesFrom, Sent
<1>5. CASE reportRecovered(j)
  <2>1. completeJob(j, Verdict(j), TRUE, Checkpoint(j) # "NONE")
    BY <1>5 DEF reportRecovered
  <2>2. QED
    BY <1>3, <1>5, <2>1, OldCall DEF ComesFrom, Sent
<1>6. CASE preserve(j)
  <2>1. \/ task[j].pc = "settling" /\ completeJob(j, task[j].outcome, FALSE, TRUE)
        \/ task[j].pc = "rcleaning" /\ completeJob(j, Verdict(j), FALSE, TRUE)
    BY <1>6 DEF preserve
  <2>2. QED
    BY <1>3, <1>6, <2>1, OldCall DEF ComesFrom, Sent
<1>7. CASE requestCancel(j)
  <2>1. d \in calls \/ (d.job = j /\ d.kind = "cancel" /\ d.seen = NoSnap)
    BY <1>7 DEF requestCancel, Call
  <2>2. QED
    BY <1>7, <2>1, OldCall DEF ComesFrom, Sent
<1>8. CASE reconcile(j)
  <2>1. UNCHANGED calls \/ (completeUnclaimed(j) /\ snap[j].status = "CANCELLING")
    BY <1>8 DEF reconcile
  <2>2. \/ d \in calls
        \/ /\ d.job = j /\ d.kind = "complete" /\ d.pc = "read" /\ d.tok = NoToken
           /\ d.status = "CANCELLED" /\ snap[j].status = "CANCELLING"
    BY <2>1 DEF completeUnclaimed, Call
  <2>3. QED
    BY <1>8, <2>2, OldCall DEF ComesFrom, Sent
<1>9. CASE startHandler(j) \/ handlerEnds(j) \/ settle(j) \/ enterRecovery(j) \/ cleanUp(j)
  BY <1>1, <1>9 DEF startHandler, handlerEnds, settle, enterRecovery, cleanUp, serverVars
<1>10. CASE jobAvailable(j) \/ jobCancelRequested(j) \/ givesUp(j) \/ createJob(j)
  BY <1>1, <1>10 DEF jobAvailable, jobCancelRequested, givesUp, createJob, serverVars
<1>11. QED
  BY <1>2, <1>4, <1>5, <1>6, <1>7, <1>8, <1>9, <1>10 DEF Executor

(* What is left of the calls after a fault. *)
LEMMA FaultCallStep ==
  ASSUME CallsTyped, Faults
  PROVE  calls' \subseteq calls \union {Forsaken(c) : c \in calls}
<1>1. CASE agentStops \/ agentCrashes \/ serverRestarts \/ \E e \in events : eventLost(e)
  BY <1>1 DEF agentStops, agentCrashes, serverRestarts, eventLost, ForsakeAll
<1>2. ASSUME NEW c \in calls, callFails(c) \/ agentTimesOut(c)
      PROVE  calls' \subseteq calls \union {Forsaken(d) : d \in calls}
  BY <1>2 DEF callFails, agentTimesOut, ForsakeAll
<1>3. ASSUME NEW c \in calls, completionRejected(c)
      PROVE  calls' \subseteq calls
  BY <1>3 DEF completionRejected, Drop
<1>4. QED
  BY <1>1, <1>2, <1>3 DEF Faults

LEMMA CallStep ==
  ASSUME CallsTyped, [Next]_vars, NEW d \in calls'
  PROVE  ComesFrom(d)
<1>1. CASE fetch \/ startupRecovered \/ agentExits \/ agentStarts
  BY <1>1, OldCall DEF fetch, startupRecovered, agentExits, agentStarts, ForsakeAll, serverVars
<1>2. CASE ClockTick \/ UNCHANGED vars
  BY <1>2, OldCall DEF ClockTick, vars, serverVars
<1>3. CASE Faults
  BY <1>3, FaultCallStep, OldCall
<1>4. QED
  BY <1>1, <1>2, <1>3, ServeCallStep, AgentCallStep DEF Next

-------------------------------------------------------------------------------
(* How the journal, the processes and the starts of a job move.            *)

HostMoves(j) ==
  \/ journal'[j] = journal[j] /\ (j \in proc' <=> j \in proc) /\ started'[j] = started[j]
  \/ /\ startHandler(j) /\ journal'[j].tok = task[j].tok /\ ~journal'[j].settled /\ journal'[j].done = "NONE"
     /\ \/ started'[j] = started[j] + 1 /\ task'[j].pc = "running" /\ j \in proc'
        \/ UNCHANGED <<proc, started>>
  \/ /\ handlerEnds(j) /\ journal'[j].tok = journal[j].tok /\ journal'[j].settled = journal[j].settled
     /\ journal'[j].done \in Final \union {journal[j].done}
     /\ UNCHANGED <<proc, started>>
  \/ /\ settle(j) \/ (cleanUp(j) /\ journal[j].tok = task[j].tok)
     /\ journal'[j].done = journal[j].done /\ journal'[j].tok = journal[j].tok
     /\ j \notin proc' /\ UNCHANGED started
  \/ /\ \E c \in calls : c.job = j /\ completeAnswer(c) /\ c.clean
     /\ journal'[j] = NoJournal /\ UNCHANGED <<proc, started>>

LEMMA ExecutorHostStep ==
  ASSUME OwnTypes, NEW j \in Job, Executor(j)
  PROVE  /\ HostMoves(j)
         /\ \A k \in Job \ {j} : journal'[k] = journal[k] /\ (k \in proc' <=> k \in proc) /\ started'[k] = started[k]
<1> USE DEF OwnTypes
<1>1. CASE startHandler(j)
  <2>1. \/ task'[j].pc = "running" /\ proc' = proc \union {j} /\ started' = [started EXCEPT ![j] = @ + 1]
        \/ UNCHANGED <<proc, started>>
    BY <1>1 DEF startHandler, SetTask, AgentTyped, TaskType
  <2>2. journal' = [journal EXCEPT ![j] = [NoJournal EXCEPT !.tok = task[j].tok]]
    BY <1>1 DEF startHandler
  <2>3. /\ journal'[j].tok = task[j].tok /\ ~journal'[j].settled /\ journal'[j].done = "NONE"
        /\ \A k \in Job \ {j} : journal'[k] = journal[k]
    BY <2>2 DEF NoJournal, HostTyped
  <2>4. QED
    BY <1>1, <2>1, <2>3 DEF HostMoves, HostTyped
<1>2. CASE handlerEnds(j)
  <2>1. PICK o \in {"SUCCEEDED", "CANCELLED"} :
          journal' = IF j \in Build THEN [journal EXCEPT ![j].done = o] ELSE journal
    BY <1>2 DEF handlerEnds
  <2>2. /\ journal'[j].tok = journal[j].tok /\ journal'[j].settled = journal[j].settled
        /\ journal'[j].done \in Final \union {journal[j].done}
        /\ \A k \in Job \ {j} : journal'[k] = journal[k]
    BY <2>1 DEF HostTyped, JournalType, Final
  <2>3. UNCHANGED <<proc, started>>
    BY <1>2 DEF handlerEnds
  <2>4. QED
    BY <1>2, <2>2, <2>3 DEF HostMoves
<1>3. CASE settle(j) \/ cleanUp(j)
  <2>1. UNCHANGED started
    BY <1>3 DEF settle, cleanUp
  <2>2. \/ Settled(j) /\ (settle(j) \/ (cleanUp(j) /\ journal[j].tok = task[j].tok))
        \/ UNCHANGED <<proc, journal>>
    BY <1>3 DEF settle, cleanUp
  <2>3. ASSUME Settled(j)
        PROVE  /\ journal'[j].done = journal[j].done /\ journal'[j].tok = journal[j].tok
               /\ j \notin proc'
               /\ \A k \in Job \ {j} : journal'[k] = journal[k] /\ (k \in proc' <=> k \in proc)
    BY <2>3 DEF Settled, HostTyped, JournalType
  <2>4. QED
    BY <2>1, <2>2, <2>3 DEF HostMoves
<1>4. CASE claim(j) \/ report(j) \/ enterRecovery(j) \/ reportRecovered(j)
  BY <1>4 DEF claim, report, enterRecovery, reportRecovered, hostVars, HostMoves
<1>5. QED
  BY <1>1, <1>2, <1>3, <1>4 DEF Executor

LEMMA HostStep ==
  ASSUME OwnTypes, [Next]_vars, NEW k \in Job
  PROVE  HostMoves(k)
<1> USE DEF OwnTypes
<1>1. ASSUME UNCHANGED hostVars
      PROVE  HostMoves(k)
  BY <1>1 DEF hostVars, HostMoves
<1>2. ASSUME NEW j \in Job, Executor(j)
      PROVE  HostMoves(k)
  BY <1>2, ExecutorHostStep DEF HostMoves
<1>3. ASSUME NEW c \in calls, completeAnswer(c)
      PROVE  HostMoves(k)
  <2>1. c.job \in Job
    BY DEF CallsTyped, CallType
  <2>2. /\ journal'[k] = journal[k] \/ (c.job = k /\ c.clean /\ journal'[k] = NoJournal)
        /\ UNCHANGED <<proc, started>>
    BY <1>3, <2>1 DEF completeAnswer, HostTyped
  <2>3. QED
    BY <1>3, <2>2 DEF HostMoves
<1>4. ASSUME NEW c \in calls, Serve(c) \/ claimTargetError(c), ~completeAnswer(c)
      PROVE  UNCHANGED hostVars
  BY <1>4 DEF Serve, claimQueued, claimTargetError, claimAgain, claimRejected, completeRefused,
              completeRead, completeRelease, completeWrite, cancelRead, cancelRelease,
              cancelWrite
<1>5. ASSUME NEW j \in Job, createJob(j) \/ preserve(j) \/ requestCancel(j)
      PROVE  UNCHANGED hostVars
  BY <1>5 DEF createJob, preserve, requestCancel
<1>6. ASSUME NEW j \in Job,
             reconcile(j) \/ jobAvailable(j) \/ jobCancelRequested(j) \/ givesUp(j)
      PROVE  UNCHANGED hostVars
  BY <1>6 DEF reconcile, jobAvailable, jobCancelRequested, givesUp
<1>7. fetch \/ startupRecovered \/ agentExits \/ agentStarts \/ Faults => UNCHANGED hostVars
  BY DEF fetch, startupRecovered, agentExits, agentStarts, Faults, agentStops,
         agentCrashes, serverRestarts, callFails, completionRejected, agentTimesOut,
         eventLost, Fault
<1>8. ClockTick \/ UNCHANGED vars => UNCHANGED hostVars
  BY DEF ClockTick, vars
<1>9. QED
  BY <1>1, <1>2, <1>3, <1>4, <1>5, <1>6, <1>7, <1>8 DEF Next

-------------------------------------------------------------------------------
(* Results, and what is past *)

LEMMA PastStays ==
  ASSUME OwnTypes, ResultsAreFinal, [Next]_vars, NEW k \in Job, status[k] \notin Open
  PROVE  status'[k] \notin Open
BY StatusStep DEF StatusMoves, ResultsAreFinal, IsComplete, Open, Final, Active

LEMMA VerdictIsFinal ==
  ASSUME OwnTypes, ResultsAreFinal, NEW j \in Job, Recovering(j)
  PROVE  Verdict(j) \in Final
<1>1. task[j].outcome \in {"RUNNING", "CANCELLING"} \union Final
  BY DEF OwnTypes, AgentTyped, TaskType, Statuses, Active, ResultsAreFinal, Open
<1>2. Checkpoint(j) \in Final \union {"NONE"}
  BY DEF Checkpoint, ResultsAreFinal
<1>3. QED
  BY <1>1, <1>2 DEF Verdict, Final

LEMMA ResultsStep ==
  ASSUME OwnTypes, ResultsAreFinal, ClaimedIsPast, [Next]_vars
  PROVE  ResultsAreFinal'
<1>1. ASSUME NEW d \in calls', d.kind = "complete"
      PROVE  d.status \in Final
  <2>1. ASSUME d.job \in Job, Sent(d)
        PROVE  d.status \in Final
    <3>1. task[d.job].pc \in {"reporting", "settling"} => task[d.job].outcome \in Final
      BY <2>1 DEF ResultsAreFinal
    <3>2. task[d.job].pc \in {"rcleaning", "rreporting"} => Verdict(d.job) \in Final
      BY <2>1, VerdictIsFinal DEF Recovering
    <3>3. QED
      BY <1>1, <2>1, <3>1, <3>2 DEF Sent, report, reportRecovered, Final
  <2>2. QED
    BY <1>1, <2>1, CallStep DEF ComesFrom, SameCall, ResultsAreFinal, OwnTypes
<1>2. ASSUME NEW j \in Job
      PROVE  journal'[j].done \in Final \union {"NONE"}
  BY HostStep DEF HostMoves, ResultsAreFinal, NoJournal
<1>3. ASSUME NEW j \in Job
      PROVE  /\ task'[j].pc \in {"settling", "reporting"} => task'[j].outcome \in Final
             /\ task'[j].pc \in {"rqueued", "rcleaning", "rreporting"} => task'[j].outcome \notin Open
  <2>1. TaskMoves(j) /\ KeepsTask(j)
    BY TaskStep
  <2>2. CASE Begins(j)
    BY <2>2 DEF Begins, ClaimedIsPast
  <2>3. CASE GoesOn(j)
    BY <2>1, <2>3 DEF GoesOn, KeepsTask, settle, enterRecovery, cleanUp, ResultsAreFinal, Recovering
  <2>4. CASE task'[j] \in {task[j], NoTask, [task[j] EXCEPT !.abort = TRUE]}
    BY <2>4 DEF NoTask, ResultsAreFinal, Recovering, OwnTypes, AgentTyped, TaskType
  <2>5. QED
    BY <2>1, <2>2, <2>3, <2>4 DEF TaskMoves
<1>4. QED
  BY <1>1, <1>2, <1>3 DEF ResultsAreFinal, Recovering

LEMMA ClaimedIsPastStep ==
  ASSUME OwnTypes, ResultsAreFinal, ClaimedIsPast, [Next]_vars
  PROVE  ClaimedIsPast'
<1>1. ASSUME NEW c \in calls, claimQueued(c)
      PROVE  status'[c.job] = "RUNNING"
  BY <1>1 DEF claimQueued, OwnTypes, CallsTyped, CallType, ServerTyped
<1>2. ASSUME NEW j \in Job, jobToken'[j] # NoToken
      PROVE  status'[j] \notin Open
  BY <1>1, <1>2, JobTokenStep, PastStays DEF JobTokenMoves, ClaimedIsPast, Open
<1>3. ASSUME NEW j \in Job, snap'[j].tok # NoToken
      PROVE  status'[j] \notin Open /\ snap'[j].status \notin Open
  BY <1>3, SnapStep, PastStays DEF SnapMoves, Seen, NoSnap, ClaimedIsPast
<1>4. ASSUME NEW j \in Job, task'[j].pc \in Busy \union {"granted"}
      PROVE  status'[j] \notin Open
  <2>1. TaskMoves(j)
    BY TaskStep
  <2>2. CASE Begins(j)
    BY <1>4, <2>2, PastStays DEF Begins, ClaimedIsPast, Busy
  <2>3. CASE task'[j].pc = "granted" /\ \E c \in calls : c.job = j /\ (claimQueued(c) \/ claimAgain(c))
    BY <1>1, <2>3, PastStays DEF claimAgain, Open
  <2>4. CASE task[j].pc \in Busy \union {"granted"}
    BY <2>4, PastStays, SMTT(20) DEF ClaimedIsPast
  <2>5. CASE GoesOn(j)
    BY <1>4, <2>3, <2>4, <2>5
       DEF GoesOn, Busy, startHandler, handlerEnds, settle, enterRecovery, cleanUp
  <2>6. CASE task'[j] \in {task[j], NoTask, [task[j] EXCEPT !.abort = TRUE]}
    BY <1>4, <2>4, <2>6 DEF NoTask, Busy, OwnTypes, AgentTyped, TaskType
  <2>7. QED
    BY <2>1, <2>2, <2>5, <2>6 DEF TaskMoves
<1>5. ASSUME NEW d \in calls', d.kind = "cancel", d.seen.status = "QUEUED"
      PROVE  d.seen.tok = NoToken
  <2>1. ASSUME NEW j \in Job, status[j] = "QUEUED"
        PROVE  jobToken[j] = NoToken
    BY <2>1 DEF ClaimedIsPast, Open
  <2>2. ASSUME NEW c \in calls, SameCall(c, d), Advanced(c, d)
        PROVE  d.seen = c.seen \/ d.seen = Seen(c.job)
    BY <1>5, <2>2 DEF SameCall, Advanced, completeRead, completeWrite, completeRelease, IsComplete
  <2>3. CASE \E c \in calls : SameCall(c, d) /\ Advanced(c, d)
    <3>1. PICK c \in calls : SameCall(c, d) /\ (d.seen = c.seen \/ d.seen = Seen(c.job))
      BY <2>2, <2>3
    <3>2. c.kind = "cancel" /\ c.job \in Job
      BY <1>5, <3>1 DEF SameCall, OwnTypes, CallsTyped, CallType
    <3>3. CASE d.seen = c.seen
      BY <1>5, <3>2, <3>3 DEF ClaimedIsPast
    <3>4. CASE d.seen = Seen(c.job)
      BY <1>5, <2>1, <3>2, <3>4 DEF Seen
    <3>5. QED
      BY <3>1, <3>3, <3>4
  <2>4. QED
    BY <1>5, <2>3, CallStep DEF ComesFrom, Sent, NoSnap, OwnTypes
<1>6. QED
  BY <1>2, <1>3, <1>4, <1>5 DEF ClaimedIsPast

-------------------------------------------------------------------------------
(* One awaited call at a time                                              *)

KeepsClaiming == \A k \in Job : task[k].pc = "claiming" => task'[k].pc = "claiming"

(* No call is sent, and no execution that waits for a claim is disturbed.  *)
LEMMA NothingSent ==
  ASSUME CallsTyped, AwaitsOneCall, calls' \subseteq calls \union {Forsaken(c) : c \in calls},
         \A d \in calls' : d.kind = "claim" /\ d.awaited =>
            (task[d.job].pc = "claiming" => task'[d.job].pc = "claiming")
  PROVE  AwaitsOneCall'
<1>1. \A d \in calls' : d.awaited => d \in calls
  BY DEF Forsaken, CallsTyped, CallType
<1>2. QED
  BY <1>1 DEF AwaitsOneCall, CallsTyped, CallType

LEMMA OthersLeaveClaims ==
  ASSUME OwnTypes, NEW j \in Job,
         \/ startHandler(j) \/ handlerEnds(j) \/ settle(j) \/ enterRecovery(j) \/ cleanUp(j)
         \/ givesUp(j) \/ createJob(j) \/ jobAvailable(j) \/ jobCancelRequested(j)
         \/ (reconcile(j) /\ UNCHANGED calls)
  PROVE  KeepsClaiming /\ UNCHANGED calls
<1> USE DEF OwnTypes
<1>1. CASE startHandler(j) \/ handlerEnds(j) \/ settle(j) \/ enterRecovery(j) \/ cleanUp(j) \/ givesUp(j)
  <2>1. \A k \in Job \ {j} : task'[k] = task[k]
    BY <1>1, ExecutorTaskStep, ZenonT(30) DEF Executor
  <2>2. task[j].pc # "claiming" /\ UNCHANGED calls
    BY <1>1 DEF startHandler, handlerEnds, settle, enterRecovery, cleanUp, givesUp, serverVars
  <2>3. QED
    BY <2>1, <2>2 DEF KeepsClaiming
<1>2. CASE createJob(j)
  BY <1>2 DEF createJob, agentVars, KeepsClaiming
<1>3. ASSUME cancel(j)
      PROVE  KeepsClaiming
  BY <1>3 DEF cancel, EndTask, SetTask, AgentTyped, TaskType, KeepsClaiming
<1>4. ASSUME NEW s, execute(j, s) \/ recover(j, s)
      PROVE  KeepsClaiming
  BY <1>4 DEF execute, recover, Enqueue, HasTask, AgentTyped, KeepsClaiming
<1>5. CASE jobAvailable(j) \/ jobCancelRequested(j)
  BY <1>3, <1>4, <1>5 DEF jobAvailable, jobCancelRequested, serverVars
<1>6. CASE reconcile(j) /\ UNCHANGED calls
  <2>1. execute(j, snap[j].tok) \/ recover(j, snap[j]) \/ cancel(j) \/ UNCHANGED task
    BY <1>6 DEF reconcile
  <2>2. QED
    BY <1>3, <1>4, <1>6, <2>1 DEF KeepsClaiming
<1>7. QED
  BY <1>1, <1>2, <1>5, <1>6, ZenonT(30)

LEMMA ServeAwaits ==
  ASSUME OwnTypes, AwaitsOneCall, NEW c \in calls, Serve(c) \/ claimTargetError(c)
  PROVE  AwaitsOneCall'
<1> USE DEF OwnTypes
<1>1. c.job \in Job /\ c \in CallType /\ (c.kind = "claim" => c.tok # NoToken)
  BY NoTokenAssumption DEF CallsTyped, CallType
<1>2. ASSUME Drop(c), c.awaited => c.tok # NoToken,
             \A k \in Job : task'[k] = task[k] \/ (k = c.job /\ c.awaited)
      PROVE  AwaitsOneCall'
  <2>1. ASSUME NEW d \in calls', d.kind = "claim", d.awaited
        PROVE  task'[d.job] = task[d.job]
    <3>1. d \in calls /\ d # c /\ d.job \in Job /\ d.tok # NoToken
      BY <1>2, <2>1, NoTokenAssumption DEF Drop, CallsTyped, CallType
    <3>2. ~(d.job = c.job /\ c.awaited)
      BY <1>2, <2>1, <3>1 DEF AwaitsOneCall
    <3>3. QED
      BY <1>2, <3>1, <3>2
  <2>2. QED
    BY <1>2, <2>1, NothingSent DEF Drop
<1>3. CASE claimQueued(c) \/ claimAgain(c)
  BY <1>1, <1>2, <1>3 DEF claimQueued, claimAgain, Claimed, SetTask, AgentTyped
<1>4. CASE claimRejected(c) \/ claimTargetError(c)
  BY <1>1, <1>2, <1>4 DEF claimRejected, claimTargetError, Refused, EndTask, SetTask, AgentTyped
<1>5. ASSUME UNCHANGED task, calls' \subseteq calls
      PROVE  AwaitsOneCall'
  BY <1>5 DEF AwaitsOneCall
<1>6. CASE completeAnswer(c)
  <2>1. CASE c.awaited /\ c.clean /\ c.tok # NoToken
    BY <1>1, <1>2, <1>6, <2>1 DEF completeAnswer, EndTask, SetTask, AgentTyped
  <2>2. CASE ~(c.awaited /\ c.clean /\ c.tok # NoToken)
    BY <1>5, <1>6, <2>2 DEF completeAnswer, Drop
  <2>3. QED
    BY <2>1, <2>2
<1>7. CASE completeRefused(c)
  <2>1. CASE calls' = {Forsaken(d) : d \in calls \ {c}}
    BY <2>1 DEF Forsaken, AwaitsOneCall, CallsTyped, CallType
  <2>2. CASE Drop(c) /\ UNCHANGED agentVars
    BY <1>5, <2>2 DEF Drop, agentVars
  <2>3. QED
    BY <1>7, <2>1, <2>2 DEF completeRefused
<1>8. ASSUME NEW pc, NEW seen, Advance(c, pc, seen), c.kind # "claim", UNCHANGED task
      PROVE  AwaitsOneCall'
  <2> DEFINE e == [c EXCEPT !.pc = pc, !.seen = seen]
  <2>1. e.job = c.job /\ e.kind = c.kind /\ e.tok = c.tok /\ e.awaited = c.awaited
    BY <1>1 DEF CallType
  <2>2. calls' = (calls \ {c}) \union {e}
    BY <1>8 DEF Advance
  <2> HIDE DEF e
  <2>3. ASSUME NEW d \in calls'
        PROVE  (d \in calls /\ d # c) \/ d = e
    BY <2>2
  <2>4. ASSUME NEW d1 \in calls', NEW d2 \in calls', d1.awaited, d2.awaited,
               d1.tok # NoToken, d2.tok # NoToken, d1.job = d2.job
        PROVE  d1 = d2
    BY <2>1, <2>3, <2>4 DEF AwaitsOneCall
  <2>5. ASSUME NEW d \in calls', d.kind = "claim", d.awaited
        PROVE  task'[d.job].pc = "claiming"
    BY <1>8, <2>1, <2>3, <2>5 DEF AwaitsOneCall
  <2>6. QED
    BY <2>4, <2>5 DEF AwaitsOneCall
<1>9. CASE completeRead(c) \/ completeWrite(c) \/ completeRelease(c)
  BY <1>8, <1>9 DEF completeRead, completeWrite, completeRelease, IsComplete, agentVars
<1>10. CASE cancelRead(c) \/ cancelWrite(c) \/ cancelRelease(c)
  BY <1>5, <1>8, <1>10 DEF cancelRead, cancelWrite, cancelRelease, IsCancel, Drop, agentVars
<1>11. QED
  BY <1>3, <1>4, <1>6, <1>7, <1>9, <1>10 DEF Serve

LEMMA SendAwaits ==
  ASSUME OwnTypes, AwaitsOneCall, NEW j \in Job,
         \/ claim(j) \/ report(j) \/ reportRecovered(j) \/ preserve(j) \/ requestCancel(j)
         \/ reconcile(j)
  PROVE  AwaitsOneCall'
<1> USE DEF OwnTypes
<1>1. CASE claim(j)
  <2>1. PICK t : Send(Call("claim", j, t, "NONE", TRUE, TRUE))
    BY <1>1 DEF claim
  <2>2. task'[j].pc = "claiming" /\ \A k \in Job \ {j} : task'[k] = task[k]
    BY <1>1 DEF claim, SetTask, AgentTyped, TaskType
  <2> DEFINE e == Call("claim", j, t, "NONE", TRUE, TRUE)
  <2>3. e.job = j /\ calls' = calls \union {e} /\ ~Awaiting(j)
    BY <2>1 DEF Send, Call
  <2> HIDE DEF e
  <2>4. ASSUME NEW d1 \in calls', NEW d2 \in calls', d1.awaited, d2.awaited,
               d1.tok # NoToken, d2.tok # NoToken, d1.job = d2.job
        PROVE  d1 = d2
    BY <2>3, <2>4 DEF AwaitsOneCall, Awaiting
  <2>5. ASSUME NEW d \in calls', d.kind = "claim", d.awaited
        PROVE  task'[d.job].pc = "claiming"
    BY <2>2, <2>3, <2>5 DEF AwaitsOneCall, CallsTyped, CallType
  <2>6. QED
    BY <2>4, <2>5 DEF AwaitsOneCall
<1>2. ASSUME NEW s, NEW clean, NEW verified, completeJob(j, s, clean, verified), UNCHANGED task
      PROVE  AwaitsOneCall'
  BY <1>2 DEF completeJob, Send, Call, Awaiting, AwaitsOneCall
<1>3. CASE report(j) \/ reportRecovered(j) \/ preserve(j)
  BY <1>2, <1>3 DEF report, reportRecovered, preserve, agentVars
<1>4. CASE requestCancel(j)
  BY <1>4 DEF requestCancel, Call, AwaitsOneCall, agentVars
<1>5. CASE reconcile(j) /\ UNCHANGED calls
  BY <1>5, OthersLeaveClaims, NothingSent DEF KeepsClaiming, CallsTyped, CallType
<1>6. CASE reconcile(j) /\ ~UNCHANGED calls
  <2>1. completeUnclaimed(j) /\ UNCHANGED task
    BY <1>6 DEF reconcile
  <2>2. QED
    BY <2>1 DEF completeUnclaimed, Call, AwaitsOneCall
<1>7. QED
  BY <1>1, <1>3, <1>4, <1>5, <1>6

LEMMA FaultAwaits ==
  ASSUME OwnTypes, AwaitsOneCall, Faults
  PROVE  AwaitsOneCall'
<1> USE DEF OwnTypes
<1>1. calls' \subseteq calls \union {Forsaken(c) : c \in calls}
  BY FaultCallStep
<1>2. ASSUME calls' \subseteq {Forsaken(c) : c \in calls}
      PROVE  AwaitsOneCall'
  BY <1>2 DEF Forsaken, AwaitsOneCall, CallsTyped, CallType
<1>3. CASE agentCrashes \/ serverRestarts
  BY <1>2, <1>3 DEF agentCrashes, serverRestarts, ForsakeAll, CallsTyped, CallType
<1>4. CASE agentStops
  <2>1. KeepsClaiming
    BY <1>4 DEF agentStops, KeepsClaiming, AgentTyped, TaskType
  <2>2. QED
    BY <1>1, <2>1, NothingSent DEF KeepsClaiming, CallsTyped, CallType, Forsaken
<1>5. ASSUME NEW e \in events, eventLost(e)
      PROVE  AwaitsOneCall'
  BY <1>1, <1>5, NothingSent DEF eventLost, agentVars
<1>6. ASSUME NEW c \in calls, completionRejected(c)
      PROVE  AwaitsOneCall'
  <2>1. \A k \in Job : task[k].pc = "claiming" => task'[k] = task[k]
    BY <1>6 DEF completionRejected, EndTask, SetTask, AgentTyped
  <2>2. calls' \subseteq calls
    BY <1>6 DEF completionRejected, Drop
  <2>3. QED
    BY <2>1, <2>2, NothingSent DEF CallsTyped, CallType
<1>7. ASSUME NEW c \in calls, callFails(c) \/ agentTimesOut(c)
      PROVE  AwaitsOneCall'
  <2>1. CASE AwaitedByReconciliation(c)
    BY <1>2, <1>7, <2>1 DEF callFails, agentTimesOut, ForsakeAll, CallsTyped, CallType
  <2>2. CASE ~AwaitedByReconciliation(c)
    <3>1. ASSUME NEW d \in calls', d.kind = "claim", d.awaited, task[d.job].pc = "claiming"
          PROVE  task'[d.job].pc = "claiming"
      <4>1. d \in calls /\ d # c /\ d.job \in Job /\ d.tok # NoToken
        BY <1>7, <2>2, <3>1, NoTokenAssumption DEF callFails, agentTimesOut, Forsaken, CallsTyped, CallType
      <4>2. c.awaited => c.tok # NoToken
        BY <2>2 DEF AwaitedByReconciliation
      <4>3. ~(c.job = d.job /\ c.awaited)
        BY <3>1, <4>1, <4>2 DEF AwaitsOneCall
      <4>4. GoUnanswered({c})
        BY <1>7 DEF callFails, agentTimesOut
      <4>5. QED
        BY <2>2, <3>1, <4>1, <4>3, <4>4 DEF GoUnanswered
    <3>2. QED
      BY <1>1, <3>1, NothingSent
  <2>3. QED
    BY <2>1, <2>2
<1>8. QED
  BY <1>3, <1>4, <1>5, <1>6, <1>7 DEF Faults

LEMMA AwaitsStep ==
  ASSUME OwnTypes, AwaitsOneCall, [Next]_vars
  PROVE  AwaitsOneCall'
<1> USE DEF OwnTypes
<1>1. CASE fetch \/ startupRecovered \/ agentStarts \/ ClockTick \/ UNCHANGED vars
  BY <1>1 DEF fetch, startupRecovered, agentStarts, ClockTick, vars, agentVars, serverVars, AwaitsOneCall
<1>2. CASE agentExits
  <2>1. calls' \subseteq {Forsaken(c) : c \in calls}
    BY <1>2 DEF agentExits, ForsakeAll, CallsTyped, CallType
  <2>2. QED
    BY <2>1 DEF Forsaken, AwaitsOneCall, CallsTyped, CallType
<1>3. ASSUME NEW j \in Job,
             \/ startHandler(j) \/ handlerEnds(j) \/ settle(j) \/ enterRecovery(j) \/ cleanUp(j)
             \/ givesUp(j) \/ createJob(j) \/ jobAvailable(j) \/ jobCancelRequested(j)
      PROVE  AwaitsOneCall'
  BY <1>3, OthersLeaveClaims, NothingSent DEF KeepsClaiming, CallsTyped, CallType
<1>4. QED
  BY <1>1, <1>2, <1>3, ServeAwaits, SendAwaits, FaultAwaits DEF Next, Executor

-------------------------------------------------------------------------------
(* Completions and the status                                              *)

LEMMA NewlyCreated ==
  ASSUME LockTypeOK, OwnTypes, OnlyCreated, [Next]_vars, NEW k \in Job, state[k] = "NONE", state'[k] # "NONE"
  PROVE  createJob(k)
<1> USE DEF OwnTypes
<1>1. ASSUME NEW j \in Job, createJob(j)
      PROVE  createJob(k)
  <2>1. state'[k] = state[k] \/ k = j
    BY <1>1 DEF createJob, Request
  <2>2. QED
    BY <1>1, <2>1
<1>2. ASSUME NEW c \in calls, Serve(c) \/ claimTargetError(c)
      PROVE  FALSE
  <2>1. c.job \in Created
    BY DEF OnlyCreated
  <2>2. state[c.job] # "NONE"
    BY <2>1 DEF Created
  <2>3. UNCHANGED state \/ StateMove(c.job)
    BY <1>2, CallMoves
  <2>4. QED
    BY <2>2, <2>3 DEF StateMove, LockTypeOK, Job
<1>3. CASE fetch \/ startupRecovered \/ agentExits \/ agentStarts \/ Faults \/ ClockTick
  BY <1>3 DEF fetch, startupRecovered, agentExits, agentStarts, Faults, agentStops,
              agentCrashes, serverRestarts, callFails, completionRejected, agentTimesOut,
              eventLost, Fault, ClockTick, Tick, lockVars
<1>4. CASE UNCHANGED vars
  BY <1>4 DEF vars, lockVars
<1>5. ASSUME NEW j \in Job,
             \/ Executor(j) \/ preserve(j) \/ requestCancel(j) \/ reconcile(j)
             \/ jobAvailable(j) \/ jobCancelRequested(j) \/ givesUp(j)
      PROVE  FALSE
  BY <1>5, AgentLeavesLocks DEF lockVars
<1>6. QED
  BY <1>1, <1>2, <1>3, <1>4, <1>5 DEF Next

(* What a claim that is granted writes. *)
LEMMA ClaimQueuedWrites ==
  ASSUME OwnTypes, LockTypeOK, NEW c \in calls, claimQueued(c)
  PROVE  /\ c.job \in Job /\ c.tok \in Token /\ c.tok # NoToken
         /\ status[c.job] = "QUEUED" /\ status'[c.job] = "RUNNING"
         /\ jobToken'[c.job] = c.tok /\ token'[c.job] = c.tok
         /\ state[c.job] = "REQUESTED" /\ state'[c.job] = "HELD"
         /\ \A k \in Job \ {c.job} : state'[k] = state[k] /\ token'[k] = token[k]
BY NoTokenAssumption DEF claimQueued, AdmitJob, Hold, OwnTypes, CallsTyped, CallType, ServerTyped,
                         LockTypeOK, Job

LEMMA CompletedIsPastStep ==
  ASSUME LockTypeOK, OwnTypes, OnlyCreated, ResultsAreFinal, CompletedIsPast, [Next]_vars
  PROVE  CompletedIsPast'
<1>1. ASSUME NEW j \in Job, status'[j] = "RUNNING"
      PROVE  jobToken'[j] # NoToken
  <2>1. CASE \E c \in calls : c.job = j /\ claimQueued(c)
    BY <2>1, ClaimQueuedWrites
  <2>2. CASE ~\E c \in calls : c.job = j /\ claimQueued(c)
    <3>1. status[j] = "RUNNING"
      BY <1>1, <2>2, StatusStep DEF StatusMoves, ResultsAreFinal, IsComplete, Final
    <3>2. ~\E c \in calls : c.job = j /\ completeAnswer(c)
      BY <3>1 DEF CompletedIsPast, completeAnswer, IsComplete
    <3>3. QED
      BY <2>2, <3>1, <3>2, JobTokenStep DEF JobTokenMoves, CompletedIsPast
  <2>3. QED
    BY <2>1, <2>2
<1>2. ASSUME NEW j \in Job, state'[j] # "NONE"
      PROVE  status'[j] # "NONE"
  <2>1. CASE state[j] = "NONE"
    <3>1. createJob(j)
      BY <1>2, <2>1, NewlyCreated
    <3>2. QED
      BY <3>1 DEF createJob, OwnTypes, ServerTyped
  <2>2. CASE state[j] # "NONE"
    BY <2>2, StatusStep DEF StatusMoves, ResultsAreFinal, IsComplete, Final, CompletedIsPast, Created
  <2>3. QED
    BY <2>1, <2>2
<1>3. ASSUME NEW j \in Job, status[j] \notin Open \union {"RUNNING"}
      PROVE  status'[j] \notin Open \union {"RUNNING"}
  BY <1>3, StatusStep DEF StatusMoves, ResultsAreFinal, IsComplete, Open, Final, Active
<1>4. ASSUME NEW j \in Job, j \in Created, status[j] \notin Active
      PROVE  status[j] \notin Open \union {"RUNNING"}
  BY <1>4 DEF CompletedIsPast, Active, Open
<1>5. ASSUME NEW d \in calls', d.kind = "complete"
      PROVE  /\ d.pc \in {"release", "answer"} => status'[d.job] \notin Open \union {"RUNNING"}
             /\ d.pc = "release" => d.clean
  <2>1. CASE d.job \in Job /\ Sent(d)
    BY <1>5, <2>1 DEF Sent
  <2>2. ASSUME NEW c \in calls, SameCall(c, d), Advanced(c, d)
        PROVE  /\ d.pc \in {"release", "answer"} => status'[d.job] \notin Open \union {"RUNNING"}
               /\ d.pc = "release" => d.clean
    <3>1. c.job \in Job /\ c.job \in Created /\ c.kind = "complete" /\ d.job = c.job /\ d.clean = c.clean
      BY <1>5, <2>2 DEF SameCall, OwnTypes, CallsTyped, CallType, OnlyCreated
    <3>2. CASE d.pc = c.pc
      BY <1>3, <3>1, <3>2 DEF CompletedIsPast
    <3>3. CASE completeRead(c) /\ (d.pc # "write" => status[c.job] \notin Active) /\ (d.pc = "release" => c.clean)
      BY <1>3, <1>4, <3>1, <3>3
    <3>4. CASE completeWrite(c) /\ (d.pc = "release" => c.clean)
      <4>1. status'[c.job] \notin Open \union {"RUNNING"}
        BY <1>4, <3>1, <3>4 DEF completeWrite, OwnTypes, ServerTyped, ResultsAreFinal, Open, Final
      <4>2. QED
        BY <3>1, <3>4, <4>1
    <3>5. CASE completeRelease(c) /\ d.pc = "answer"
      BY <1>3, <3>1, <3>5 DEF completeRelease, IsComplete, CompletedIsPast
    <3>6. QED
      BY <2>2, <3>1, <3>2, <3>3, <3>4, <3>5 DEF Advanced, cancelRead, cancelWrite, IsCancel
  <2>3. QED
    BY <2>1, <2>2, CallStep DEF ComesFrom, OwnTypes
<1>6. QED
  BY <1>1, <1>2, <1>5 DEF CompletedIsPast, Created

-------------------------------------------------------------------------------
(* A job that was begun stays engaged                                      *)

(* What a reconciliation does for an interrupted execution. *)
LEMMA InterruptedIsRecovered ==
  ASSUME OwnTypes, NEW j \in Job, reconcile(j), Interrupted(j)
  PROVE  \/ HasTask(j) /\ task'[j] = task[j]
         \/ task'[j].pc = "rqueued"
<1>1. recover(j, snap[j])
  BY DEF reconcile, Interrupted
<1>2. CASE HasTask(j)
  BY <1>1, <1>2 DEF recover
<1>3. CASE ~HasTask(j)
  <2>1. task' = [task EXCEPT ![j] = [NoTask EXCEPT !.pc = "rqueued", !.tok = snap[j].tok,
                                                   !.outcome = snap[j].status]]
    BY <1>1, <1>3 DEF recover, Enqueue
  <2>2. QED
    BY <2>1 DEF OwnTypes, AgentTyped, NoTask
<1>4. QED
  BY <1>2, <1>3

LEMMA BusyStays ==
  ASSUME ~Rejecting, OwnTypes, AwaitsOneCall, CompletedIsPast, [Next]_vars,
         NEW k \in Job, task[k].pc \in Busy, status[k] = "RUNNING",
         session' \in {"recovering", "ready"}
  PROVE  task'[k].pc \in Busy
<1>1. CASE Ends(k)
  BY <1>1 DEF Ends, Busy, AwaitsOneCall, CompletedIsPast, completeAnswer, IsComplete
<1>2. CASE Begins(k)
  BY <1>2 DEF Begins, HasTask, Busy
<1>3. CASE GoesOn(k)
  BY <1>3 DEF GoesOn, Busy, claim, claimQueued, claimAgain, AwaitsOneCall
<1>4. CASE task'[k] = task[k] \/ task'[k] = [task[k] EXCEPT !.abort = TRUE]
  BY <1>4 DEF OwnTypes, AgentTyped, TaskType
<1>5. QED
  BY <1>1, <1>2, <1>3, <1>4, TaskStep DEF TaskMoves

LEMMA EngagedStays ==
  ASSUME ~Rejecting, OwnTypes, ResultsAreFinal, ClaimedIsPast, AwaitsOneCall, CompletedIsPast,
         [Next]_vars, NEW k \in Job, Engaged(k)
  PROVE  Engaged(k)'
<1>1. status[k] \notin Open /\ status'[k] \notin Open
  BY PastStays DEF Engaged
<1>2. TaskMoves(k) /\ StatusMoves(k) /\ SnapMoves(k) /\ SessionMoves
  BY TaskStep, StatusStep, SnapStep
<1>3. task'[k].pc # "granted"
  <2>1. ASSUME NEW c \in calls, c.job = k, c.awaited, claimQueued(c) \/ claimAgain(c)
        PROVE  FALSE
    BY <1>1, <2>1 DEF claimQueued, claimAgain, AwaitsOneCall, Engaged, Open, Starting
  <2>2. CASE GoesOn(k)
    BY <2>1, <2>2 DEF GoesOn
  <2>3. CASE Begins(k)
    BY <2>3 DEF Begins
  <2>4. CASE task'[k] \in {task[k], NoTask, [task[k] EXCEPT !.abort = TRUE]}
    BY <2>4 DEF Engaged, NoTask, OwnTypes, AgentTyped, TaskType
  <2>5. QED
    BY <1>2, <2>2, <2>3, <2>4 DEF TaskMoves
<1>4. ASSUME status'[k] = "RUNNING"
      PROVE  /\ task'[k].pc \notin Starting
             /\ session' = "ready" => task'[k].pc \in Busy
             /\ session' = "recovering" => task'[k].pc \in Busy \/ Interrupted(k)'
  <2>1. status[k] = "RUNNING"
    BY <1>1, <1>2, <1>4 DEF StatusMoves, ResultsAreFinal, IsComplete, Open, Final
  <2>2. /\ task[k].pc \notin Starting
        /\ session = "ready" => task[k].pc \in Busy
        /\ session = "recovering" => task[k].pc \in Busy \/ Interrupted(k)
    BY <2>1 DEF Engaged
  <2>3. task'[k].pc \notin Starting
    <3>1. CASE Begins(k)
      BY <2>2, <3>1 DEF Begins, Starting, HasTask, Busy, reconcile
    <3>2. CASE GoesOn(k)
      BY <1>3, <2>2, <3>2 DEF GoesOn, Starting, claim
    <3>3. CASE task'[k] \in {task[k], NoTask, [task[k] EXCEPT !.abort = TRUE]}
      BY <2>2, <3>3 DEF Starting, NoTask, OwnTypes, AgentTyped, TaskType
    <3>4. QED
      BY <1>2, <3>1, <3>2, <3>3 DEF TaskMoves
  <2>4. ASSUME session' = "ready"
        PROVE  task'[k].pc \in Busy
    <3>1. session = "ready" \/ (session = "recovering" /\ snap[k] = NoSnap)
      BY <1>2, <2>4 DEF SessionMoves, startupRecovered
    <3>2. task[k].pc \in Busy
      BY <2>2, <3>1 DEF Interrupted, NoSnap
    <3>3. QED
      BY <2>1, <2>4, <3>2, BusyStays
  <2>5. ASSUME session' = "recovering"
        PROVE  task'[k].pc \in Busy \/ Interrupted(k)'
    <3>1. CASE fetch
      <4>1. snap'[k] = Seen(k)
        BY <2>1, <3>1 DEF fetch, Listed, Active
      <4>2. jobToken[k] # NoToken
        BY <2>1 DEF CompletedIsPast
      <4>3. QED
        BY <2>1, <2>5, <4>1, <4>2 DEF Interrupted, Seen
    <3>2. CASE ~fetch /\ task[k].pc \in Busy
      BY <2>1, <2>5, <3>2, BusyStays
    <3>3. CASE ~fetch /\ task[k].pc \notin Busy
      <4>1. session = "recovering" /\ Interrupted(k)
        BY <1>2, <2>2, <2>5, <3>3 DEF SessionMoves
      <4>2. CASE reconcile(k)
        <5>1. ~HasTask(k)
          BY <2>2, <3>3 DEF HasTask, Busy, Starting, OwnTypes, AgentTyped, TaskType
        <5>2. QED
          BY <4>1, <4>2, <5>1, InterruptedIsRecovered DEF Busy
      <4>3. CASE ~reconcile(k)
        <5>1. snap'[k] = snap[k]
          BY <1>2, <2>5, <3>3, <4>3 DEF SnapMoves
        <5>2. QED
          BY <2>5, <4>1, <5>1 DEF Interrupted
      <4>4. QED
        BY <4>2, <4>3
    <3>4. QED
      BY <3>1, <3>2, <3>3
  <2>6. QED
    BY <2>3, <2>4, <2>5
<1>5. QED
  BY <1>1, <1>3, <1>4 DEF Engaged

LEMMA BegunIsEngagedStep ==
  ASSUME ~Rejecting, OwnTypes, ResultsAreFinal, ClaimedIsPast, AwaitsOneCall, CompletedIsPast,
         BegunIsEngaged, [Next]_vars
  PROVE  BegunIsEngaged'
<1>1. ASSUME NEW j \in Job, task[j].pc \in Busy \union {"granted"}, task'[j].pc \in Busy, UNCHANGED status
      PROVE  Engaged(j)'
  BY <1>1 DEF ClaimedIsPast, Engaged, Busy, Starting
<1>2. ASSUME NEW j \in Job, started'[j] > 0
      PROVE  Engaged(j)'
  <2>1. CASE started[j] > 0
    BY <2>1, EngagedStays DEF BegunIsEngaged
  <2>2. CASE ~(started[j] > 0)
    <3>1. startHandler(j) /\ task'[j].pc = "running"
      BY <1>2, <2>2, HostStep DEF HostMoves
    <3>2. task[j].pc = "granted" /\ UNCHANGED status
      BY <3>1 DEF startHandler, serverVars
    <3>3. QED
      BY <1>1, <3>1, <3>2 DEF Busy
  <2>3. QED
    BY <2>1, <2>2
<1>3. ASSUME NEW d \in calls', d.kind = "complete", d.tok # NoToken
      PROVE  Engaged(d.job)'
  <2>1. ASSUME NEW c \in calls, SameCall(c, d)
        PROVE  Engaged(d.job)'
    <3>1. c.job \in Job /\ Engaged(c.job) /\ d.job = c.job
      BY <1>3, <2>1 DEF SameCall, BegunIsEngaged, OwnTypes, CallsTyped, CallType
    <3>2. QED
      BY <3>1, EngagedStays
  <2>2. ASSUME d.job \in Job, Sent(d)
        PROVE  Engaged(d.job)'
    <3>1. report(d.job) \/ reportRecovered(d.job) \/
            (preserve(d.job) /\ task[d.job].pc \in {"settling", "rcleaning"})
      BY <1>3, <2>2 DEF Sent
    <3>2. task[d.job].pc \in Busy /\ UNCHANGED <<task, status>>
      BY <3>1 DEF report, reportRecovered, preserve, agentVars, Busy
    <3>3. QED
      BY <1>1, <2>2, <3>2
  <2>3. QED
    BY <2>1, <2>2, CallStep DEF ComesFrom, OwnTypes
<1>4. QED
  BY <1>2, <1>3 DEF BegunIsEngaged

LEMMA RunsOnceStep ==
  ASSUME OwnTypes, BegunIsEngaged, HandlerRunsOnce, [Next]_vars
  PROVE  HandlerRunsOnce'
<1>1. ASSUME NEW j \in Job
      PROVE  started'[j] <= 1
  <2>1. CASE startHandler(j)
    <3>1. ~(started[j] > 0) /\ started[j] \in Nat
      BY <2>1 DEF startHandler, BegunIsEngaged, Engaged, OwnTypes, HostTyped
    <3>2. QED
      BY <3>1, HostStep DEF HostMoves, HandlerRunsOnce
  <2>2. CASE ~startHandler(j)
    BY <2>2, HostStep DEF HostMoves, HandlerRunsOnce
  <2>3. QED
    BY <2>1, <2>2
<1>2. QED
  BY <1>1 DEF HandlerRunsOnce

(* What is true of the calls and executions, whatever is lost or late.     *)
OnceInv ==
  /\ OnlyCreated /\ ResultsAreFinal /\ ClaimedIsPast /\ AwaitsOneCall
  /\ CompletedIsPast /\ BegunIsEngaged

LEMMA OnceInvHolds ==
  ASSUME ~Rejecting
  PROVE  Spec => []OnceInv
<1>1. Init => OnceInv
  BY DEF Init, LockInit, OnceInv, OnlyCreated, ResultsAreFinal, ClaimedIsPast, AwaitsOneCall,
         CompletedIsPast, BegunIsEngaged, Created, HasTask, Recovering, NoTask, NoJournal, NoSnap,
         Busy, Job
<1>2. OwnTypes /\ LockTypeOK /\ OnceInv /\ [Next]_vars => OnceInv'
  BY OnlyCreatedStep, ResultsStep, ClaimedIsPastStep, AwaitsStep, CompletedIsPastStep,
     BegunIsEngagedStep DEF OnceInv
<1>3. Spec => []LockTypeOK
  BY JobsUseOperationLocks, LockTypeCorrect, PTL DEF UsesOperationLocks
<1>4. QED
  BY <1>1, <1>2, <1>3, OwnTypesHold, PTL DEF Spec

(* As long as no completion is refused for good, the handler of a job is   *)
(* started at most once, whatever crashes and restarts, answers that are   *)
(* lost, calls that go on after their caller gave them up and snapshots    *)
(* that are out of date when they are looked at.                           *)
THEOREM HandlerRunsOnceHolds ==
  ASSUME ~Rejecting
  PROVE  Spec => []HandlerRunsOnce
<1>1. Init => HandlerRunsOnce
  BY DEF Init, HandlerRunsOnce
<1>2. OwnTypes /\ OnceInv /\ HandlerRunsOnce /\ [Next]_vars => HandlerRunsOnce'
  BY RunsOnceStep DEF OnceInv
<1>3. QED
  BY <1>1, <1>2, OwnTypesHold, OnceInvHolds, PTL DEF Spec

-------------------------------------------------------------------------------
(* Processes are protected                                                 *)

(* Who releases the holder of a job, and with which token.                 *)
Releases(c) ==
  /\ state[c.job] # "NONE" /\ state'[c.job] = "RELEASED" /\ token'[c.job] = token[c.job]
  /\ \/ completeRelease(c) /\ token[c.job] \in {NoToken, c.tok}
     \/ token[c.job] = NoToken
     \/ cancelRelease(c) /\ c.seen.status = "QUEUED" /\ token[c.job] \in {NoToken, c.seen.tok}

LockMoves(j) ==
  \/ state'[j] = state[j] /\ token'[j] = token[j]
  \/ state[j] = "NONE" /\ state'[j] = "REQUESTED" /\ token'[j] = token[j]
  \/ \E c \in calls : c.job = j /\ claimQueued(c)
  \/ \E c \in calls : c.job = j /\ Releases(c)

LEMMA ServeLockStep ==
  ASSUME LockTypeOK, OwnTypes, NEW c \in calls, Serve(c) \/ claimTargetError(c), NEW k \in Job
  PROVE  LockMoves(k)
<1> USE DEF OwnTypes
<1>1. c.job \in Job
  BY DEF CallsTyped, CallType
<1>2. ASSUME NEW t, Release(c.job, t)
      PROVE  /\ state[c.job] # "NONE" /\ state'[c.job] = "RELEASED" /\ UNCHANGED token
             /\ token[c.job] \in {NoToken, t}
             /\ \A j \in Job \ {c.job} : state'[j] = state[j]
  BY <1>1, <1>2 DEF Release, Live, LockTypeOK, Job
<1>3. CASE claimQueued(c)
  BY <1>3, ClaimQueuedWrites DEF LockMoves
<1>4. CASE claimTargetError(c)
  BY <1>2, <1>4 DEF claimTargetError, LockMoves, Releases
<1>5. CASE completeRelease(c)
  <2>1. Release(c.job, c.tok) \/ UNCHANGED lockVars
    BY <1>5 DEF completeRelease
  <2>2. QED
    BY <1>2, <1>5, <2>1 DEF LockMoves, Releases, lockVars
<1>6. CASE cancelRelease(c)
  <2>1. UNCHANGED lockVars \/ (Release(c.job, c.seen.tok) /\ c.seen.status = "QUEUED")
    BY <1>6 DEF cancelRelease, Acknowledged
  <2>2. QED
    BY <1>2, <1>6, <2>1 DEF LockMoves, Releases, lockVars
<1>7. CASE claimAgain(c) \/ claimRejected(c) \/ completeRefused(c) \/ completeRead(c)
  BY <1>7 DEF claimAgain, claimRejected, completeRefused, completeRead, lockVars, LockMoves
<1>8. CASE completeWrite(c) \/ completeAnswer(c) \/ cancelRead(c) \/ cancelWrite(c)
  BY <1>8 DEF completeWrite, completeAnswer, cancelRead, cancelWrite, lockVars, LockMoves
<1>9. QED
  BY <1>3, <1>4, <1>5, <1>6, <1>7, <1>8 DEF Serve

LEMMA LockStep ==
  ASSUME LockTypeOK, OwnTypes, [Next]_vars, NEW k \in Job
  PROVE  LockMoves(k)
<1>1. ASSUME UNCHANGED <<state, token>>
      PROVE  LockMoves(k)
  BY <1>1 DEF LockMoves
<1>2. ASSUME NEW j \in Job, createJob(j)
      PROVE  LockMoves(k)
  BY <1>2, RequestMoves DEF LockMoves, LockTypeOK, Job
<1>3. CASE fetch \/ startupRecovered \/ agentExits \/ agentStarts \/ Faults \/ ClockTick \/ UNCHANGED vars
  BY <1>1, <1>3 DEF fetch, startupRecovered, agentExits, agentStarts, Faults, agentStops,
              agentCrashes, serverRestarts, callFails, completionRejected, agentTimesOut,
              eventLost, Fault, ClockTick, Tick, vars, lockVars
<1>4. ASSUME NEW j \in Job,
             \/ Executor(j) \/ preserve(j) \/ requestCancel(j) \/ reconcile(j)
             \/ jobAvailable(j) \/ jobCancelRequested(j) \/ givesUp(j)
      PROVE  UNCHANGED <<state, token>>
  BY <1>4, AgentLeavesLocks DEF lockVars
<1>5. QED
  BY <1>1, <1>2, <1>3, <1>4, ServeLockStep DEF Next

(* A held holder keeps its token until a completion with it releases it.   *)
LEMMA HeldStays ==
  ASSUME LockTypeOK, OwnTypes, ClaimedIsPast, HeldIsListed, [Next]_vars, NEW k \in Job, k \in Held,
         \A c \in calls : ~(c.job = k /\ completeRelease(c) /\ c.tok = token[k])
  PROVE  k \in Held' /\ token'[k] = token[k]
<1>1. state[k] = "HELD" /\ token[k] # NoToken
  BY DEF Held, HeldIsListed
<1>2. ASSUME NEW c \in calls, c.job = k, claimQueued(c)
      PROVE  FALSE
  BY <1>1, <1>2, ClaimQueuedWrites
<1>3. ASSUME NEW c \in calls, c.job = k, Releases(c)
      PROVE  FALSE
  <2>1. cancelRelease(c) /\ c.seen.status = "QUEUED" => c.seen.tok = NoToken
    BY DEF ClaimedIsPast, cancelRelease, IsCancel
  <2>2. QED
    BY <1>1, <1>3, <2>1 DEF Releases
<1>4. state'[k] = "HELD" /\ token'[k] = token[k]
  BY <1>1, <1>2, <1>3, LockStep DEF LockMoves
<1>5. QED
  BY <1>4 DEF Held, Job

LEMMA ProtectedStep ==
  ASSUME LockTypeOK, OwnTypes, ReleasedBeforeAnswer, HeldIsListed, ClaimedIsPast, CompletedIsPast,
         ReportedIsOver, ProcessesProtected, [Next]_vars
  PROVE  ProcessesProtected'
<1> SUFFICES ASSUME NEW j \in Job, j \in proc'
             PROVE  j \in Held' /\ journal'[j].tok = token'[j] /\ ~journal'[j].settled
  BY HostTypedStep DEF ProcessesProtected, HostTyped
<1>1. HostMoves(j)
  BY HostStep
<1>2. CASE startHandler(j)
  <2>1. j \in Held /\ token[j] = task[j].tok /\ UNCHANGED lockVars
    BY <1>2 DEF startHandler, ReportedIsOver
  <2>2. journal'[j].tok = task[j].tok /\ ~journal'[j].settled
    BY <1>2 DEF startHandler, NoJournal, OwnTypes, HostTyped
  <2>3. QED
    BY <2>1, <2>2 DEF lockVars, Held
<1>3. CASE ~startHandler(j)
  <2>1. j \in proc
    BY <1>1, <1>3 DEF HostMoves
  <2>2. j \in Held /\ journal[j].tok = token[j] /\ ~journal[j].settled
    BY <2>1 DEF ProcessesProtected
  <2>3. ASSUME NEW c \in calls, c.job = j, completeRelease(c), c.tok = token[j]
        PROVE  FALSE
    BY <2>1, <2>3 DEF completeRelease, IsComplete, CompletedIsPast, ReportedIsOver
  <2>4. j \in Held' /\ token'[j] = token[j]
    BY <2>2, <2>3, HeldStays
  <2>5. ASSUME NEW c \in calls, c.job = j, completeAnswer(c), c.clean
        PROVE  FALSE
    BY <2>2, <2>5 DEF completeAnswer, IsComplete, ReleasedBeforeAnswer, Held
  <2>6. journal'[j].tok = journal[j].tok /\ journal'[j].settled = journal[j].settled
    BY <1>1, <1>3, <2>5 DEF HostMoves
  <2>7. QED
    BY <2>2, <2>4, <2>6
<1>4. QED
  BY <1>2, <1>3

LEMMA ReportedStep ==
  ASSUME LockTypeOK, OwnTypes, HeldIsListed, HeldIsListed', ClaimedIsPast, BegunIsEngaged,
         ReportedIsOver, ProcessesProtected, ProcessesProtected', [Next]_vars
  PROVE  ReportedIsOver'
<1>1. ASSUME NEW j \in Job, task'[j].pc = "granted"
      PROVE  j \in Held' /\ token'[j] = task'[j].tok
  <2>1. CASE \E c \in calls : c.job = j /\ task'[j].tok = c.tok /\ (claimQueued(c) \/ claimAgain(c))
    <3>1. PICK c \in calls : c.job = j /\ task'[j].tok = c.tok /\ (claimQueued(c) \/ claimAgain(c))
      BY <2>1
    <3>2. state'[j] = "HELD" /\ token'[j] = c.tok
      BY <3>1, ClaimQueuedWrites DEF claimAgain, lockVars
    <3>3. QED
      BY <3>1, <3>2 DEF Held, Job
  <2>2. CASE task[j].pc = "granted" /\ task'[j].tok = task[j].tok
    <3>1. j \in Held /\ token[j] = task[j].tok
      BY <2>2 DEF ReportedIsOver
    <3>2. ASSUME NEW c \in calls, c.job = j, completeRelease(c), c.tok = token[j]
          PROVE  FALSE
      BY <2>2, <3>1, <3>2 DEF completeRelease, IsComplete, HeldIsListed, BegunIsEngaged, Engaged
    <3>3. QED
      BY <2>2, <3>1, <3>2, HeldStays
  <2>3. TaskMoves(j)
    BY TaskStep
  <2>4. QED
    BY <1>1, <2>1, <2>2, <2>3 DEF TaskMoves, Begins, GoesOn, NoTask, OwnTypes, AgentTyped, TaskType
<1>2. ASSUME NEW j \in Job, j \in proc', ~startHandler(j)
      PROVE  /\ j \in proc /\ token'[j] = token[j]
             /\ journal[j].tok = token[j]
  <2>1. j \in proc
    BY <1>2, HostStep DEF HostMoves
  <2>2. j \in Held /\ state[j] = "HELD" /\ state'[j] = "HELD" /\ journal[j].tok = token[j]
    BY <1>2, <2>1 DEF ProcessesProtected, Held
  <2>3. ASSUME NEW c \in calls, c.job = j, claimQueued(c)
        PROVE  FALSE
    BY <2>2, <2>3, ClaimQueuedWrites
  <2>4. QED
    BY <2>1, <2>2, <2>3, LockStep DEF LockMoves, Releases
<1>3. ASSUME NEW j \in Job, task'[j].pc \in {"reporting", "rreporting"}, task'[j].tok = token'[j], j \in proc'
      PROVE  FALSE
  <2>1. TaskMoves(j) /\ task'[j].tok = task[j].tok
    BY <1>3, TaskStep DEF KeepsTask
  <2>2. ~startHandler(j)
    <3>1. \/ ~startHandler(j)
          \/ SetTask(j, [task[j] EXCEPT !.pc = "settling", !.outcome = "CANCELLED"])
          \/ SetTask(j, [task[j] EXCEPT !.pc = "running"])
      BY DEF startHandler
    <3>2. QED
      BY <1>3, <3>1 DEF SetTask, OwnTypes, AgentTyped, TaskType
  <2>3. j \in proc /\ token'[j] = token[j] /\ journal[j].tok = token[j]
    BY <1>3, <2>2, <1>2
  <2>4. CASE settle(j)
    BY <1>3, <2>4 DEF settle, Settled
  <2>5. CASE cleanUp(j)
    BY <1>3, <2>1, <2>3, <2>5 DEF cleanUp, Settled
  <2>6. CASE task'[j] \in {task[j], [task[j] EXCEPT !.abort = TRUE]}
    <3>1. task[j].pc \in {"reporting", "rreporting"}
      BY <1>3, <2>6 DEF OwnTypes, AgentTyped, TaskType
    <3>2. QED
      BY <1>3, <2>1, <2>3, <3>1 DEF ReportedIsOver
  <2>7. QED
    BY <1>3, <2>1, <2>4, <2>5, <2>6 DEF TaskMoves, Begins, GoesOn, NoTask
<1>4. ASSUME NEW d \in calls', d.kind = "complete", d.clean, d.tok = token'[d.job], d.job \in proc'
      PROVE  FALSE
  <2>1. d.job \in Job /\ token'[d.job] # NoToken
    BY <1>4, HostTypedStep DEF ProcessesProtected, HeldIsListed, HostTyped
  <2>2. ASSUME NEW c \in calls, SameCall(c, d)
        PROVE  FALSE
    <3>1. c.kind = "complete" /\ c.clean /\ c.tok = token'[d.job] /\ c.job = d.job
      BY <1>4, <2>2 DEF SameCall
    <3>2. CASE startHandler(d.job)
      BY <2>1, <3>1, <3>2 DEF startHandler, BegunIsEngaged, Engaged
    <3>3. CASE ~startHandler(d.job)
      BY <1>2, <1>4, <2>1, <3>1, <3>3 DEF ReportedIsOver
    <3>4. QED
      BY <3>2, <3>3
  <2>3. ASSUME Sent(d)
        PROVE  FALSE
    <3>1. /\ d.tok = task[d.job].tok
          /\ report(d.job) \/ reportRecovered(d.job)
      BY <1>4, <2>1, <2>3 DEF Sent
    <3>2. task[d.job].pc \in {"reporting", "rreporting"} /\ UNCHANGED <<lockVars, proc>>
      BY <3>1 DEF report, reportRecovered, hostVars
    <3>3. QED
      BY <1>4, <2>1, <3>1, <3>2 DEF ReportedIsOver, lockVars
  <2>4. QED
    BY <2>2, <2>3, CallStep DEF ComesFrom, OwnTypes
<1>5. QED
  BY <1>1, <1>3, <1>4 DEF ReportedIsOver

ProtectedInv ==
  ReleasedBeforeAnswer /\ HeldIsListed /\ ReportedIsOver /\ ProcessesProtected

LEMMA ProtectedInvHolds ==
  ASSUME ~Rejecting
  PROVE  Spec => []ProtectedInv
<1>1. Init => ProtectedInv
  BY DEF Init, LockInit, ProtectedInv, ReleasedBeforeAnswer, HeldIsListed, ReportedIsOver,
         ProcessesProtected, NoTask, Held, Job
<1>2. OwnTypes /\ LockTypeOK /\ OnceInv /\ ProtectedInv /\ [Next]_vars => ProtectedInv'
  BY ReleasedBeforeAnswerStep, HeldIsListedStep, ProtectedStep, ReportedStep
  DEF OnceInv, ProtectedInv
<1>3. Spec => []LockTypeOK
  BY JobsUseOperationLocks, LockTypeCorrect, PTL DEF UsesOperationLocks
<1>4. QED
  BY <1>1, <1>2, <1>3, OwnTypesHold, OnceInvHolds, PTL DEF Spec

(* As long as no completion is refused for good, a process of a job runs   *)
(* only while the holder of the job is HELD and a journal with the token   *)
(* of the holder is on disk: no crash, restart, cancellation or late call  *)
(* frees a worktree in which something still runs.                         *)
THEOREM ProcessesProtectedHolds ==
  ASSUME ~Rejecting
  PROVE  Spec => []ProcessesProtected
<1>1. ProtectedInv => ProcessesProtected
  BY DEF ProtectedInv
<1>2. QED
  BY <1>1, ProtectedInvHolds, PTL

-------------------------------------------------------------------------------
(* The result of a build survives                                          *)

(* While no user cancels anything, no job is cancelled, and who executes   *)
(* or completes a job has the token of the execution.                      *)
Uncancelled ==
  /\ \A c \in calls : c.kind # "cancel" /\ (c.kind = "complete" => c.tok # NoToken)
  /\ \A j \in Job : status[j] # "CANCELLING" /\ snap[j].status # "CANCELLING"
  /\ \A j \in Job : task[j].pc \in Busy \union {"granted"} => task[j].tok # NoToken

(* A job whose handler has not returned is RUNNING, and nobody completes it. *)
UndecidedRuns ==
  /\ \A j \in Job : task[j].pc \in {"granted", "running"} => status[j] = "RUNNING"
  /\ \A c \in calls : c.kind = "complete" => task[c.job].pc \notin {"granted", "running"}

(* A job that is RUNNING has one execution: snapshot, recovery and journal *)
(* are of the token of the job.                                            *)
OneExecution ==
  \A j \in Job : status[j] = "RUNNING" =>
    /\ snap[j].tok # NoToken => snap[j] = Seen(j)
    /\ Recovering(j) => task[j].tok = jobToken[j] /\ task[j].outcome = "RUNNING"
    /\ task[j].pc = "running" => journal[j].tok = jobToken[j]
    /\ j \in Build /\ journal[j].done # "NONE" => journal[j].tok = jobToken[j]

(* What a build has checkpointed is what is reported of it.                *)
ResultIsKept ==
  \A j \in Build : journal[j].done # "NONE" =>
    /\ status[j] \notin Open
    /\ status[j] \in Final => status[j] = journal[j].done
    /\ status[j] = "RUNNING" =>
         /\ task[j].pc \in {"settling", "reporting"} => task[j].outcome = journal[j].done
         /\ \A c \in calls : c.kind = "complete" /\ c.job = j => c.status = journal[j].done

NoCancel == cancels = 0 /\ \A j \in Job : ~requestCancel(j)

LEMMA CancelsStep ==
  ASSUME cancels \in Nat, [Next]_vars
  PROVE  cancels' \in Nat /\ (cancels' = 0 => NoCancel)
<1>1. ASSUME NEW c \in calls, Serve(c) \/ claimTargetError(c)
      PROVE  UNCHANGED cancels
  BY <1>1 DEF Serve, claimQueued, claimAgain, claimRejected, claimTargetError, completeRefused,
              completeRead, completeWrite, completeRelease, completeAnswer, cancelRead,
              cancelWrite, cancelRelease
<1>2. ASSUME NEW j \in Job, createJob(j) \/ Executor(j) \/ preserve(j)
      PROVE  UNCHANGED cancels
  BY <1>2 DEF createJob, Executor, claim, startHandler, handlerEnds, settle, report,
              enterRecovery, cleanUp, reportRecovered, preserve
<1>3. ASSUME NEW j \in Job,
             reconcile(j) \/ jobAvailable(j) \/ jobCancelRequested(j) \/ givesUp(j)
      PROVE  UNCHANGED cancels
  BY <1>3 DEF reconcile, jobAvailable, jobCancelRequested, givesUp
<1>4. ASSUME fetch \/ startupRecovered \/ agentExits \/ agentStarts \/ Faults
      PROVE  UNCHANGED cancels
  BY <1>4 DEF fetch, startupRecovered, agentExits, agentStarts, Faults, agentStops,
              agentCrashes, serverRestarts, callFails, completionRejected, agentTimesOut,
              eventLost, Fault
<1>5. ASSUME ClockTick \/ UNCHANGED vars
      PROVE  UNCHANGED cancels
  BY <1>5 DEF ClockTick, vars
<1>6. ASSUME NEW j \in Job, requestCancel(j)
      PROVE  cancels' = cancels + 1
  BY <1>6 DEF requestCancel
<1>7. UNCHANGED cancels \/ cancels' = cancels + 1
  BY <1>1, <1>2, <1>3, <1>4, <1>5, <1>6 DEF Next
<1>8. QED
  BY <1>6, <1>7 DEF NoCancel

LEMMA UncancelledStep ==
  ASSUME OwnTypes, ResultsAreFinal, Uncancelled, NoCancel, [Next]_vars
  PROVE  Uncancelled'
<1>1. ASSUME NEW d \in calls'
      PROVE  d.kind # "cancel" /\ (d.kind = "complete" => d.tok # NoToken)
  <2>1. ASSUME NEW c \in calls, SameCall(c, d)
        PROVE  d.kind # "cancel" /\ (d.kind = "complete" => d.tok # NoToken)
    BY <2>1 DEF SameCall, Uncancelled
  <2>2. ASSUME d.job \in Job, Sent(d)
        PROVE  d.kind # "cancel" /\ (d.kind = "complete" => d.tok # NoToken)
    <3>1. ~requestCancel(d.job) /\ snap[d.job].status # "CANCELLING"
      BY <2>2 DEF NoCancel, Uncancelled
    <3>2. ASSUME task[d.job].pc \in {"settling", "reporting", "rcleaning", "rreporting"}
          PROVE  task[d.job].tok # NoToken
      BY <2>2, <3>2 DEF Uncancelled, Busy
    <3>3. QED
      BY <2>2, <3>1, <3>2 DEF Sent, report, reportRecovered
  <2>3. QED
    BY <2>1, <2>2, CallStep DEF ComesFrom, OwnTypes
<1>2. ASSUME NEW j \in Job
      PROVE  status'[j] # "CANCELLING" /\ snap'[j].status # "CANCELLING"
  <2>1. ASSUME NEW c \in calls
        PROVE  ~IsCancel(c, "write") /\ (IsComplete(c, "write") => c.status \in Final)
    BY DEF Uncancelled, IsCancel, IsComplete, ResultsAreFinal
  <2>2. status'[j] # "CANCELLING"
    BY <2>1, StatusStep DEF StatusMoves, Uncancelled, Final
  <2>3. snap'[j].status # "CANCELLING"
    BY SnapStep DEF SnapMoves, Seen, NoSnap, Uncancelled
  <2>4. QED
    BY <2>2, <2>3
<1>3. ASSUME NEW j \in Job, task'[j].pc \in Busy \union {"granted"}
      PROVE  task'[j].tok # NoToken
  <2>1. TaskMoves(j) /\ KeepsTask(j)
    BY TaskStep
  <2>2. CASE Begins(j)
    BY <1>3, <2>2 DEF Begins, Busy
  <2>3. CASE task'[j] \in {task[j], NoTask, [task[j] EXCEPT !.abort = TRUE]}
    BY <1>3, <2>3 DEF NoTask, Busy, Uncancelled, OwnTypes, AgentTyped, TaskType
  <2>4. CASE GoesOn(j)
    <3>1. ASSUME NEW c \in calls, c.job = j, task'[j].tok = c.tok, claimQueued(c) \/ claimAgain(c)
          PROVE  task'[j].tok # NoToken
      BY <3>1, NoTokenAssumption DEF claimQueued, claimAgain, OwnTypes, CallsTyped
    <3>2. CASE task'[j].pc \in {"running", "settling", "reporting", "rcleaning", "rreporting"}
      <4>1. task[j].pc \in Busy \union {"granted"}
        BY <2>4, <3>2 DEF GoesOn, Busy, startHandler, handlerEnds, settle, enterRecovery, cleanUp
      <4>2. task'[j].tok = task[j].tok
        BY <2>1, <3>2 DEF KeepsTask
      <4>3. QED
        BY <4>1, <4>2 DEF Uncancelled
    <3>3. QED
      BY <1>3, <2>4, <3>1, <3>2, SMTT(20) DEF GoesOn, Busy
  <2>5. QED
    BY <2>1, <2>2, <2>3, <2>4 DEF TaskMoves
<1>4. QED
  BY <1>1, <1>2, <1>3 DEF Uncancelled

LEMMA UndecidedRunsStep ==
  ASSUME ~Rejecting, LockTypeOK, OwnTypes, OnceInv, Uncancelled, UndecidedRuns, [Next]_vars
  PROVE  UndecidedRuns'
<1> USE DEF OnceInv
<1>1. ASSUME NEW j \in Job, task'[j].pc \in {"granted", "running"}
      PROVE  status'[j] = "RUNNING"
  <2>1. ASSUME task[j].pc \in {"granted", "running"}
        PROVE  status'[j] = "RUNNING"
    <3>1. status[j] = "RUNNING" /\ \A c \in calls : c.job = j => c.kind # "complete"
      BY <2>1 DEF UndecidedRuns
    <3>2. QED
      BY <3>1, StatusStep DEF StatusMoves, IsComplete, IsCancel, Uncancelled
  <2>2. ASSUME NEW c \in calls, c.job = j, claimQueued(c) \/ claimAgain(c)
        PROVE  status'[j] = "RUNNING"
    BY <2>2, ClaimQueuedWrites DEF claimAgain
  <2>3. CASE GoesOn(j)
    BY <1>1, <2>1, <2>2, <2>3 DEF GoesOn, startHandler
  <2>4. CASE task'[j] \in {task[j], NoTask, [task[j] EXCEPT !.abort = TRUE]}
    BY <1>1, <2>1, <2>4 DEF NoTask, OwnTypes, AgentTyped, TaskType
  <2>5. QED
    BY <1>1, <2>3, <2>4, TaskStep DEF TaskMoves, Begins
<1>2. ASSUME NEW j \in Job, NEW c \in calls, c.kind = "complete", c.job = j
      PROVE  task'[j].pc \notin {"granted", "running"}
  <2>1. Engaged(j) /\ task[j].pc \notin {"granted", "running"}
    BY <1>2 DEF Uncancelled, UndecidedRuns, BegunIsEngaged
  <2>2. task'[j].pc # "granted"
    BY <2>1, EngagedStays DEF Engaged
  <2>3. ~startHandler(j)
    BY <2>1 DEF startHandler
  <2>4. CASE GoesOn(j)
    BY <2>2, <2>3, <2>4 DEF GoesOn
  <2>5. CASE task'[j] \in {task[j], NoTask, [task[j] EXCEPT !.abort = TRUE]}
    BY <2>1, <2>5 DEF NoTask, OwnTypes, AgentTyped, TaskType
  <2>6. QED
    BY <2>4, <2>5, TaskStep DEF TaskMoves, Begins
<1>3. ASSUME NEW d \in calls', d.kind = "complete"
      PROVE  task'[d.job].pc \notin {"granted", "running"}
  <2>1. ASSUME NEW c \in calls, SameCall(c, d)
        PROVE  task'[d.job].pc \notin {"granted", "running"}
    <3>1. c.job \in Job /\ c.kind = "complete" /\ d.job = c.job
      BY <1>3, <2>1 DEF SameCall, OwnTypes, CallsTyped, CallType
    <3>2. QED
      BY <3>1, <1>2
  <2>2. ASSUME d.job \in Job, Sent(d)
        PROVE  task'[d.job].pc \notin {"granted", "running"}
    <3>1. snap[d.job].status # "CANCELLING"
      BY <2>2 DEF Uncancelled
    <3>2. \/ report(d.job) \/ reportRecovered(d.job)
          \/ preserve(d.job) /\ task[d.job].pc \in {"settling", "rcleaning"}
      BY <1>3, <2>2, <3>1 DEF Sent
    <3>3. QED
      BY <3>2 DEF report, reportRecovered, preserve, agentVars
  <2>3. QED
    BY <2>1, <2>2, CallStep DEF ComesFrom, OwnTypes
<1>4. QED
  BY <1>1, <1>3 DEF UndecidedRuns

LEMMA OneExecutionStep ==
  ASSUME LockTypeOK, OwnTypes, OnceInv, ReportedIsOver, HeldIsListed, UndecidedRuns, OneExecution,
         ResultIsKept, Uncancelled, [Next]_vars
  PROVE  OneExecution'
<1> USE DEF OnceInv
<1> SUFFICES ASSUME NEW j \in Job, status'[j] = "RUNNING"
             PROVE  /\ snap'[j].tok # NoToken => snap'[j] = [status |-> status'[j], tok |-> jobToken'[j]]
                    /\ task'[j].pc \in {"rqueued", "rcleaning", "rreporting"} =>
                         task'[j].tok = jobToken'[j] /\ task'[j].outcome = "RUNNING"
                    /\ task'[j].pc = "running" => journal'[j].tok = jobToken'[j]
                    /\ j \in Build /\ journal'[j].done # "NONE" => journal'[j].tok = jobToken'[j]
  BY DEF OneExecution, Recovering, Seen
<1>1. ASSUME NEW c \in calls, c.job = j, claimQueued(c)
      PROVE  /\ snap'[j].tok = NoToken
             /\ task'[j].pc \notin Busy
             /\ j \in Build => journal'[j].done = "NONE"
  <2>1. status[j] = "QUEUED"
    BY <1>1, ClaimQueuedWrites
  <2>2. snap[j].tok = NoToken /\ task[j].pc \notin Busy /\ (j \in Build => journal[j].done = "NONE")
    BY <2>1 DEF ClaimedIsPast, ResultIsKept, Open
  <2>3. UNCHANGED <<snap, journal>>
    BY <1>1 DEF claimQueued, hostVars
  <2>4. task'[j].pc \in {task[j].pc, "granted"}
    BY <1>1 DEF claimQueued, Claimed, SetTask, OwnTypes, AgentTyped, TaskType
  <2>5. QED
    BY <2>2, <2>3, <2>4 DEF Busy
<1>2. ASSUME status[j] = "RUNNING", jobToken'[j] = jobToken[j]
      PROVE  /\ snap'[j].tok # NoToken => snap'[j] = [status |-> status'[j], tok |-> jobToken'[j]]
             /\ task'[j].pc \in {"rqueued", "rcleaning", "rreporting"} =>
                  task'[j].tok = jobToken'[j] /\ task'[j].outcome = "RUNNING"
             /\ task'[j].pc = "running" => journal'[j].tok = jobToken'[j]
             /\ j \in Build /\ journal'[j].done # "NONE" => journal'[j].tok = jobToken'[j]
  <2>1. snap[j].tok # NoToken => snap[j] = Seen(j)
    BY <1>2 DEF OneExecution
  <2>2. snap'[j].tok # NoToken => snap'[j] = [status |-> status'[j], tok |-> jobToken'[j]]
    BY <1>2, <2>1, SnapStep DEF SnapMoves, Seen, NoSnap
  <2>3. TaskMoves(j) /\ KeepsTask(j) /\ HostMoves(j)
    BY TaskStep, HostStep
  <2>4. ASSUME task'[j].pc \in {"rqueued", "rcleaning", "rreporting"}
        PROVE  task'[j].tok = jobToken[j] /\ task'[j].outcome = "RUNNING"
    <3>1. CASE Begins(j)
      BY <1>2, <2>1, <2>4, <3>1 DEF Begins, Seen
    <3>2. CASE GoesOn(j)
      <4>1. Recovering(j) /\ task'[j].tok = task[j].tok /\ task'[j].outcome = task[j].outcome
        BY <2>3, <2>4, <3>2 DEF GoesOn, KeepsTask, enterRecovery, cleanUp, Recovering
      <4>2. QED
        BY <1>2, <4>1 DEF OneExecution
    <3>3. CASE task'[j] \in {task[j], NoTask, [task[j] EXCEPT !.abort = TRUE]}
      <4>1. Recovering(j) /\ task'[j].tok = task[j].tok /\ task'[j].outcome = task[j].outcome
        BY <2>4, <3>3 DEF Recovering, NoTask, OwnTypes, AgentTyped, TaskType
      <4>2. QED
        BY <1>2, <4>1 DEF OneExecution
    <3>4. QED
      BY <2>3, <3>1, <3>2, <3>3 DEF TaskMoves
  <2>5. ASSUME startHandler(j)
        PROVE  journal'[j].tok = jobToken[j]
    <3>1. task[j].pc = "granted" /\ journal'[j].tok = task[j].tok
      BY <2>5 DEF startHandler, OwnTypes, HostTyped, NoJournal
    <3>2. QED
      BY <3>1 DEF ReportedIsOver, HeldIsListed
  <2>6. ASSUME NEW c \in calls, c.job = j, completeAnswer(c)
        PROVE  FALSE
    BY <1>2, <2>6 DEF completeAnswer, IsComplete, CompletedIsPast
  <2>7. startHandler(j) \/ journal'[j].tok = journal[j].tok
    BY <2>3, <2>6 DEF HostMoves
  <2>8. ASSUME task'[j].pc = "running"
        PROVE  journal'[j].tok = jobToken[j]
    <3>1. startHandler(j) \/ task[j].pc = "running"
      BY <2>3, <2>8 DEF TaskMoves, Begins, GoesOn, NoTask, OwnTypes, AgentTyped, TaskType
    <3>2. QED
      BY <1>2, <2>5, <2>7, <3>1 DEF OneExecution
  <2>9. ASSUME j \in Build, journal'[j].done # "NONE"
        PROVE  journal'[j].tok = jobToken[j]
    <3>1. startHandler(j) \/ task[j].pc = "running" \/ journal[j].done # "NONE"
      BY <2>3, <2>6, <2>9 DEF HostMoves, handlerEnds
    <3>2. QED
      BY <1>2, <2>5, <2>7, <2>9, <3>1 DEF OneExecution
  <2>10. QED
    BY <1>2, <2>2, <2>4, <2>8, <2>9
<1>3. ASSUME NEW c \in calls, c.job = j, completeAnswer(c)
      PROVE  status[j] # "RUNNING"
  BY <1>3 DEF completeAnswer, IsComplete, CompletedIsPast
<1>4. \/ \E c \in calls : c.job = j /\ claimQueued(c)
      \/ status[j] = "RUNNING"
  BY StatusStep DEF StatusMoves, ResultsAreFinal, IsComplete, Final
<1>5. \/ \E c \in calls : c.job = j /\ claimQueued(c)
      \/ status[j] = "RUNNING" /\ jobToken'[j] = jobToken[j]
  BY <1>3, <1>4, JobTokenStep DEF JobTokenMoves
<1>6. QED
  BY <1>1, <1>2, <1>5 DEF Busy

LEMMA ResultIsKeptStep ==
  ASSUME OwnTypes, OnceInv, Uncancelled, UndecidedRuns, OneExecution, ResultIsKept, [Next]_vars
  PROVE  ResultIsKept'
<1> USE DEF OnceInv
<1> SUFFICES ASSUME NEW j \in Build, journal'[j].done # "NONE"
             PROVE  /\ status'[j] \notin Open
                    /\ status'[j] \in Final => status'[j] = journal'[j].done
                    /\ status'[j] = "RUNNING" =>
                         /\ task'[j].pc \in {"settling", "reporting"} => task'[j].outcome = journal'[j].done
                         /\ \A d \in calls' : d.kind = "complete" /\ d.job = j => d.status = journal'[j].done
  BY DEF ResultIsKept
<1>0. j \in Job
  BY JobAssumption
<1>1. CASE handlerEnds(j)
  <2>1. PICK o \in {"SUCCEEDED", "CANCELLED"} :
          /\ SetTask(j, [task[j] EXCEPT !.pc = "settling", !.outcome = o])
          /\ journal' = [journal EXCEPT ![j].done = o]
    BY <1>1 DEF handlerEnds
  <2>2. task'[j].outcome = o /\ journal'[j].done = o
    BY <1>0, <2>1 DEF SetTask, OwnTypes, AgentTyped, TaskType, HostTyped, JournalType
  <2>3. task[j].pc = "running" /\ UNCHANGED <<status, calls>>
    BY <1>1 DEF handlerEnds, serverVars
  <2>4. status[j] = "RUNNING" /\ \A c \in calls : c.job = j => c.kind # "complete"
    BY <1>0, <2>3 DEF UndecidedRuns
  <2>5. QED
    BY <2>2, <2>3, <2>4 DEF Open, Final
<1>2. CASE ~handlerEnds(j)
  <2>1. TaskMoves(j) /\ KeepsTask(j) /\ HostMoves(j) /\ StatusMoves(j)
    BY <1>0, TaskStep, HostStep, StatusStep
  <2>2. journal[j].done # "NONE" /\ journal'[j].done = journal[j].done
    BY <1>2, <2>1 DEF HostMoves, NoJournal
  <2>3. status[j] \notin Open /\ status[j] # "CANCELLING"
    BY <1>0, <2>2 DEF ResultIsKept, Uncancelled
  <2>4. ASSUME NEW c \in calls
        PROVE  ~IsCancel(c, "write") /\ (IsComplete(c, "write") => c.kind = "complete" /\ c.status \in Final)
    BY DEF Uncancelled, IsCancel, IsComplete, ResultsAreFinal
  <2>5. \/ status'[j] = status[j]
        \/ status[j] = "RUNNING" /\ \E c \in calls :
             c.kind = "complete" /\ c.job = j /\ status'[j] = c.status /\ c.status \in Final
    BY <2>1, <2>3, <2>4 DEF StatusMoves, Open, Active
  <2>6. status'[j] \notin Open
    BY <2>3, <2>5 DEF Open, Final
  <2>7. status'[j] \in Final => status'[j] = journal[j].done
    BY <2>2, <2>5 DEF ResultIsKept
  <2>8. ASSUME status'[j] = "RUNNING"
        PROVE  status[j] = "RUNNING"
    BY <2>5, <2>8 DEF Final
  <2>9. ASSUME status'[j] = "RUNNING", task'[j].pc \in {"settling", "reporting"}
        PROVE  task'[j].outcome = journal[j].done
    <3>1. ~startHandler(j)
      BY <1>0, <2>2 DEF startHandler, OwnTypes, HostTyped, NoJournal
    <3>2. CASE settle(j) /\ task'[j].pc = "reporting"
      <4>1. task[j].pc = "settling" /\ task'[j].outcome = task[j].outcome
        BY <2>1, <3>2 DEF settle, KeepsTask
      <4>2. QED
        BY <2>2, <2>8, <2>9, <4>1 DEF ResultIsKept
    <3>3. CASE task'[j] \in {task[j], NoTask, [task[j] EXCEPT !.abort = TRUE]}
      <4>1. task[j].pc \in {"settling", "reporting"} /\ task'[j].outcome = task[j].outcome
        BY <1>0, <2>9, <3>3 DEF NoTask, OwnTypes, AgentTyped, TaskType
      <4>2. QED
        BY <2>2, <2>8, <2>9, <4>1 DEF ResultIsKept
    <3>4. QED
      BY <1>2, <2>1, <2>9, <3>1, <3>2, <3>3 DEF TaskMoves, Begins, GoesOn
  <2>10. ASSUME status'[j] = "RUNNING", NEW d \in calls', d.kind = "complete", d.job = j
         PROVE  d.status = journal[j].done
    <3>1. status[j] = "RUNNING"
      BY <2>8, <2>10
    <3>2. ASSUME NEW c \in calls, SameCall(c, d)
          PROVE  d.status = journal[j].done
      BY <2>2, <2>10, <3>1, <3>2 DEF SameCall, ResultIsKept
    <3>3. ASSUME task[j].pc \in {"rcleaning", "rreporting"}
          PROVE  Verdict(j) = journal[j].done
      <4>1. task[j].outcome = "RUNNING" /\ journal[j].tok = task[j].tok
        BY <1>0, <2>2, <3>1, <3>3 DEF OneExecution, Recovering
      <4>2. QED
        BY <2>2, <4>1 DEF Verdict, Checkpoint
    <3>4. ASSUME task[j].pc \in {"settling", "reporting"}
          PROVE  task[j].outcome = journal[j].done
      BY <2>2, <3>1, <3>4 DEF ResultIsKept
    <3>5. ASSUME Sent(d)
          PROVE  d.status = journal[j].done
      <4>1. snap[j].status # "CANCELLING"
        BY <1>0 DEF Uncancelled
      <4>2. \/ task[j].pc \in {"settling", "reporting"} /\ d.status = task[j].outcome
            \/ task[j].pc \in {"rcleaning", "rreporting"} /\ d.status = Verdict(j)
        BY <2>10, <3>5, <4>1 DEF Sent, report, reportRecovered
      <4>3. QED
        BY <3>3, <3>4, <4>2
    <3>6. QED
      BY <2>10, <3>2, <3>5, CallStep DEF ComesFrom, OwnTypes
  <2>11. QED
    BY <2>2, <2>6, <2>7, <2>9, <2>10
<1>3. QED
  BY <1>1, <1>2

(* As long as nobody has cancelled anything and no completion is refused   *)
(* for good, the outcome a build has checkpointed is the one its job ends  *)
(* with, whatever crashed, timed out or was reported twice meanwhile.      *)
THEOREM BuildResultSurvivesHolds ==
  ASSUME ~Rejecting
  PROVE  Spec => [](cancels = 0 => BuildResultSurvives)
<1> DEFINE Kept == Uncancelled /\ UndecidedRuns /\ OneExecution /\ ResultIsKept
           Inv == cancels \in Nat /\ (cancels = 0 => Kept)
<1>1. Init => Inv
  BY JobAssumption
     DEF Init, Uncancelled, UndecidedRuns, OneExecution, ResultIsKept, NoTask, NoSnap, NoJournal, Busy
<1>2. OwnTypes /\ LockTypeOK /\ OnceInv /\ ProtectedInv /\ Kept /\ NoCancel /\ [Next]_vars => Kept'
  <2>1. SUFFICES ASSUME OwnTypes, LockTypeOK, OnceInv, ProtectedInv, Kept, NoCancel, [Next]_vars
                 PROVE  Kept'
    OBVIOUS
  <2>2. Uncancelled'
    BY <2>1, UncancelledStep DEF OnceInv
  <2>3. UndecidedRuns'
    BY <2>1, UndecidedRunsStep
  <2>4. OneExecution' /\ ResultIsKept'
    BY <2>1, OneExecutionStep, ResultIsKeptStep DEF ProtectedInv
  <2>5. QED
    BY <2>2, <2>3, <2>4
<1> HIDE DEF Kept
<1>3. OwnTypes /\ LockTypeOK /\ OnceInv /\ ProtectedInv /\ Inv /\ [Next]_vars => Inv'
  BY <1>2, CancelsStep DEF NoCancel
<1>4. Inv => (cancels = 0 => BuildResultSurvives)
  BY DEF Kept, ResultIsKept, BuildResultSurvives
<1>5. Spec => []LockTypeOK
  BY JobsUseOperationLocks, LockTypeCorrect, PTL DEF UsesOperationLocks
<1> HIDE DEF Inv
<1>6. QED
  BY <1>1, <1>3, <1>4, <1>5, OwnTypesHold, OnceInvHolds, ProtectedInvHolds, PTL DEF Spec
===============================================================================
