------------------------------- MODULE AgentJobs -------------------------------
(***************************************************************************)
(* The life of the jobs of one control agent: the control plane's records  *)
(* (agent-control.service.ts) and holders (OperationLocks), the agent's    *)
(* executor and reconciliation loop (job-executor.ts, agent-runtime.ts)    *)
(* and the journal that outlives the agent (execution-recovery.ts).        *)
(*                                                                         *)
(* A server call is a record of `calls' that advances by the awaits of its *)
(* handler; a call may fail at each, and the agent may give up waiting for *)
(* an answer that still comes.  The agent may die with its jobs' processes *)
(* left running.                                                           *)
(***************************************************************************)
EXTENDS OperationLocks, FiniteSets

CONSTANTS
  Command,      \* jobs of kind command.run
  Build,        \* jobs of kind ios.build.run
  InCodebase,   \* jobs of a checkout (they carry a codebaseId)
  MaxFaults,    \* bound: crashes, restarts, failed calls and timeouts
  MaxCancels,   \* bound: cancellations asked by users
  MaxCalls,     \* bound: calls in flight for one job
  Rejecting     \* whether completions may be refused for good, as by a proxy

Job == Holder

ASSUME JobAssumption ==
  /\ \A j \in Job : Kind[j] = "AGENT_JOB" /\ Parent[j] = NoParent
  /\ Command \union Build \union InCodebase \subseteq Job
  /\ Command \intersect Build = {}
  /\ {MaxFaults, MaxCancels, MaxCalls} \subseteq Nat
  /\ Rejecting \in BOOLEAN

VARIABLES
  status,       \* AgentJob.status
  jobToken,     \* AgentJob.executionToken
  calls,        \* calls the control plane has received and not answered
  session,      \* the agent process: down, pending, recovering, ready or stopping
  snap,         \* what the reconciliation under way still has to look at
  task,         \* JobExecutor.running
  waiting,      \* jobs queued for the agent's own resources, in order
  events,       \* cancel and availability events on their way to the agent
  journal,      \* the execution journals on the agent's disk
  proc,         \* jobs that have processes running
  started,      \* how often the handler of a job was started
  faults, cancels

serverVars == <<status, jobToken, calls>>
agentVars == <<session, snap, task, waiting>>
hostVars == <<journal, proc, started>>
vars == <<lockVars, serverVars, agentVars, events, hostVars, faults, cancels>>

Active == {"QUEUED", "RUNNING", "CANCELLING"}
Final == {"SUCCEEDED", "FAILED", "CANCELLED"}   \* SUCCEEDED: the handler's own result

NoSnap == [status |-> "NONE", tok |-> NoToken]
NoTask == [pc |-> "none", tok |-> NoToken, abort |-> FALSE, outcome |-> "NONE"]
NoJournal == [tok |-> NoToken, settled |-> FALSE, done |-> "NONE"]

Init ==
  /\ LockInit
  /\ status = [j \in Job |-> "NONE"]
  /\ jobToken = [j \in Job |-> NoToken]
  /\ calls = {}
  /\ session = "pending"
  /\ snap = [j \in Job |-> NoSnap]
  /\ task = [j \in Job |-> NoTask]
  /\ waiting = <<>>
  /\ events = {}
  /\ journal = [j \in Job |-> NoJournal]
  /\ proc = {}
  /\ started = [j \in Job |-> 0]
  /\ faults = 0 /\ cancels = 0

-------------------------------------------------------------------------------
(* Calls *)

Seen(j) == [status |-> status[j], tok |-> jobToken[j]]

Call(kind, j, t, s, clean, verified) ==
  [kind |-> kind, job |-> j, tok |-> t, status |-> s, clean |-> clean,
   verified |-> verified, pc |-> "read", seen |-> NoSnap, awaited |-> kind # "cancel"]

(* The agent awaits the answers of its calls, those of an execution by its *)
(* token, until a timeout or its own end; nothing waits for a cancellation.*)
Forsaken(c) == [c EXCEPT !.awaited = FALSE]
Awaiting(j) == \E c \in calls : c.job = j /\ c.awaited /\ c.tok # NoToken
AwaitedByReconciliation(c) == c.awaited /\ c.tok = NoToken
ForsakeAll(S) == {IF c.job \in S THEN Forsaken(c) ELSE c : c \in calls}

CallsOf(j) == {c \in calls : c.job = j /\ c.kind # "cancel"}

(* A new call of the executor for job j. *)
Send(c) ==
  /\ ~Awaiting(c.job)
  /\ calls' = calls \union {c}

Advance(c, pc, seen) == calls' = (calls \ {c}) \union {[c EXCEPT !.pc = pc, !.seen = seen]}
Drop(c) == calls' = calls \ {c}

-------------------------------------------------------------------------------
(* The agent's own resources: RepositoryCoordinator grants them in order,  *)
(* behind what conflicts with them.                                        *)

HasTask(j) == task[j].pc # "none"
HoldsLocally(j) == task[j].pc \notin {"none", "queued", "rqueued"}

Position(j) == CHOOSE i \in 1 .. Len(waiting) : waiting[i] = j
Leave(j) == waiting' = SelectSeq(waiting, LAMBDA k : k # j)

MayEnter(j) ==
  \A k \in Job : <<j, k>> \in Conflicting /\ k # j =>
    /\ ~HoldsLocally(k)
    /\ task[k].pc \in {"queued", "rqueued"} => Position(j) < Position(k)

SetTask(j, t) == task' = [task EXCEPT ![j] = t]
EndTask(j) == SetTask(j, NoTask)

(* The agent process ends; what its jobs started goes on. *)
AgentDies ==
  /\ session' = "down"
  /\ snap' = [j \in Job |-> NoSnap]
  /\ task' = [j \in Job |-> NoTask]
  /\ waiting' = <<>>
  /\ events' = {}

(* The bus keeps nothing for an agent that is not subscribed. *)
Publish(type, j) ==
  events' = IF session = "down" THEN events ELSE events \union {<<type, j>>}

-------------------------------------------------------------------------------
(* Users *)

createJob(j) ==
  /\ status[j] = "NONE"
  /\ Request(j)
  /\ status' = [status EXCEPT ![j] = "QUEUED"]
  /\ Publish("JOB_AVAILABLE", j)
  /\ UNCHANGED <<jobToken, calls, agentVars, hostVars, faults, cancels>>

requestCancel(j) ==
  /\ cancels < MaxCancels
  /\ status[j] # "NONE"
  /\ calls' = calls \union {Call("cancel", j, NoToken, "NONE", TRUE, TRUE)}
  /\ cancels' = cancels + 1
  /\ UNCHANGED <<lockVars, status, jobToken, agentVars, events, hostVars, faults>>

-------------------------------------------------------------------------------
(* claimJob: one transaction *)

Claimed(c) ==
  IF c.awaited THEN SetTask(c.job, [task[c.job] EXCEPT !.pc = "granted", !.tok = c.tok])
  ELSE UNCHANGED task

(* Mutant: the execution stays after a refused claim. *)
M_Refused(c) == UNCHANGED task

Refused(c) == IF c.awaited THEN EndTask(c.job) ELSE UNCHANGED task

(* Mutant: the claim does not look at the other holders. *)
M_claimQueued(c) ==
  /\ c.kind = "claim" /\ status[c.job] = "QUEUED"
  /\ Hold(c.job, c.tok) /\ UNCHANGED <<before, fresh>>
  /\ status' = [status EXCEPT ![c.job] = "RUNNING"]
  /\ jobToken' = [jobToken EXCEPT ![c.job] = c.tok]
  /\ Drop(c) /\ Claimed(c)
  /\ UNCHANGED <<session, snap, waiting, events, hostVars, faults, cancels>>

claimQueued(c) ==
  /\ c.kind = "claim" /\ status[c.job] = "QUEUED"
  /\ AdmitJob(c.job, c.tok)
  /\ status' = [status EXCEPT ![c.job] = "RUNNING"]
  /\ jobToken' = [jobToken EXCEPT ![c.job] = c.tok]
  /\ Drop(c) /\ Claimed(c)
  /\ UNCHANGED <<session, snap, waiting, events, hostVars, faults, cancels>>

(* A claim whose first answer was lost is granted again. *)
claimAgain(c) ==
  /\ c.kind = "claim" /\ status[c.job] = "RUNNING"
  /\ state[c.job] = "HELD" /\ token[c.job] = c.tok
  /\ Drop(c) /\ Claimed(c)
  /\ UNCHANGED <<lockVars, status, jobToken, session, snap, waiting, events,
                 hostVars, faults, cancels>>

(* The worktree or branch of the job changed while it was queued. *)
claimTargetError(c) ==
  /\ c.kind = "claim" /\ status[c.job] = "QUEUED"
  /\ Release(c.job, NoToken)
  /\ status' = [status EXCEPT ![c.job] = "FAILED"]
  /\ Drop(c) /\ Refused(c)
  /\ UNCHANGED <<jobToken, session, snap, waiting, events, hostVars, faults, cancels>>

claimRejected(c) ==
  /\ c.kind = "claim"
  /\ \/ status[c.job] \notin {"QUEUED", "RUNNING"}
     \/ state[c.job] = "HELD" /\ token[c.job] # c.tok
     \/ state[c.job] = "RELEASED"
     \/ state[c.job] = "REQUESTED" /\ ~CanAdmit(c.job, before)
  /\ Drop(c) /\ Refused(c)
  /\ UNCHANGED <<lockVars, status, jobToken, session, snap, waiting, events,
                 hostVars, faults, cancels>>

-------------------------------------------------------------------------------
(* completeJob: read, write, project and release, acknowledge *)

IsComplete(c, pc) == c.kind = "complete" /\ c.pc = pc

(* "Legacy execution cleanup cannot be verified after restart": a job of a *)
(* checkout without a token is not completed on the word of an agent that  *)
(* did not run it.                                                         *)
LegacyUnverified(c) ==
  /\ jobToken[c.job] = NoToken
  /\ c.job \in InCodebase
  /\ status[c.job] \in {"RUNNING", "CANCELLING"}
  /\ ~c.verified

(* A refusal the reconciliation waits for rejects it, and nothing catches  *)
(* that: the agent process ends.                                           *)
completeRefused(c) ==
  /\ IsComplete(c, "read")
  /\ jobToken[c.job] \notin {NoToken, c.tok} \/ LegacyUnverified(c)
  /\ \/ /\ AwaitedByReconciliation(c)
        /\ AgentDies
        /\ calls' = {Forsaken(d) : d \in calls \ {c}}
     \/ /\ ~AwaitedByReconciliation(c)
        /\ Drop(c)
        /\ UNCHANGED <<agentVars, events>>
  /\ UNCHANGED <<lockVars, status, jobToken, hostVars, faults, cancels>>

(* Mutant: a result without verified cleanup releases the resources. *)
M_completeRead(c) ==
  /\ IsComplete(c, "read")
  /\ jobToken[c.job] \in {NoToken, c.tok} /\ ~LegacyUnverified(c)
  /\ calls' = (calls \ {c}) \union
       {[c EXCEPT !.clean = TRUE, !.seen = Seen(c.job),
                  !.pc = IF status[c.job] \in Active THEN "write" ELSE "release"]}
  /\ UNCHANGED <<lockVars, status, jobToken, agentVars, events, hostVars, faults, cancels>>

completeRead(c) ==
  /\ IsComplete(c, "read")
  /\ jobToken[c.job] \in {NoToken, c.tok} /\ ~LegacyUnverified(c)
  /\ Advance(c, IF status[c.job] \in Active THEN "write"
                ELSE IF c.clean THEN "release" ELSE "answer", Seen(c.job))
  /\ UNCHANGED <<lockVars, status, jobToken, agentVars, events, hostVars, faults, cancels>>

(* Mutant: the write does not look at the status again. *)
M_UncheckedWrite(c) ==
  /\ IsComplete(c, "write")
  /\ status' = [status EXCEPT ![c.job] = c.status]
  /\ Advance(c, IF c.clean THEN "release" ELSE "answer", Seen(c.job))
  /\ UNCHANGED <<lockVars, jobToken, agentVars, events, hostVars, faults, cancels>>

(* Mutant: the job is acknowledged without a release. *)
M_completeWrite(c) ==
  /\ IsComplete(c, "write")
  /\ status' = IF status[c.job] \in Active
               THEN [status EXCEPT ![c.job] = c.status] ELSE status
  /\ Advance(c, "answer", Seen(c.job))
  /\ UNCHANGED <<lockVars, jobToken, agentVars, events, hostVars, faults, cancels>>

completeWrite(c) ==
  /\ IsComplete(c, "write")
  /\ status' = IF status[c.job] \in Active
               THEN [status EXCEPT ![c.job] = c.status] ELSE status
  /\ Advance(c, IF c.clean THEN "release" ELSE "answer", Seen(c.job))
  /\ UNCHANGED <<lockVars, jobToken, agentVars, events, hostVars, faults, cancels>>

completeRelease(c) ==
  /\ IsComplete(c, "release")
  /\ IF c.job \in Live THEN Release(c.job, c.tok) ELSE UNCHANGED lockVars
  /\ Advance(c, "answer", c.seen)
  /\ UNCHANGED <<status, jobToken, agentVars, events, hostVars, faults, cancels>>

(* The agent forgets the journal of an execution the server acknowledged.  *)
completeAnswer(c) ==
  /\ IsComplete(c, "answer")
  /\ jobToken' = IF c.clean /\ c.seen.tok # NoToken
                 THEN [jobToken EXCEPT ![c.job] = NoToken] ELSE jobToken
  /\ Drop(c)
  /\ IF c.awaited /\ c.clean /\ c.tok # NoToken
     THEN /\ EndTask(c.job)
          /\ journal' = [journal EXCEPT ![c.job] = IF @.tok = c.tok THEN NoJournal ELSE @]
     ELSE UNCHANGED <<task, journal>>
  /\ UNCHANGED <<lockVars, status, session, snap, waiting, events, proc, started,
                 faults, cancels>>

-------------------------------------------------------------------------------
(* cancelJob: read, write, release and publish *)

IsCancel(c, pc) == c.kind = "cancel" /\ c.pc = pc

cancelRead(c) ==
  /\ IsCancel(c, "read")
  /\ IF status[c.job] \in Active THEN Advance(c, "write", Seen(c.job)) ELSE Drop(c)
  /\ UNCHANGED <<lockVars, status, jobToken, agentVars, events, hostVars, faults, cancels>>

(* commandCancellation: an agent may have to stop the job first. *)
Acknowledged(c) == c.job \in Command \/ c.seen.status # "QUEUED"

(* The update has no condition: it overwrites whatever the status is now.  *)
cancelWrite(c) ==
  /\ IsCancel(c, "write")
  /\ status' = [status EXCEPT ![c.job] =
                  IF Acknowledged(c) THEN "CANCELLING" ELSE "CANCELLED"]
  /\ Advance(c, "release", c.seen)
  /\ UNCHANGED <<lockVars, jobToken, agentVars, events, hostVars, faults, cancels>>

(* Mutant: the queue place of a cancelled job is kept. *)
M_cancelRelease(c) ==
  /\ IsCancel(c, "release")
  /\ Publish("JOB_CANCEL_REQUESTED", c.job)
  /\ Drop(c)
  /\ UNCHANGED <<lockVars, status, jobToken, agentVars, hostVars, faults, cancels>>

(* A release with another token throws before the event is published.      *)
cancelRelease(c) ==
  /\ IsCancel(c, "release")
  /\ \/ /\ Acknowledged(c) \/ c.job \notin Live
        /\ UNCHANGED lockVars
        /\ Publish("JOB_CANCEL_REQUESTED", c.job)
     \/ /\ ~Acknowledged(c) /\ c.job \in Live
        /\ Release(c.job, c.seen.tok)
        /\ Publish("JOB_CANCEL_REQUESTED", c.job)
     \/ /\ ~Acknowledged(c) /\ c.job \in Live
        /\ token[c.job] \notin {NoToken, c.seen.tok}
        /\ UNCHANGED <<lockVars, events>>
  /\ Drop(c)
  /\ UNCHANGED <<status, jobToken, agentVars, hostVars, faults, cancels>>

Serve(c) ==
  \/ claimQueued(c) \/ claimAgain(c) \/ claimRejected(c)
  \/ completeRefused(c) \/ completeRead(c) \/ completeWrite(c)
  \/ completeRelease(c) \/ completeAnswer(c)
  \/ cancelRead(c) \/ cancelWrite(c) \/ cancelRelease(c)

-------------------------------------------------------------------------------
(* JobExecutor *)

(* execute *)
Enqueue(j, t) ==
  /\ task' = [task EXCEPT ![j] = t]
  /\ waiting' = Append(waiting, j)

execute(j, t) ==
  IF HasTask(j) THEN UNCHANGED <<task, waiting>>
  ELSE Enqueue(j, [NoTask EXCEPT !.pc = "queued", !.tok = t])

(* recover; outcome is the status the agent saw *)
recover(j, s) ==
  IF HasTask(j) THEN UNCHANGED <<task, waiting>>
  ELSE Enqueue(j, [NoTask EXCEPT !.pc = "rqueued", !.tok = s.tok, !.outcome = s.status])

(* cancel: nothing reaches an execution whose cleanup is under way. *)
cancel(j) ==
  CASE task[j].pc = "queued" -> EndTask(j) /\ Leave(j)
    [] task[j].pc \in {"claiming", "granted", "running"} ->
         SetTask(j, [task[j] EXCEPT !.abort = TRUE]) /\ UNCHANGED waiting
    [] OTHER -> UNCHANGED <<task, waiting>>

FreshTokens(j) ==
  Token \ ({jobToken[j], token[j], journal[j].tok} \union {c.tok : c \in CallsOf(j)})

(* Mutant: the claim presents the token of the job, which may have none. *)
M_claim(j) ==
  /\ task[j].pc = "queued" /\ MayEnter(j)
  /\ Cardinality(CallsOf(j)) < MaxCalls
  /\ Send(Call("claim", j, task[j].tok, "NONE", TRUE, TRUE))
  /\ SetTask(j, [task[j] EXCEPT !.pc = "claiming"])
  /\ Leave(j)
  /\ UNCHANGED <<lockVars, status, jobToken, session, snap, events, hostVars, faults, cancels>>

(* runGranted begins: the agent's resources are free, the job is claimed.  *)
claim(j) ==
  /\ task[j].pc = "queued" /\ MayEnter(j)
  /\ Cardinality(CallsOf(j)) < MaxCalls
  /\ \E t \in IF task[j].tok # NoToken THEN {task[j].tok} ELSE FreshTokens(j) :
       Send(Call("claim", j, t, "NONE", TRUE, TRUE))
  /\ SetTask(j, [task[j] EXCEPT !.pc = "claiming"])
  /\ Leave(j)
  /\ UNCHANGED <<lockVars, status, jobToken, session, snap, events, hostVars, faults, cancels>>

(* withExecutionJournal: the journal is on disk before any process starts. *)
startHandler(j) ==
  /\ task[j].pc = "granted"
  /\ journal' = [journal EXCEPT ![j] = [NoJournal EXCEPT !.tok = task[j].tok]]
  /\ IF task[j].abort
     THEN /\ SetTask(j, [task[j] EXCEPT !.pc = "settling", !.outcome = "CANCELLED"])
          /\ UNCHANGED <<proc, started>>
     ELSE /\ SetTask(j, [task[j] EXCEPT !.pc = "running"])
          /\ proc' = proc \union {j}
          /\ started' = [started EXCEPT ![j] = @ + 1]
  /\ UNCHANGED <<lockVars, serverVars, session, snap, waiting, events, faults, cancels>>

(* The handler returns; processes it started may still run.  A build       *)
(* checkpoints its result in the journal.                                  *)
handlerEnds(j) ==
  /\ task[j].pc = "running"
  /\ \E outcome \in IF task[j].abort THEN {"SUCCEEDED", "CANCELLED"} ELSE {"SUCCEEDED"} :
       /\ SetTask(j, [task[j] EXCEPT !.pc = "settling", !.outcome = outcome])
       /\ journal' = IF j \in Build
                     THEN [journal EXCEPT ![j].done = outcome] ELSE journal
  /\ UNCHANGED <<lockVars, serverVars, session, snap, waiting, events, proc, started,
                 faults, cancels>>

Settled(j) ==
  /\ proc' = proc \ {j}
  /\ journal' = [journal EXCEPT ![j].settled = TRUE]

settle(j) ==
  /\ task[j].pc = "settling" /\ ~Awaiting(j)
  /\ Settled(j)
  /\ SetTask(j, [task[j] EXCEPT !.pc = "reporting"])
  /\ UNCHANGED <<lockVars, serverVars, session, snap, waiting, events, started, faults, cancels>>

completeJob(j, s, clean, verified) ==
  /\ Cardinality(CallsOf(j)) < MaxCalls
  /\ Send(Call("complete", j, task[j].tok, s, clean, verified))

report(j) ==
  /\ task[j].pc = "reporting"
  /\ completeJob(j, task[j].outcome, TRUE, TRUE)
  /\ UNCHANGED <<lockVars, status, jobToken, agentVars, events, hostVars, faults, cancels>>

enterRecovery(j) ==
  /\ task[j].pc = "rqueued" /\ MayEnter(j)
  /\ SetTask(j, [task[j] EXCEPT !.pc = "rcleaning"])
  /\ Leave(j)
  /\ UNCHANGED <<lockVars, serverVars, session, snap, events, hostVars, faults, cancels>>

(* recoverExecution: without a journal no process was started. *)
cleanUp(j) ==
  /\ task[j].pc = "rcleaning" /\ ~Awaiting(j)
  /\ IF journal[j].tok = task[j].tok THEN Settled(j) ELSE UNCHANGED <<proc, journal>>
  /\ SetTask(j, [task[j] EXCEPT !.pc = "rreporting"])
  /\ UNCHANGED <<lockVars, serverVars, session, snap, waiting, events, started, faults, cancels>>

Checkpoint(j) == IF journal[j].tok = task[j].tok THEN journal[j].done ELSE "NONE"

(* Mutant: an interrupted build is failed without a look at its journal. *)
M_Verdict(j) ==
  CASE task[j].outcome = "RUNNING" -> "FAILED"
    [] task[j].outcome = "CANCELLING" -> "CANCELLED"
    [] OTHER -> task[j].outcome

Verdict(j) ==
  LET s == task[j].outcome IN
  CASE s \in {"RUNNING", "CANCELLING"} /\ Checkpoint(j) # "NONE" -> Checkpoint(j)
    [] s = "RUNNING" /\ Checkpoint(j) = "NONE" -> "FAILED"
    [] s = "CANCELLING" /\ Checkpoint(j) = "NONE" -> "CANCELLED"
    [] OTHER -> s

reportRecovered(j) ==
  /\ task[j].pc = "rreporting"
  /\ completeJob(j, Verdict(j), TRUE, Checkpoint(j) # "NONE")
  /\ UNCHANGED <<lockVars, status, jobToken, agentVars, events, hostVars, faults, cancels>>

(* The processes of a build cannot be inspected in time: its result is     *)
(* reported before they are known to be gone, with cleanupVerified unset.  *)
preserve(j) ==
  /\ j \in Build /\ faults < MaxFaults
  /\ \/ task[j].pc = "settling" /\ completeJob(j, task[j].outcome, FALSE, TRUE)
     \/ /\ task[j].pc = "rcleaning" /\ Checkpoint(j) # "NONE"
        /\ completeJob(j, Verdict(j), FALSE, TRUE)
  /\ faults' = faults + 1
  /\ UNCHANGED <<lockVars, status, jobToken, agentVars, events, hostVars, cancels>>

Executor(j) ==
  \/ claim(j) \/ startHandler(j) \/ handlerEnds(j) \/ settle(j)
  \/ report(j) \/ enterRecovery(j) \/ cleanUp(j) \/ reportRecovered(j)

-------------------------------------------------------------------------------
(* runAgent: events and reconciliation *)

(* listJobs with includeSystem *)
Listed(j) == status[j] \in Active \union {"CANCELLED"} \/ jobToken[j] # NoToken

(* Executions without a token that may have been left by an older agent.   *)
legacyActive ==
  {j \in Job : /\ jobToken[j] = NoToken
               /\ status[j] \in {"RUNNING", "CANCELLING"}
               /\ j \in InCodebase \union Command}

Recovering(j) == task[j].pc \in {"rqueued", "rcleaning", "rreporting"}

fetch ==
  /\ session \in {"pending", "ready"}
  /\ session = "pending" => legacyActive = {}
  /\ \A j \in Job : snap[j] = NoSnap /\ task[j].pc # "rqueued"
  /\ \A c \in calls : ~AwaitedByReconciliation(c)
  /\ session = "ready" => \E j \in Job : Listed(j)
  /\ snap' = [j \in Job |-> IF Listed(j) THEN Seen(j) ELSE NoSnap]
  /\ session' = IF session = "pending" THEN "recovering" ELSE session
  /\ UNCHANGED <<lockVars, serverVars, task, waiting, events, hostVars, faults, cancels>>

(* Mutant: what was running when the agent ended is executed again. *)
M_Interrupted(j) ==
  session = "recovering" /\ snap[j].tok # NoToken /\ snap[j].status \notin {"QUEUED", "RUNNING"}

(* Interrupted executions, reaped before anything else at startup.         *)
Interrupted(j) ==
  session = "recovering" /\ snap[j].tok # NoToken /\ snap[j].status # "QUEUED"

(* A job the agent has no execution of is completed by the reconciliation. *)
completeUnclaimed(j) ==
  IF Cardinality(CallsOf(j)) < MaxCalls
  THEN calls' = calls \union {Call("complete", j, NoToken, "CANCELLED", TRUE, FALSE)}
  ELSE UNCHANGED calls

reconcile(j) ==
  LET s == snap[j] IN
  /\ session \in {"recovering", "ready"}
  /\ s # NoSnap
  /\ Interrupted(j) \/ \A k \in Job :
        ~Interrupted(k) /\ (session = "recovering" => ~Recovering(k))
  /\ snap' = [snap EXCEPT ![j] = NoSnap]
  /\ CASE Interrupted(j) -> recover(j, s) /\ UNCHANGED calls
       [] ~Interrupted(j) /\ s.tok # NoToken /\ s.status \in Final ->
            (IF HasTask(j) THEN cancel(j) ELSE recover(j, s)) /\ UNCHANGED calls
       [] s.tok = NoToken /\ s.status = "CANCELLED" -> cancel(j) /\ UNCHANGED calls
       [] ~Interrupted(j) /\ s.status = "CANCELLING" ->
            IF HasTask(j) THEN cancel(j) /\ UNCHANGED calls
            ELSE IF s.tok # NoToken THEN recover(j, s) /\ UNCHANGED calls
            ELSE completeUnclaimed(j) /\ UNCHANGED <<task, waiting>>
       [] OTHER -> execute(j, s.tok) /\ UNCHANGED calls
  /\ UNCHANGED <<lockVars, status, jobToken, session, events, hostVars, faults, cancels>>

startupRecovered ==
  /\ session = "recovering"
  /\ \A j \in Job : snap[j] = NoSnap /\ ~Recovering(j)
  /\ \A c \in calls : ~AwaitedByReconciliation(c)
  /\ session' = "ready"
  /\ UNCHANGED <<lockVars, serverVars, snap, task, waiting, events, hostVars, faults, cancels>>

(* JOB_AVAILABLE waits for the startup recovery. *)
jobAvailable(j) ==
  /\ session = "ready"
  /\ <<"JOB_AVAILABLE", j>> \in events
  /\ execute(j, NoToken)
  /\ events' = events \ {<<"JOB_AVAILABLE", j>>}
  /\ UNCHANGED <<lockVars, serverVars, session, snap, hostVars, faults, cancels>>

jobCancelRequested(j) ==
  /\ session # "down"
  /\ <<"JOB_CANCEL_REQUESTED", j>> \in events
  /\ cancel(j)
  /\ events' = events \ {<<"JOB_AVAILABLE", j>>, <<"JOB_CANCEL_REQUESTED", j>>}
  /\ UNCHANGED <<lockVars, serverVars, session, snap, hostVars, faults, cancels>>

(* What cannot be verified or reported while the agent stops is left to    *)
(* its recovery.                                                           *)
givesUp(j) ==
  /\ session = "stopping" /\ ~Awaiting(j)
  /\ task[j].pc \in {"settling", "reporting", "rcleaning", "rreporting"}
  /\ EndTask(j)
  /\ UNCHANGED <<lockVars, serverVars, session, snap, waiting, events, hostVars, faults, cancels>>

agentExits ==
  /\ session = "stopping"
  /\ \A j \in Job : ~HasTask(j)
  /\ AgentDies
  /\ calls' = ForsakeAll(Job)
  /\ UNCHANGED <<lockVars, status, jobToken, hostVars, faults, cancels>>

agentStarts ==
  /\ session = "down"
  /\ session' = "pending"
  /\ UNCHANGED <<lockVars, serverVars, snap, task, waiting, events, hostVars, faults, cancels>>

-------------------------------------------------------------------------------
(* Faults *)

Fault ==
  /\ faults < MaxFaults
  /\ faults' = faults + 1
  /\ UNCHANGED <<lockVars, status, jobToken, hostVars, cancels>>

(* The agent gets no answer to the calls C: an execution whose claim is    *)
(* not answered ends, a reconciliation takes the process with it.          *)
GoUnanswered(C) ==
  IF \E c \in C : AwaitedByReconciliation(c) THEN AgentDies
  ELSE /\ task' = [j \in Job |->
            IF task[j].pc = "claiming" /\ \E c \in C : c.job = j /\ c.awaited
            THEN NoTask ELSE task[j]]
       /\ UNCHANGED <<session, snap, waiting, events>>

(* A shutdown signal: executions are aborted and their end is awaited.     *)
agentStops ==
  /\ session \in {"recovering", "ready"}
  /\ Fault
  /\ session' = "stopping"
  /\ snap' = [j \in Job |-> NoSnap]
  /\ task' = [j \in Job |->
       CASE task[j].pc \in {"queued", "rqueued"} -> NoTask
         [] task[j].pc \in {"claiming", "granted", "running"} -> [task[j] EXCEPT !.abort = TRUE]
         [] OTHER -> task[j]]
  /\ waiting' = <<>>
  /\ UNCHANGED <<calls, events>>

agentCrashes ==
  /\ session # "down"
  /\ Fault
  /\ AgentDies
  /\ calls' = ForsakeAll(Job)

(* The control plane restarts: its calls end where they are.               *)
serverRestarts ==
  /\ Fault
  /\ calls # {}
  /\ GoUnanswered(calls)
  /\ calls' = {}

(* One call fails at an await, as when the projection of a completion      *)
(* throws, or is lost on its way.                                          *)
callFails(c) ==
  /\ Fault
  /\ GoUnanswered({c})
  /\ calls' = IF AwaitedByReconciliation(c)
              THEN {Forsaken(d) : d \in calls \ {c}} ELSE calls \ {c}

(* A completion is refused on its way with a client error: the executor    *)
(* gives up reporting, and with it the entry that keeps the job from being *)
(* executed again.                                                         *)
completionRejected(c) ==
  /\ Rejecting
  /\ IsComplete(c, "read")
  /\ c.awaited /\ task[c.job].pc = "reporting"
  /\ Fault
  /\ EndTask(c.job)
  /\ Drop(c)
  /\ UNCHANGED <<session, snap, waiting, events>>

(* An event is lost: the bus is in memory and delivers at most once.       *)
eventLost(e) ==
  /\ Fault
  /\ events' = events \ {e}
  /\ UNCHANGED <<calls, agentVars>>

(* The agent gives up an answer; the call may still go on.                 *)
agentTimesOut(c) ==
  /\ c.awaited
  /\ Fault
  /\ GoUnanswered({c})
  /\ calls' = IF AwaitedByReconciliation(c) THEN ForsakeAll(Job)
              ELSE (calls \ {c}) \union {Forsaken(c)}

Faults ==
  \/ agentStops \/ agentCrashes \/ serverRestarts
  \/ \E c \in calls : callFails(c) \/ completionRejected(c) \/ agentTimesOut(c)
  \/ \E e \in events : eventLost(e)

-------------------------------------------------------------------------------
ClockTick == Tick /\ UNCHANGED <<serverVars, agentVars, events, hostVars, faults, cancels>>

Next ==
  \/ \E j \in Job : createJob(j) \/ requestCancel(j)
  \/ \E c \in calls : Serve(c) \/ claimTargetError(c)
  \/ \E j \in Job : Executor(j) \/ preserve(j)
  \/ \E j \in Job : reconcile(j) \/ jobAvailable(j) \/ jobCancelRequested(j)
  \/ \E j \in Job : givesUp(j)
  \/ fetch \/ startupRecovered \/ agentExits \/ agentStarts
  \/ Faults
  \/ ClockTick

Spec == Init /\ [][Next]_vars

(* The server handles the calls it received, the agent restarts, fetches,  *)
(* runs its tasks; handlers end.  Users owe nothing.                       *)
Fairness ==
  /\ \A j \in Job, k \in {"claim", "complete", "cancel"} :
       WF_vars(\E c \in calls : c.job = j /\ c.kind = k /\ Serve(c))
  /\ \A j \in Job : WF_vars(claim(j)) /\ WF_vars(enterRecovery(j))
  /\ \A j \in Job : WF_vars(startHandler(j) \/ handlerEnds(j) \/ settle(j) \/ cleanUp(j))
  /\ \A j \in Job : WF_vars(report(j) \/ reportRecovered(j))
  /\ \A j \in Job : WF_vars(reconcile(j))
  /\ WF_vars(fetch) /\ WF_vars(startupRecovered)
  /\ WF_vars(agentExits) /\ WF_vars(agentStarts)
  /\ WF_vars(ClockTick)

FairSpec == Spec /\ Fairness

-------------------------------------------------------------------------------
(* Properties *)

Statuses == {"NONE"} \union Active \union Final

TokenOrNone == Token \union {NoToken}
SnapType == [status : Statuses, tok : TokenOrNone]
TaskType ==
  [pc : {"none", "queued", "claiming", "granted", "running", "settling", "reporting",
         "rqueued", "rcleaning", "rreporting"},
   tok : TokenOrNone, abort : BOOLEAN, outcome : Statuses]
CallType ==
  [kind : {"claim", "complete", "cancel"}, job : Job, tok : TokenOrNone, status : Statuses,
   clean : BOOLEAN, verified : BOOLEAN, pc : {"read", "write", "release", "answer"},
   seen : SnapType, awaited : BOOLEAN]
JournalType == [tok : TokenOrNone, settled : BOOLEAN, done : Statuses]

(* Types; and a claim always carries an execution token: without one the   *)
(* grant could not be presented at its release.                            *)
AgentJobsTypeOK ==
  /\ LockTypeOK
  /\ status \in [Job -> Statuses]
  /\ jobToken \in [Job -> TokenOrNone]
  /\ calls \subseteq CallType
  /\ \A c \in calls : c.kind = "claim" => c.tok \in Token
  /\ snap \in [Job -> SnapType]
  /\ task \in [Job -> TaskType]
  /\ journal \in [Job -> JournalType]
  /\ proc \subseteq Job
  /\ started \in [Job -> Nat]

(* As long as a process of a job may run, whatever crashed, was cancelled  *)
(* or was answered twice meanwhile, its holder is HELD and the journal the *)
(* agent would find it by is on disk under the token of the holder.        *)
ProcessesProtected ==
  \A j \in proc :
     /\ j \in Held
     /\ journal[j].tok = token[j] /\ ~journal[j].settled

(* No holder is orphaned: a HELD holder carries the token of its job, so   *)
(* listJobs offers the job to the agent until the holder is released.      *)
HeldIsListed ==
  \A j \in Held : token[j] # NoToken /\ jobToken[j] = token[j]

(* A job's handler is started at most once, whatever claims and snapshots  *)
(* arrive late, for the work of a job is not repeatable: the executor is   *)
(* to "keep the result and the running entry until the server accepts      *)
(* completion".                                                            *)
HandlerRunsOnce == \A j \in Job : started[j] <= 1

(* "A finished build survives a restart even when process inspection       *)
(* failed": once checkpointed, the outcome of a build is the one reported. *)
BuildResultSurvives ==
  \A j \in Build : status[j] \in Final /\ journal[j].done # "NONE" => status[j] = journal[j].done

(* "Preserves the first terminal status and result on duplicate            *)
(* completion": of the completions of a job that overlap, the first to     *)
(* write decides.                                                          *)
FirstCompletionCounts ==
  [][\A j \in Job : status[j] \in Final /\ status'[j] # status[j] =>
       \E c \in calls : c.job = j /\ IsCancel(c, "write")]_vars

(* What the protocol does to the holders is what OperationLocks allows, so *)
(* its mutual exclusion and queueing hold for the jobs of agents.          *)
UsesOperationLocks == LockSpec

(* Every job comes to rest: final, its resources released and its grant    *)
(* acknowledged, after finitely many crashes, restarts and lost calls, or  *)
(* after finitely many cancellations at any moment.  A cancellation that   *)
(* read a job before its completion and writes after it leaves a job of a  *)
(* checkout CANCELLING for good: with its token gone, what the agent       *)
(* completes is refused as legacy.  Even then its resources are free and   *)
(* its grant is acknowledged.  Not after faults and cancellations both: a  *)
(* control plane that ends between the status and the release of cancelJob *)
(* leaves a holder nobody releases.                                        *)
GivenBack(j) == state[j] = "RELEASED" /\ jobToken[j] = NoToken
AtRest(j) == status[j] \in Final /\ GivenBack(j)
Overwritten(j) == j \in InCodebase /\ status[j] = "CANCELLING" /\ GivenBack(j)

EveryJobSettles ==
  \A j \in Job : status[j] # "NONE" ~> AtRest(j) \/ Overwritten(j) \/ (faults > 0 /\ cancels > 0)

(* The cancellation of a job no agent ever started is carried out:         *)
(* CANCELLING is a state on the way, for a queued job as for a running one *)
(* ("Terminating a run", commands.service.test.ts).                        *)
QueuedCancellationEnds ==
  \A j \in Job : status[j] = "CANCELLING" /\ started[j] = 0 ~> status[j] # "CANCELLING"

===============================================================================
