----------------------------- MODULE AgentRuns -----------------------------
(***************************************************************************)
(* AI sessions of one worktree: the control plane's runs and their         *)
(* commands (src/services/runs/runs.service.ts) and the manager of the     *)
(* agent that executes them                                                *)
(* (packages/control-agent/src/runs/run-manager.ts).                       *)
(*                                                                         *)
(* A run waits QUEUED for a slot of the worktree's lane, keeps it as a     *)
(* lease while it is IN_PROGRESS or PAUSED, and gives it up when it is     *)
(* final.  Users act on the rows at once; what the agent has to do is a    *)
(* command it is told of, claims, executes and acknowledges later.  A      *)
(* command that starts a provider holds the source of the worktree from    *)
(* its claim to its acknowledgement, which keeps builds out.               *)
(*                                                                         *)
(* Every transaction and every query outside of one is an action; the      *)
(* agent may crash, with provider processes surviving it, or lose its      *)
(* connection between any two of its steps, and any answer may be lost.    *)
(***************************************************************************)
EXTENDS Naturals, SequencesExt

CONSTANTS
  Run,
  Limit,        \* worktreeConcurrencyLimit of each run, 0 for none
  NoRun,
  MaxCommands,  \* bound on the commands of a behaviour
  MaxFaults     \* bound on crashes, lost connections or answers, and on
                \* absences of the agent that are long enough to be reaped

ASSUME NoRunAssumption == NoRun \notin Run
ASSUME LimitAssumption == Limit \in [Run -> Nat]
ASSUME BoundsAssumption == MaxCommands \in Nat /\ MaxFaults \in Nat

Command == 1 .. MaxCommands
Final == {"COMPLETED", "FAILED", "CANCELLED"}
Running == {"IN_PROGRESS", "PAUSED"}
Starts == {"START", "CONTINUE"}
Interrupts == {"PAUSE", "CANCEL"}

VARIABLES
  status,       \* the status of each run, NONE before it is created
  pausing,      \* runs in phase PAUSE_REQUESTED
  line,         \* the runs in the order of (createdAt, id)
  lease,        \* runs with a slot of the worktree
  attempts,     \* the statuses of the attempts of each run, by generation
  commands,     \* the commands in the order they were enqueued
  held,         \* commands whose operation holder is HELD
  source,       \* the PAUSED run a follow-up request has read
  reaping       \* the runs the reaper has read

serverVars == <<status, pausing, line, lease, attempts, commands, held, source, reaping>>

VARIABLES
  agent,        \* up, cut off from the control plane, or down
  starting,     \* startupRecoveryPending of a process that just started
  pc,           \* where the execution of each command is
  chain,        \* runQueues: commands that wait their turn, in order
  active,       \* the command whose provider runs for each run, or 0
  interruption, \* interruptionRequests
  stop,         \* what the provider of a run was told, once
  outcome,      \* what is to be reported of each command
  attempt,      \* the generation a command reports on
  procs,        \* commands whose processes are not known to be gone
  launched,     \* history: commands that ever started a provider
  left,         \* history: commands given up with their processes left
  faults

agentVars == <<agent, starting, pc, chain, active, interruption, stop, outcome,
               attempt, procs, launched, left, faults>>

vars == <<serverVars, agentVars>>

RunOf(c) == commands[c].run
Known(c) == c \in 1 .. Len(commands)
IsStart(c) == commands[c].type \in Starts
Recovering == {c \in Command : pc[c] \in {"recover", "verified"}}
Idle(c) == pc[c] = "idle"

Init ==
  /\ status = [r \in Run |-> "NONE"]
  /\ pausing = {} /\ line = <<>> /\ lease = {}
  /\ attempts = [r \in Run |-> <<>>]
  /\ commands = <<>> /\ held = {}
  /\ source = [r \in Run |-> NoRun] /\ reaping = {}
  /\ agent = "up" /\ starting = FALSE
  /\ pc = [c \in Command |-> "idle"]
  /\ chain = <<>>
  /\ active = [r \in Run |-> 0]
  /\ interruption = [r \in Run |-> "none"]
  /\ stop = [r \in Run |-> "none"]
  /\ outcome = [c \in Command |-> "none"]
  /\ attempt = [c \in Command |-> 0]
  /\ procs = {} /\ launched = {} /\ left = {} /\ faults = 0

-------------------------------------------------------------------------------
(* Users *)

(* enqueueCommand *)
Enqueue(r, type) ==
  /\ Len(commands) < MaxCommands
  /\ commands' = Append(commands, [run |-> r, type |-> type, status |-> "QUEUED"])

(* create: the run waits for the worktree. *)
Create(r) ==
  /\ status[r] = "NONE" /\ source[r] = NoRun
  /\ Enqueue(r, "START")
  /\ status' = [status EXCEPT ![r] = "QUEUED"]
  /\ line' = Append(line, r)
  /\ UNCHANGED <<pausing, lease, attempts, held, source, reaping>>
  /\ UNCHANGED agentVars

(* followUp reads that its source is PAUSED ... *)
FollowUpRead(r, s) ==
  /\ status[r] = "NONE" /\ source[r] = NoRun
  /\ status[s] = "PAUSED"
  /\ source' = [source EXCEPT ![r] = s]
  /\ UNCHANGED <<status, pausing, line, lease, attempts, commands, held, reaping>>
  /\ UNCHANGED agentVars

(* ... and cancels it later in the transaction that takes over its slot,   *)
(* whatever it has become.                                                 *)
FollowUpCreate(r) ==
  LET s == source[r]
      transfers == s \in lease IN
    /\ s # NoRun
    /\ Enqueue(r, "START")
    /\ status' = [status EXCEPT ![s] = "CANCELLED",
                                ![r] = IF transfers THEN "IN_PROGRESS" ELSE "QUEUED"]
    /\ lease' = IF transfers THEN (lease \ {s}) \union {r} ELSE lease
    /\ pausing' = pausing \ {s}
    /\ line' = Append(line, r)
    /\ source' = [source EXCEPT ![r] = NoRun]
    /\ UNCHANGED <<attempts, held, reaping>>
    /\ UNCHANGED agentVars

Pause(r) ==
  /\ status[r] = "IN_PROGRESS" /\ r \notin pausing
  /\ Enqueue(r, "PAUSE")
  /\ pausing' = pausing \union {r}
  /\ UNCHANGED <<status, line, lease, attempts, held, source, reaping>>
  /\ UNCHANGED agentVars

Continue(r) ==
  /\ status[r] = "PAUSED"
  /\ Enqueue(r, "CONTINUE")
  /\ status' = [status EXCEPT ![r] = "IN_PROGRESS"]
  /\ pausing' = pausing \ {r}
  /\ UNCHANGED <<line, lease, attempts, held, source, reaping>>
  /\ UNCHANGED agentVars

Closed == {"PAUSED", "COMPLETED", "CANCELLED", "FAILED"}

(* The attempts of a run that are still open get a final status. *)
CloseAttempts(r, st) ==
  [g \in DOMAIN attempts[r] |-> IF attempts[r][g] \in Closed THEN attempts[r][g] ELSE st]

(* A queued run is cancelled with its commands. *)
CancelQueued(r) ==
  /\ status[r] = "QUEUED"
  /\ status' = [status EXCEPT ![r] = "CANCELLED"]
  /\ commands' = [c \in DOMAIN commands |->
       IF commands[c].run = r /\ commands[c].status = "QUEUED"
       THEN [commands[c] EXCEPT !.status = "CANCELLED"] ELSE commands[c]]
  /\ lease' = lease \ {r}
  /\ UNCHANGED <<pausing, line, attempts, held, source, reaping>>
  /\ UNCHANGED agentVars

(* An active run is CANCELLED and gives up its slot at once; the agent is  *)
(* told to stop the provider.                                              *)
CancelRunning(r) ==
  /\ status[r] \in Running
  /\ Enqueue(r, "CANCEL")
  /\ status' = [status EXCEPT ![r] = "CANCELLED"]
  /\ attempts' = [attempts EXCEPT ![r] = CloseAttempts(r, "CANCELLED")]
  /\ lease' = lease \ {r}
  /\ pausing' = pausing \ {r}
  /\ UNCHANGED <<line, held, source, reaping>>
  /\ UNCHANGED agentVars

-------------------------------------------------------------------------------
(* The control plane on its own *)

QueuedAt(i) == status[line[i]] = "QUEUED"

(* Mutant: the newest run is admitted first. *)
M_Ahead(i) == {j \in DOMAIN line : j > i /\ QueuedAt(j)}

(* The places of the queued runs that were created before. *)
Ahead(i) == {j \in DOMAIN line : j < i /\ QueuedAt(j)}

(* Mutant: paused runs do not count. *)
M_ActiveSlots == {r \in lease : status[r] = "IN_PROGRESS"}

ActiveSlots == {r \in lease : status[r] \in Running}

Fits(r, slots) == Limit[r] = 0 \/ slots < Limit[r]

(* A queued run fits when all those ahead of it are admitted as well: each *)
(* brings its own limit, and one that does not fit holds up those behind.  *)
FitsAt(i) == Fits(line[i], Cardinality(ActiveSlots) + Cardinality(Ahead(i)))

Admitted(i) == QueuedAt(i) /\ FitsAt(i) /\ \A j \in Ahead(i) : FitsAt(j)

Admissible == {line[i] : i \in {j \in DOMAIN line : Admitted(j)}}

(* promoteQueuedLane: one transaction, run after everything that may free  *)
(* a slot and by every reconciliation of the agent.                        *)
Promote ==
  /\ Admissible # {}
  /\ status' = [r \in Run |-> IF r \in Admissible THEN "IN_PROGRESS" ELSE status[r]]
  /\ lease' = {r \in lease : status[r] \notin Final} \union Admissible
  /\ pausing' = pausing \ Admissible
  /\ UNCHANGED <<line, attempts, commands, held, source, reaping>>
  /\ UNCHANGED agentVars

(* reapOrphanedRuns reads the active runs and finds that their agent was   *)
(* not seen for a while ...                                                *)
ReapRead ==
  /\ agent # "up" /\ reaping = {} /\ faults < MaxFaults
  /\ reaping' = {r \in Run : status[r] = "IN_PROGRESS"}
  /\ reaping' # {}
  /\ faults' = faults + 1
  /\ UNCHANGED <<status, pausing, line, lease, attempts, commands, held, source>>
  /\ UNCHANGED <<agent, starting, pc, chain, active, interruption, stop, outcome, attempt, procs, launched, left>>

Orphans == {r \in reaping : status[r] \notin Final}

(* ... and fails those that are not final yet, with all that is queued for *)
(* the runs it has read.                                                   *)
ReapWrite ==
  /\ reaping # {}
  /\ status' = [r \in Run |-> IF r \in Orphans THEN "FAILED" ELSE status[r]]
  /\ attempts' = [r \in Run |-> IF r \in reaping THEN CloseAttempts(r, "FAILED") ELSE attempts[r]]
  /\ commands' = [c \in DOMAIN commands |->
       IF RunOf(c) \in reaping /\ commands[c].status \in {"QUEUED", "RUNNING"}
       THEN [commands[c] EXCEPT !.status = "FAILED"] ELSE commands[c]]
  /\ lease' = lease \ reaping
  /\ pausing' = pausing \ Orphans
  /\ reaping' = {}
  /\ UNCHANGED <<line, held, source>>
  /\ UNCHANGED agentVars

-------------------------------------------------------------------------------
(* The agent: delivery *)

Goto(c, l) == pc' = [pc EXCEPT ![c] = l]

(* Mutant: commands that were claimed are not listed. *)
M_Pending(c) == Known(c) /\ commands[c].status = "QUEUED" /\ status[RunOf(c)] # "QUEUED"

(* What pendingCommands returns, of which a live agent is told at once.    *)
Pending(c) ==
  /\ Known(c)
  /\ \/ c \in held
     \/ commands[c].status = "RUNNING"
     \/ commands[c].status = "QUEUED" /\ status[RunOf(c)] # "QUEUED"

(* Mutant: what was claimed before is executed again. *)
M_Unclaimed(c) == TRUE

(* Nothing of an earlier claim is left.                                    *)
Unclaimed(c) == c \notin held


Noted(c) ==
  IF commands[c].type = "CANCEL" THEN "CANCELLED"
  ELSE IF interruption[RunOf(c)] = "none" THEN "PAUSED" ELSE interruption[RunOf(c)]

(* execute: an interruption is noted and does not wait its turn.           *)
Deliver(c) ==
  /\ agent = "up" /\ ~starting /\ Recovering = {}
  /\ Pending(c) /\ Idle(c) /\ Unclaimed(c)
  /\ LET r == RunOf(c) IN
       IF commands[c].type \in Interrupts
       THEN /\ interruption' = [interruption EXCEPT ![r] = Noted(c)]
            /\ UNCHANGED chain
       ELSE /\ chain' = Append(chain, c)
            /\ UNCHANGED interruption
  /\ Goto(c, "told")
  /\ UNCHANGED serverVars
  /\ UNCHANGED <<agent, starting, active, stop, outcome, attempt, procs, launched, left, faults>>

(* What was claimed before and is not being executed is recovered first.   *)
Recover(c) ==
  /\ agent = "up"
  /\ Pending(c) /\ Idle(c)
  /\ c \in held \/ (starting /\ commands[c].status = "RUNNING")
  /\ attempt' = [attempt EXCEPT ![c] = Len(attempts[RunOf(c)])]
  /\ Goto(c, "recover")
  /\ UNCHANGED serverVars
  /\ UNCHANGED <<agent, starting, chain, active, interruption, stop, outcome, procs, launched, left, faults>>

(* New work waits until nothing is left to recover.                        *)
FinishStartup ==
  /\ agent = "up" /\ starting /\ Recovering = {}
  /\ \A c \in held : ~Idle(c)
  /\ starting' = FALSE
  /\ UNCHANGED serverVars
  /\ UNCHANGED <<agent, pc, chain, active, interruption, stop, outcome, attempt, procs, launched, left, faults>>

(* recoverExecution: the processes that survived are stopped and that is   *)
(* verified before anything is reported.  As long as it fails the recovery *)
(* stays pending, and a later poll claims the command again.               *)
StopSurvivors(c) ==
  /\ agent # "down" /\ pc[c] = "recover"
  /\ procs' = procs \ {c}
  /\ outcome' = [outcome EXCEPT ![c] = "RECOVERED"]
  /\ Goto(c, IF attempt[c] = 0 THEN "acking" ELSE "verified")
  /\ UNCHANGED serverVars
  /\ UNCHANGED <<agent, starting, chain, active, interruption, stop, attempt, launched, left, faults>>

RecoveryFails(c) ==
  /\ agent = "up" /\ pc[c] = "recover" /\ faults < MaxFaults
  /\ attempt' = [attempt EXCEPT ![c] = Len(attempts[RunOf(c)])]
  /\ faults' = faults + 1
  /\ UNCHANGED serverVars
  /\ UNCHANGED <<agent, starting, pc, chain, active, interruption, stop, outcome, procs, launched, left>>

-------------------------------------------------------------------------------
(* The agent: claiming and starting *)

(* An interruption is forgotten when nothing of its run is queued or       *)
(* active.                                                                 *)
Calm(c) ==
  LET r == RunOf(c)
      rest == {i \in DOMAIN chain : chain[i] # c /\ RunOf(chain[i]) = r} IN
    interruption' = [interruption EXCEPT ![r] =
      IF rest = {} /\ active[r] = 0 THEN "none" ELSE @]

(* A command is in its queue at most once. *)
Leave(c) ==
  \/ \E i \in DOMAIN chain : chain[i] = c /\ chain' = RemoveAt(chain, i)
  \/ (\A i \in DOMAIN chain : chain[i] # c) /\ UNCHANGED chain

(* The commands of a run that are not interruptions run one by one.        *)
OnTurn(c) ==
  \A i \in DOMAIN chain : chain[i] = c =>
     \A j \in 1 .. i - 1 : RunOf(chain[j]) # RunOf(c)

Claimable(c) ==
  /\ commands[c].status \in {"QUEUED", "RUNNING"}
  /\ IsStart(c) => Unclaimed(c) /\ status[RunOf(c)] # "QUEUED"

(* claimCommand: one transaction takes the source of the worktree and the  *)
(* command.                                                                *)
Claim(c) ==
  /\ agent = "up" /\ pc[c] = "told" /\ OnTurn(c)
  /\ Claimable(c)
  /\ commands' = [commands EXCEPT ![c].status = "RUNNING"]
  /\ held' = IF IsStart(c) THEN held \union {c} ELSE held
  /\ attempt' = [attempt EXCEPT ![c] = Len(attempts[RunOf(c)])]
  /\ Goto(c, "claimed")
  /\ UNCHANGED <<status, pausing, line, lease, attempts, source, reaping>>
  /\ UNCHANGED <<agent, starting, chain, active, interruption, stop, outcome, procs, launched, left, faults>>
(* The answer to a claim is lost: the claim stands and is recovered later. *)
ClaimUnanswered(c) ==
  /\ agent = "up" /\ pc[c] = "told" /\ OnTurn(c)
  /\ Claimable(c) /\ faults < MaxFaults
  /\ commands' = [commands EXCEPT ![c].status = "RUNNING"]
  /\ held' = IF IsStart(c) THEN held \union {c} ELSE held
  /\ Goto(c, "idle") /\ Leave(c) /\ Calm(c)
  /\ faults' = faults + 1
  /\ UNCHANGED <<status, pausing, line, lease, attempts, source, reaping>>
  /\ UNCHANGED <<agent, starting, active, stop, outcome, attempt, procs, launched, left>>

(* A refused claim is repeated by a later reconciliation.  A command that  *)
(* was not claimed yet, interruptions included, is refused while the disk  *)
(* is low or the worktree's build data is being deleted, and one that      *)
(* starts a session also because of its run or of another operation on the *)
(* worktree (OperationLocks): at any time.                                 *)
Refused(c) ==
  /\ agent = "up" /\ pc[c] = "told" /\ OnTurn(c)
  /\ commands[c].status = "QUEUED" \/ IsStart(c) \/ ~Claimable(c)
  /\ Goto(c, "idle") /\ Leave(c) /\ Calm(c)
  /\ UNCHANGED serverVars
  /\ UNCHANGED <<agent, starting, active, stop, outcome, attempt, procs, launched, left, faults>>

(* Mutant: a run whose provider is still there is begun again. *)
M_Beginnable(c) == status[RunOf(c)] \in Running

Beginnable(c) == active[RunOf(c)] = 0 /\ status[RunOf(c)] \in Running

(* beginAttempt reads that the run is not final ...                        *)
BeginRead(c) ==
  /\ agent = "up" /\ pc[c] = "claimed" /\ IsStart(c)
  /\ Beginnable(c)
  /\ Goto(c, "beginning")
  /\ UNCHANGED serverVars
  /\ UNCHANGED <<agent, starting, chain, active, interruption, stop, outcome, attempt, procs, launched, left, faults>>

(* ... and creates the attempt.  When its answer is lost the attempt stays *)
(* behind and another one is begun.                                        *)
BeginWrite(c) ==
  LET r == RunOf(c) IN
    /\ agent = "up" /\ pc[c] = "beginning"
    /\ attempts' = [attempts EXCEPT ![r] = Append(@, "RUNNING")]
    /\ pausing' = pausing \ {r}
    /\ \/ /\ attempt' = [attempt EXCEPT ![c] = Len(attempts[r]) + 1]
          /\ procs' = procs \union {c}
          /\ Goto(c, "began")
          /\ UNCHANGED faults
       \/ /\ faults < MaxFaults
          /\ faults' = faults + 1
          /\ Goto(c, "claimed")
          /\ UNCHANGED <<attempt, procs>>
    /\ UNCHANGED <<status, line, lease, commands, held, source, reaping>>
    /\ UNCHANGED <<agent, starting, chain, active, interruption, stop, outcome, launched, left>>

(* The run is final, or already active, or nobody answers. *)
BeginFails(c) ==
  /\ agent # "down" /\ pc[c] = "claimed" /\ IsStart(c)
  /\ ~Beginnable(c) \/ agent = "cut"
  /\ outcome' = [outcome EXCEPT ![c] = "FAILED"]
  /\ Goto(c, "failing")
  /\ UNCHANGED serverVars
  /\ UNCHANGED <<agent, starting, chain, active, interruption, stop, attempt, procs, launched, left, faults>>

(* The checkpoint before the start is taken; an interruption that was      *)
(* asked for ends the run before its provider starts.                      *)
Prepare(c) ==
  LET r == RunOf(c) IN
    /\ agent # "down" /\ pc[c] = "began"
    /\ IF interruption[r] = "none"
       THEN Goto(c, "starting") /\ UNCHANGED <<outcome, procs>>
       ELSE /\ outcome' = [outcome EXCEPT ![c] = interruption[r]]
            /\ procs' = procs \ {c}
            /\ Goto(c, "finishing")
    /\ UNCHANGED serverVars
    /\ UNCHANGED <<agent, starting, chain, active, interruption, stop, attempt, launched, left, faults>>

(* The attachments, the checkpoint or its report fail: nobody ends the     *)
(* attempt.                                                                *)
PrepareFails(c) ==
  /\ agent # "down" /\ pc[c] = "began"
  /\ outcome' = [outcome EXCEPT ![c] = "FAILED"]
  /\ Goto(c, "failing")
  /\ UNCHANGED serverVars
  /\ UNCHANGED <<agent, starting, chain, active, interruption, stop, attempt, procs, launched, left, faults>>

(* The provider runs, and is told at once of an interruption that came     *)
(* while it was started.                                                   *)
StartProvider(c) ==
  LET r == RunOf(c) IN
    /\ agent # "down" /\ pc[c] = "starting"
    /\ active' = [active EXCEPT ![r] = c]
    /\ stop' = [stop EXCEPT ![r] = interruption[r]]
    /\ launched' = launched \union {c}
    /\ Goto(c, "active") /\ Leave(c)
    /\ UNCHANGED serverVars
    /\ UNCHANGED <<agent, starting, interruption, outcome, attempt, procs, left, faults>>

StartFails(c) ==
  /\ agent # "down" /\ pc[c] = "starting"
  /\ outcome' = [outcome EXCEPT ![c] = "FAILED"]
  /\ Goto(c, "finishing")
  /\ UNCHANGED serverVars
  /\ UNCHANGED <<agent, starting, chain, active, interruption, stop, attempt, procs, launched, left, faults>>

(* What a failed preparation has started is stopped before it is reported, *)
(* which is tried every second until it is verified.                       *)
StopPreparation(c) ==
  /\ agent # "down" /\ pc[c] = "failing"
  /\ procs' = procs \ {c}
  /\ Goto(c, "acking")
  /\ UNCHANGED serverVars
  /\ UNCHANGED <<agent, starting, chain, active, interruption, stop, outcome, attempt, launched, left, faults>>

-------------------------------------------------------------------------------
(* The agent: interrupting and ending *)

(* interruptRun: an active provider is told once and the command waits for *)
(* it to settle; without one the latest attempt is ended.                  *)
Interrupt(c) ==
  LET r == RunOf(c)
      reason == IF commands[c].type = "PAUSE" THEN "PAUSED" ELSE "CANCELLED" IN
    /\ agent # "down" /\ pc[c] = "claimed" /\ ~IsStart(c)
    /\ outcome' = [outcome EXCEPT ![c] = reason]
    /\ IF active[r] # 0
       THEN /\ stop' = [stop EXCEPT ![r] = IF @ = "none" THEN reason ELSE @]
            /\ Goto(c, "waiting")
       ELSE /\ UNCHANGED stop
            /\ Goto(c, IF attempt[c] = 0 THEN "acking" ELSE "finishing")
    /\ UNCHANGED serverVars
    /\ UNCHANGED <<agent, starting, chain, active, interruption, attempt, procs, launched, left, faults>>

(* The provider ends by itself, well or badly ... *)
ProviderEnds(c) ==
  /\ agent # "down" /\ pc[c] = "active"
  /\ \E o \in {"COMPLETED", "FAILED"} : outcome' = [outcome EXCEPT ![c] = o]
  /\ Goto(c, "settling")
  /\ UNCHANGED serverVars
  /\ UNCHANGED <<agent, starting, chain, active, interruption, stop, attempt, procs, launched, left, faults>>

(* ... or because it was told to. *)
ProviderStops(c) ==
  /\ agent # "down" /\ pc[c] = "active" /\ stop[RunOf(c)] # "none"
  /\ outcome' = [outcome EXCEPT ![c] = stop[RunOf(c)]]
  /\ Goto(c, "settling")
  /\ UNCHANGED serverVars
  /\ UNCHANGED <<agent, starting, chain, active, interruption, stop, attempt, procs, launched, left, faults>>

(* Its processes are gone before anything is reported.  When the first     *)
(* attempt to end them or the last checkpoint fails, so does the run.      *)
Settle(c) ==
  /\ agent # "down" /\ pc[c] = "settling"
  /\ procs' = procs \ {c}
  /\ \E o \in {outcome[c], "FAILED"} : outcome' = [outcome EXCEPT ![c] = o]
  /\ Goto(c, "finishing")
  /\ UNCHANGED serverVars
  /\ UNCHANGED <<agent, starting, chain, active, interruption, stop, attempt, launched, left, faults>>

(* Mutant: the report says that the run was recovered. *)
M_Reported(c) == outcome[c]

Reported(c) == IF outcome[c] = "RECOVERED" THEN "PAUSED" ELSE outcome[c]

(* Mutant: a late report overwrites the final status of the run. *)
M_FinishedStatus(r, st) == st

(* What a reported status makes of the run: final runs keep theirs. *)
FinishedStatus(r, st) == IF status[r] \in Final THEN status[r] ELSE st

(* Mutant: what a failed start has left is not stopped. *)
M_AfterReport(c) == "acking"

AfterReport(c) == IF c \in procs THEN "failing" ELSE "acking"

(* finishAttempt; an unanswered report is repeated. *)
FinishAttempt(c) ==
  LET r == RunOf(c)
      st == FinishedStatus(r, Reported(c)) IN
    /\ agent = "up" /\ pc[c] \in {"finishing", "verified"}
    /\ status' = [status EXCEPT ![r] = st]
    /\ attempts' = [attempts EXCEPT ![r][attempt[c]] = st]
    /\ lease' = IF st \in Final THEN lease \ {r} ELSE lease
    /\ pausing' = IF status[r] \in Final THEN pausing ELSE pausing \ {r}
    /\ \/ Goto(c, AfterReport(c)) /\ UNCHANGED faults
       \/ faults < MaxFaults /\ faults' = faults + 1 /\ UNCHANGED pc
    /\ UNCHANGED <<line, commands, held, source, reaping>>
    /\ UNCHANGED <<agent, starting, chain, active, interruption, stop, outcome, attempt, procs, launched, left>>

Succeeded(c) == outcome[c] \notin {"FAILED", "RECOVERED"}

(* completeCommand, first the command ... *)
Acknowledge(c) ==
  /\ agent = "up" /\ pc[c] = "acking"
  /\ commands' = [commands EXCEPT ![c].status = IF Succeeded(c) THEN "SUCCEEDED" ELSE "FAILED"]
  /\ Goto(c, "projecting")
  /\ UNCHANGED <<status, pausing, line, lease, attempts, held, source, reaping>>
  /\ UNCHANGED <<agent, starting, chain, active, interruption, stop, outcome, attempt, procs, launched, left, faults>>

(* ... then what it means for a run that is not final, ... *)
Project(c) ==
  LET r == RunOf(c)
      st == IF Succeeded(c)
            THEN IF IsStart(c) THEN status[r]
                 ELSE IF commands[c].type = "PAUSE" THEN "PAUSED" ELSE "CANCELLED"
            ELSE IF IsStart(c) THEN "FAILED" ELSE status[r]
      gone == (IsStart(c) /\ ~Succeeded(c)) \/ (commands[c].type = "CANCEL" /\ Succeeded(c))
  IN  /\ agent = "up" /\ pc[c] = "projecting"
      /\ status' = [status EXCEPT ![r] = FinishedStatus(r, st)]
      /\ pausing' = IF status[r] \in Final \/ (IsStart(c) /\ Succeeded(c)) THEN pausing ELSE pausing \ {r}
      /\ Goto(c, IF gone THEN "freeing" ELSE "releasing")
      /\ UNCHANGED <<line, lease, attempts, commands, held, source, reaping>>
      /\ UNCHANGED <<agent, starting, chain, active, interruption, stop, outcome, attempt, procs, launched, left, faults>>

(* ... the slot of a run that it ends ... *)
FreeSlot(c) ==
  /\ agent = "up" /\ pc[c] = "freeing"
  /\ lease' = lease \ {RunOf(c)}
  /\ Goto(c, "releasing")
  /\ UNCHANGED <<status, pausing, line, attempts, commands, held, source, reaping>>
  /\ UNCHANGED <<agent, starting, chain, active, interruption, stop, outcome, attempt, procs, launched, left, faults>>

(* The end of an execution in the agent: those that wait for the provider  *)
(* go on.                                                                  *)
EndExecution(c) ==
  LET r == RunOf(c) IN
    IF active[r] = c
    THEN /\ pc' = [d \in Command |->
              IF d = c THEN "idle"
              ELSE IF pc[d] = "waiting" /\ RunOf(d) = r THEN "acking" ELSE pc[d]]
         /\ active' = [active EXCEPT ![r] = 0]
         /\ stop' = [stop EXCEPT ![r] = "none"]
         /\ interruption' = [interruption EXCEPT ![r] = "none"]
         /\ UNCHANGED chain
    ELSE /\ Goto(c, "idle") /\ Leave(c) /\ Calm(c)
         /\ UNCHANGED <<active, stop>>

(* The processes of a provider that ended cannot be ended in a second      *)
(* attempt either: nothing is reported, the execution ends and those that  *)
(* wait for it go on.  Its command stays claimed, to be recovered.         *)
SettleFails(c) ==
  /\ agent # "down" /\ pc[c] = "settling" /\ faults < MaxFaults
  /\ EndExecution(c)
  /\ outcome' = [outcome EXCEPT ![c] = "none"]
  /\ attempt' = [attempt EXCEPT ![c] = 0]
  /\ left' = left \union {c}
  /\ faults' = faults + 1
  /\ UNCHANGED serverVars
  /\ UNCHANGED <<agent, starting, procs, launched>>

(* ... and last the holder, when processes cannot be left behind. *)
Complete(c) ==
  /\ agent = "up" /\ pc[c] = "releasing"
  /\ held' = held \ {c}
  /\ EndExecution(c)
  /\ outcome' = [outcome EXCEPT ![c] = "none"]
  /\ attempt' = [attempt EXCEPT ![c] = 0]
  /\ UNCHANGED <<status, pausing, line, lease, attempts, commands, source, reaping>>
  /\ UNCHANGED <<agent, starting, procs, launched, left, faults>>

(* The control plane stops between two queries, or an answer is lost: the  *)
(* whole acknowledgement is repeated.                                      *)
Repeat(c) ==
  /\ agent = "up" /\ pc[c] \in {"projecting", "freeing", "releasing"} /\ faults < MaxFaults
  /\ Goto(c, "acking")
  /\ faults' = faults + 1
  /\ UNCHANGED serverVars
  /\ UNCHANGED <<agent, starting, chain, active, interruption, stop, outcome, attempt, procs, launched, left>>

(* Only the end of a provider is reported until it is accepted; any other  *)
(* acknowledgement is given up after a while without connection.           *)
GiveUp(c) ==
  /\ agent = "cut" /\ pc[c] \in {"acking", "projecting", "freeing", "releasing", "finishing", "verified"}
  /\ active[RunOf(c)] # c
  /\ Goto(c, "idle") /\ Leave(c) /\ Calm(c)
  /\ procs' = procs \ {c}
  /\ outcome' = [outcome EXCEPT ![c] = "none"]
  /\ attempt' = [attempt EXCEPT ![c] = 0]
  /\ UNCHANGED serverVars
  /\ UNCHANGED <<agent, starting, active, stop, launched, left, faults>>

-------------------------------------------------------------------------------
(* Faults *)

(* The process of the agent dies; what it has started may live on. *)
Crash ==
  /\ agent # "down" /\ faults < MaxFaults
  /\ agent' = "down"
  /\ starting' = FALSE
  /\ pc' = [c \in Command |-> "idle"]
  /\ chain' = <<>>
  /\ active' = [r \in Run |-> 0]
  /\ interruption' = [r \in Run |-> "none"]
  /\ stop' = [r \in Run |-> "none"]
  /\ outcome' = [c \in Command |-> "none"]
  /\ attempt' = [c \in Command |-> 0]
  /\ \E S \in SUBSET procs : procs' = S
  /\ faults' = faults + 1
  /\ UNCHANGED <<launched, left>>
  /\ UNCHANGED serverVars

Restart ==
  /\ agent = "down"
  /\ agent' = "up" /\ starting' = TRUE
  /\ UNCHANGED serverVars
  /\ UNCHANGED <<pc, chain, active, interruption, stop, outcome, attempt, procs, launched, left, faults>>

Cut ==
  /\ agent = "up" /\ faults < MaxFaults
  /\ agent' = "cut"
  /\ faults' = faults + 1
  /\ UNCHANGED serverVars
  /\ UNCHANGED <<starting, pc, chain, active, interruption, stop, outcome, attempt, procs, launched, left>>

Reconnect ==
  /\ agent = "cut"
  /\ agent' = "up"
  /\ UNCHANGED serverVars
  /\ UNCHANGED <<starting, pc, chain, active, interruption, stop, outcome, attempt, procs, launched, left, faults>>

-------------------------------------------------------------------------------

User(r) ==
  \/ Create(r) \/ FollowUpCreate(r) \/ \E s \in Run : FollowUpRead(r, s)
  \/ Pause(r) \/ Continue(r) \/ CancelQueued(r) \/ CancelRunning(r)

(* The steps the agent takes by itself for a command. *)
Step(c) ==
  \/ Deliver(c) \/ Recover(c) \/ StopSurvivors(c)
  \/ Claim(c) \/ Refused(c)
  \/ BeginRead(c) \/ BeginWrite(c) \/ BeginFails(c)
  \/ Prepare(c) \/ StartProvider(c) \/ StopPreparation(c)
  \/ Interrupt(c) \/ ProviderStops(c) \/ Settle(c)
  \/ FinishAttempt(c) \/ Acknowledge(c) \/ Project(c) \/ FreeSlot(c) \/ Complete(c)

Next ==
  \/ \E r \in Run : User(r)
  \/ Promote \/ ReapRead \/ ReapWrite
  \/ \E c \in 1 .. Len(commands) :
       \/ Step(c)
       \/ ProviderEnds(c) \/ PrepareFails(c) \/ StartFails(c)
       \/ RecoveryFails(c) \/ SettleFails(c) \/ ClaimUnanswered(c) \/ Repeat(c) \/ GiveUp(c)
  \/ FinishStartup \/ Crash \/ Restart \/ Cut \/ Reconnect

Spec == Init /\ [][Next]_vars

(* The agent comes back and goes on with every command by itself.  A       *)
(* provider may work as long as it likes: only one that was told to stop   *)
(* has to.  Users owe nothing.                                             *)
Fairness ==
  /\ WF_vars(Promote) /\ WF_vars(ReapWrite)
  /\ WF_vars(FinishStartup) /\ WF_vars(Restart) /\ WF_vars(Reconnect)
  /\ \A c \in Command : WF_vars(Known(c) /\ Step(c))

FairSpec == Spec /\ Fairness

-------------------------------------------------------------------------------
(* Properties *)

Locations == {"idle", "told", "claimed", "beginning", "began", "starting", "active", "settling",
              "failing", "waiting", "finishing", "recover", "verified", "acking",
              "projecting", "freeing", "releasing"}

CommandRow == [run : Run, type : Starts \union Interrupts,
               status : {"QUEUED", "RUNNING", "SUCCEEDED", "FAILED", "CANCELLED"}]

ServerTypeOK ==
  /\ status \in [Run -> Final \union Running \union {"NONE", "QUEUED"}]
  /\ pausing \subseteq Run /\ lease \subseteq Run /\ line \in Seq(Run)
  /\ attempts \in [Run -> Seq(Closed \union {"RUNNING"})]
  /\ commands \in Seq(CommandRow)
  /\ held \subseteq Command
  /\ source \in [Run -> Run \union {NoRun}] /\ reaping \subseteq Run

ManagerTypeOK ==
  /\ agent \in {"up", "cut", "down"} /\ starting \in BOOLEAN
  /\ pc \in [Command -> Locations] /\ chain \in Seq(Command)
  /\ active \in [Run -> Command \union {0}]
  /\ interruption \in [Run -> {"none", "PAUSED", "CANCELLED"}]
  /\ stop \in [Run -> {"none", "PAUSED", "CANCELLED"}]
  /\ outcome \in [Command -> {"none", "RECOVERED"} \union Closed]
  /\ attempt \in [Command -> Nat]
  /\ procs \subseteq Command /\ launched \subseteq Command /\ left \subseteq Command /\ faults \in 0 .. MaxFaults

(* Every variable has its type; the end of an attempt is one of those that *)
(* finishAttempt may record.                                               *)
AgentRunsTypeOK == ServerTypeOK /\ ManagerTypeOK

(* Whatever crashes, is cut off, reaped or recovered: as long as processes *)
(* of a session may run, its command holds the source of the worktree, so  *)
(* that no build runs beside them.  It is what the verified cleanup before *)
(* every acknowledgement is for.                                           *)
SourceProtected == procs \subseteq held

(* A run that is active or paused has its slot, and where every run asks   *)
(* for a limit no more than the largest of them are active or paused:      *)
(* through promotion, pauses, the transfer to a follow-up, reaping and     *)
(* late acknowledgements.  (A follow-up keeps the slot of its source, so   *)
(* that its own, smaller limit may be exceeded.)                           *)
SlotsRespected ==
  /\ \A r \in Run : status[r] \in Running => r \in lease
  /\ \A r \in Run : (\A q \in Run : Limit[q] \in 1 .. Limit[r])
        => Cardinality({q \in lease : status[q] \in Running}) <= Limit[r]

(* Two providers never work for the same run, whatever is redelivered,     *)
(* recovered or continued: but for processes the manager could not end,    *)
(* beside which a paused run may be continued before they are recovered.   *)
OneProviderPerRun ==
  \A c, d \in procs \ left : RunOf(c) = RunOf(d) => c = d

(* No command starts its provider twice: what was interrupted by a restart *)
(* or lost with an answer is acknowledged and not replayed.                *)
NeverReplayed == [][\A c \in launched : ~StartProvider(c)]_vars

(* The final status of a run stays, but for a follow-up that takes over    *)
(* from a run it saw paused.                                               *)
FinalUnlessSuperseded ==
  [][\A r \in Run : status[r] \in Final /\ status'[r] # status[r]
       => \E f \in Run : source[f] = r /\ status[f] = "NONE" /\ status'[f] # "NONE"]_vars

(* No queued run is admitted past an older one.                            *)
AdmittedInOrder ==
  [][\A i, j \in DOMAIN line : i < j =>
       ~(/\ status[line[j]] = "QUEUED" /\ status'[line[j]] = "IN_PROGRESS"
         /\ status[line[i]] = "QUEUED" /\ status'[line[i]] = "QUEUED")]_vars

(* A provider works and was not told to stop: it may go on for ever.       *)
Working(c) == pc[c] = "active" /\ stop[RunOf(c)] = "none"

Unsettled(r) == \E c \in 1 .. Len(commands) :
  RunOf(c) = r /\ commands[c].status = "RUNNING" /\ ~Working(c)

(* What the agent has claimed of a run it acknowledges, however often it   *)
(* crashes or an answer is lost, unless the provider is still at work.     *)
ClaimsSettle == \A r \in Run : Unsettled(r) ~> ~Unsettled(r)

ExecutesCancel(r) == \E c \in 1 .. Len(commands) :
  RunOf(c) = r /\ commands[c].type = "CANCEL" /\ pc[c] = "claimed"

===============================================================================
