-------------------------- MODULE AgentRuns_proofs --------------------------
(***************************************************************************)
(* What holds of AgentRuns for every set of runs, every limit and every    *)
(* number of commands and of faults.                                       *)
(***************************************************************************)
EXTENDS AgentRuns, FiniteSetTheorems, SequenceTheorems, WellFoundedInduction, TLAPS

(* Removing a place of a sequence moves up what is behind it. *)
LEMMA Removed ==
  ASSUME NEW S, NEW s \in Seq(S), NEW i \in DOMAIN s
  PROVE  /\ RemoveAt(s, i) \in Seq(S)
         /\ Len(RemoveAt(s, i)) = Len(s) - 1
         /\ \A k \in 1 .. Len(s) - 1 :
              RemoveAt(s, i)[k] = IF k < i THEN s[k] ELSE s[k + 1]
<1> DEFINE a == SubSeq(s, 1, i - 1)
           b == SubSeq(s, i + 1, Len(s))
<1>1. /\ a \in Seq(S) /\ Len(a) = i - 1
      /\ \A k \in 1 .. i - 1 : a[k] = s[k]
  OBVIOUS
<1>2. /\ b \in Seq(S) /\ Len(b) = Len(s) - i
      /\ \A k \in 1 .. Len(s) - i : b[k] = s[i + k]
  OBVIOUS
<1>3. RemoveAt(s, i) = a \o b
  BY DEF RemoveAt
<1>4. Len(s) \in Nat /\ i \in 1 .. Len(s)
  OBVIOUS
<1> HIDE DEF a, b
<1>5. /\ a \o b \in Seq(S) /\ Len(a \o b) = Len(s) - 1
      /\ \A k \in 1 .. Len(s) - 1 :
           (a \o b)[k] = IF k <= i - 1 THEN a[k] ELSE b[k - (i - 1)]
  <2>1. /\ a \o b \in Seq(S) /\ Len(a \o b) = Len(a) + Len(b)
        /\ \A k \in 1 .. Len(a) + Len(b) :
             (a \o b)[k] = IF k <= Len(a) THEN a[k] ELSE b[k - Len(a)]
    BY <1>1, <1>2, ConcatProperties
  <2>2. Len(a) + Len(b) = Len(s) - 1 /\ Len(a) = i - 1
    BY <1>1, <1>2, <1>4
  <2>3. QED
    BY <2>1, <2>2
<1>6. ASSUME NEW k \in 1 .. Len(s) - 1
      PROVE  (a \o b)[k] = IF k < i THEN s[k] ELSE s[k + 1]
  <2>1. CASE k < i
    BY <1>1, <1>4, <1>5, <2>1
  <2>2. CASE ~(k < i)
    <3>1. k - (i - 1) \in 1 .. Len(s) - i /\ i + (k - (i - 1)) = k + 1
      BY <1>4, <2>2
    <3>2. (a \o b)[k] = b[k - (i - 1)]
      BY <1>4, <1>5, <2>2
    <3>3. QED
      BY <1>2, <2>2, <3>1, <3>2
  <2>3. QED
    BY <2>1, <2>2
<1>7. QED
  BY <1>3, <1>5, <1>6

(* Replacing an element of a sequence, if it is there. *)
LEMMA Replaced ==
  ASSUME NEW S, NEW s \in Seq(S), NEW i, NEW e \in S
  PROVE  [s EXCEPT ![i] = e] \in Seq(S)
<1>1. CASE i \in 1 .. Len(s)
  BY <1>1, ExceptSeq
<1>2. CASE i \notin 1 .. Len(s)
  <2>1. s \in [1 .. Len(s) -> S]
    OBVIOUS
  <2>2. [s EXCEPT ![i] = e] = s
    BY <1>2, <2>1
  <2>3. QED
    BY <2>2
<1>3. QED
  BY <1>1, <1>2

(* Leaving the queue adds nothing to it. *)
LEMMA LeftBehind ==
  ASSUME chain \in Seq(Command), NEW c, Leave(c)
  PROVE  /\ chain' \in Seq(Command)
         /\ \A i \in DOMAIN chain' : \E j \in DOMAIN chain : chain'[i] = chain[j]
<1>1. CASE UNCHANGED chain
  BY <1>1
<1>2. ASSUME NEW i \in DOMAIN chain, chain' = RemoveAt(chain, i)
      PROVE  /\ chain' \in Seq(Command)
             /\ \A k \in DOMAIN chain' : \E j \in DOMAIN chain : chain'[k] = chain[j]
  <2>1. /\ chain' \in Seq(Command) /\ Len(chain') = Len(chain) - 1
        /\ \A k \in 1 .. Len(chain) - 1 :
             chain'[k] = IF k < i THEN chain[k] ELSE chain[k + 1]
    BY <1>2, Removed
  <2>2. \A k \in DOMAIN chain' : k \in DOMAIN chain /\ k + 1 \in DOMAIN chain
    BY <2>1
  <2>3. QED
    BY <2>1, <2>2
<1>3. QED
  BY <1>1, <1>2 DEF Leave

(* What is about to be reported has been decided. *)
EndsAreDecided ==
  \A c \in Command : pc[c] \in {"settling", "finishing", "verified"} => outcome[c] # "none"

(* Only what was enqueued is executed. *)
EnqueuedFirst ==
  /\ Len(commands) <= MaxCommands
  /\ \A c \in Command : pc[c] # "idle" \/ c \in held \/ c \in launched => Known(c)
  /\ \A i \in DOMAIN chain : Known(chain[i])

TypeInv == AgentRunsTypeOK /\ EndsAreDecided /\ EnqueuedFirst

-------------------------------------------------------------------------------

(* Closing the attempts of a run keeps their number. *)
LEMMA ClosedAttempts ==
  ASSUME AgentRunsTypeOK, NEW r \in Run, NEW st \in Closed
  PROVE  CloseAttempts(r, st) \in Seq(Closed \union {"RUNNING"})
<1>1. attempts[r] \in Seq(Closed \union {"RUNNING"})
  BY DEF AgentRunsTypeOK, ServerTypeOK
<1>2. QED
  BY <1>1 DEF CloseAttempts

(* What is known of an enqueued command. *)
LEMMA KnownTyped ==
  ASSUME TypeInv, NEW c \in 1 .. Len(commands)
  PROVE  /\ c \in Command /\ RunOf(c) \in Run
         /\ Len(attempts[RunOf(c)]) \in Nat
         /\ commands[c] \in CommandRow
         /\ outcome[c] \in {"none", "RECOVERED"} \union Closed
<1>1. c \in Command
  BY BoundsAssumption DEF TypeInv, EnqueuedFirst, AgentRunsTypeOK, ServerTypeOK, Command
<1>2. commands[c] \in CommandRow
  BY DEF TypeInv, AgentRunsTypeOK, ServerTypeOK
<1>3. RunOf(c) \in Run
  BY <1>2 DEF RunOf, CommandRow
<1>4. QED
  BY <1>1, <1>2, <1>3 DEF TypeInv, AgentRunsTypeOK, ServerTypeOK, ManagerTypeOK

LEMMA StatusSet ==
  ASSUME TypeInv, NEW c \in 1 .. Len(commands),
         NEW st \in {"QUEUED", "RUNNING", "SUCCEEDED", "FAILED", "CANCELLED"}
  PROVE  [commands EXCEPT ![c].status = st] \in Seq(CommandRow)
<1>1. commands \in Seq(CommandRow) /\ commands[c] \in CommandRow
  BY DEF TypeInv, AgentRunsTypeOK, ServerTypeOK
<1>2. [commands[c] EXCEPT !.status = st] \in CommandRow
  BY <1>1 DEF CommandRow
<1>3. QED
  BY <1>1, <1>2

(* The same of several commands at once. *)
LEMMA Relabelled ==
  ASSUME TypeInv, NEW st \in {"CANCELLED", "FAILED"}, NEW f,
         DOMAIN f = DOMAIN commands,
         \A c \in DOMAIN commands :
            f[c] = commands[c] \/ f[c] = [commands[c] EXCEPT !.status = st],
         f = [c \in DOMAIN commands |-> f[c]]
  PROVE  f \in Seq(CommandRow) /\ Len(f) = Len(commands)
<1>1. commands \in Seq(CommandRow)
  BY DEF TypeInv, AgentRunsTypeOK, ServerTypeOK
<1>2. ASSUME NEW c \in DOMAIN commands
      PROVE  [commands[c] EXCEPT !.status = st] \in CommandRow
  <2>1. commands[c] \in CommandRow
    BY <1>1
  <2>2. QED
    BY <2>1 DEF CommandRow
<1>3. \A c \in DOMAIN commands : f[c] \in CommandRow
  BY <1>1, <1>2
<1>4. QED
  BY <1>1, <1>3

LEMMA Enqueued ==
  ASSUME TypeInv, NEW r \in Run, NEW type \in Starts \union Interrupts, Enqueue(r, type)
  PROVE  commands' \in Seq(CommandRow) /\ Len(commands') <= MaxCommands
<1>1. [run |-> r, type |-> type, status |-> "QUEUED"] \in CommandRow
  BY DEF CommandRow
<1>2. QED
  BY <1>1, BoundsAssumption DEF Enqueue, TypeInv, AgentRunsTypeOK, ServerTypeOK

(* What a step does to the commands: their runs and types never change. *)
CommandsGrow ==
  /\ Len(commands') >= Len(commands)
  /\ \A c \in 1 .. Len(commands) :
       commands'[c].run = commands[c].run /\ commands'[c].type = commands[c].type

LEMMA StepKeepsServerTypes ==
  ASSUME TypeInv, [Next]_vars
  PROVE  ServerTypeOK'
<1>1. ASSUME NEW r \in Run, Create(r) PROVE ServerTypeOK'
  BY <1>1, BoundsAssumption, Enqueued DEF Create, Starts, TypeInv, AgentRunsTypeOK, ServerTypeOK, Closed, Final, Running
<1>2. ASSUME NEW r \in Run, FollowUpCreate(r) PROVE ServerTypeOK'
  <2>1. source[r] \in Run
    BY <1>2 DEF FollowUpCreate, TypeInv, AgentRunsTypeOK, ServerTypeOK
  <2>2. commands' \in Seq(CommandRow)
    BY <1>2, Enqueued DEF FollowUpCreate, Starts
  <2>3. status' \in [Run -> Final \union Running \union {"NONE", "QUEUED"}]
    BY <1>2, <2>1 DEF FollowUpCreate, TypeInv, AgentRunsTypeOK, ServerTypeOK, Closed, Final, Running
  <2>4. lease' \subseteq Run /\ line' \in Seq(Run) /\ pausing' \subseteq Run
    BY <1>2, <2>1 DEF FollowUpCreate, TypeInv, AgentRunsTypeOK, ServerTypeOK, Closed, Final, Running
  <2>5. source' \in [Run -> Run \union {NoRun}]
    BY <1>2, <2>1 DEF FollowUpCreate, TypeInv, AgentRunsTypeOK, ServerTypeOK, Closed, Final, Running
  <2>6. QED
    BY <1>2, <2>2, <2>3, <2>4, <2>5 DEF FollowUpCreate, TypeInv, AgentRunsTypeOK, ServerTypeOK, Closed, Final, Running
<1>3. ASSUME NEW r \in Run, NEW s \in Run, FollowUpRead(r, s) PROVE ServerTypeOK'
  BY <1>3, BoundsAssumption DEF FollowUpRead, TypeInv, AgentRunsTypeOK, ServerTypeOK, Closed, Final, Running
<1>4. ASSUME NEW r \in Run, Pause(r) PROVE ServerTypeOK'
  BY <1>4, BoundsAssumption, Enqueued DEF Pause, Interrupts, TypeInv, AgentRunsTypeOK, ServerTypeOK, Closed, Final, Running
<1>5. ASSUME NEW r \in Run, Continue(r) PROVE ServerTypeOK'
  BY <1>5, BoundsAssumption, Enqueued DEF Continue, Starts, TypeInv, AgentRunsTypeOK, ServerTypeOK, Closed, Final, Running
<1>6. ASSUME NEW r \in Run, CancelQueued(r) PROVE ServerTypeOK'
  <2>1. commands' \in Seq(CommandRow)
    BY <1>6, Relabelled DEF CancelQueued
  <2>2. QED
    BY <1>6, <2>1 DEF CancelQueued, TypeInv, AgentRunsTypeOK, ServerTypeOK, Closed, Final, Running
<1>7. ASSUME NEW r \in Run, CancelRunning(r) PROVE ServerTypeOK'
  BY <1>7, BoundsAssumption, ClosedAttempts, Enqueued DEF CancelRunning, Interrupts, TypeInv, AgentRunsTypeOK, ServerTypeOK, Closed, Final, Running
<1>8. ASSUME ReapRead PROVE ServerTypeOK'
  BY <1>8, BoundsAssumption DEF ReapRead, TypeInv, AgentRunsTypeOK, ServerTypeOK, Closed, Final, Running
<1>9. ASSUME Promote PROVE ServerTypeOK'
  BY <1>9, BoundsAssumption DEF Promote, Admissible, Admitted, TypeInv, AgentRunsTypeOK, ServerTypeOK, Closed, Final, Running
<1>10. ASSUME ReapWrite PROVE ServerTypeOK'
  <2>1. commands' \in Seq(CommandRow)
    BY <1>10, Relabelled DEF ReapWrite
  <2>2. attempts' \in [Run -> Seq(Closed \union {"RUNNING"})]
    BY <1>10, ClosedAttempts DEF ReapWrite, TypeInv, AgentRunsTypeOK, ServerTypeOK, Closed, Final, Running
  <2>3. QED
    BY <1>10, <2>1, <2>2 DEF ReapWrite, Orphans, TypeInv, AgentRunsTypeOK, ServerTypeOK, Closed, Final, Running
<1>11. ASSUME NEW c \in 1 .. Len(commands), Claim(c) PROVE ServerTypeOK'
  BY <1>11, BoundsAssumption, KnownTyped, StatusSet DEF Claim, TypeInv, AgentRunsTypeOK, ServerTypeOK, Closed, Final, Running
<1>12. ASSUME NEW c \in 1 .. Len(commands), ClaimUnanswered(c) PROVE ServerTypeOK'
  BY <1>12, BoundsAssumption, KnownTyped, StatusSet DEF ClaimUnanswered, TypeInv, AgentRunsTypeOK, ServerTypeOK, Closed, Final, Running
<1>13. ASSUME NEW c \in 1 .. Len(commands), BeginWrite(c) PROVE ServerTypeOK'
  BY <1>13, BoundsAssumption, KnownTyped DEF BeginWrite, TypeInv, AgentRunsTypeOK, ServerTypeOK, Closed, Final, Running
<1>14. ASSUME NEW c \in 1 .. Len(commands), FinishAttempt(c) PROVE ServerTypeOK'
  <2>1. RunOf(c) \in Run /\ FinishedStatus(RunOf(c), Reported(c)) \in Closed
    BY <1>14, KnownTyped DEF FinishAttempt, FinishedStatus, Reported, EndsAreDecided, TypeInv, AgentRunsTypeOK, ServerTypeOK, Closed, Final, Running
  <2>2. attempts' \in [Run -> Seq(Closed \union {"RUNNING"})]
    <3>1. attempts[RunOf(c)] \in Seq(Closed \union {"RUNNING"})
      BY <2>1 DEF TypeInv, AgentRunsTypeOK, ServerTypeOK
    <3>2. [attempts[RunOf(c)] EXCEPT ![attempt[c]] = FinishedStatus(RunOf(c), Reported(c))]
            \in Seq(Closed \union {"RUNNING"})
      BY <2>1, <3>1, Replaced
    <3>3. QED
      BY <1>14, <2>1, <3>2 DEF FinishAttempt, TypeInv, AgentRunsTypeOK, ServerTypeOK
  <2>3. QED
    BY <1>14, <2>1, <2>2 DEF FinishAttempt, TypeInv, AgentRunsTypeOK, ServerTypeOK, Closed, Final, Running
<1>15. ASSUME NEW c \in 1 .. Len(commands), Acknowledge(c) PROVE ServerTypeOK'
  BY <1>15, BoundsAssumption, KnownTyped, StatusSet DEF Acknowledge, TypeInv, AgentRunsTypeOK, ServerTypeOK, Closed, Final, Running
<1>16. ASSUME NEW c \in 1 .. Len(commands), Project(c) PROVE ServerTypeOK'
  BY <1>16, BoundsAssumption, KnownTyped DEF Project, FinishedStatus, Succeeded, TypeInv, AgentRunsTypeOK, ServerTypeOK, Closed, Final, Running
<1>17. ASSUME NEW c \in 1 .. Len(commands), Complete(c) PROVE ServerTypeOK'
  BY <1>17, BoundsAssumption, KnownTyped DEF Complete, TypeInv, AgentRunsTypeOK, ServerTypeOK, Closed, Final, Running
<1>18. ASSUME NEW c \in 1 .. Len(commands), FreeSlot(c) PROVE ServerTypeOK'
  BY <1>18, BoundsAssumption, KnownTyped DEF FreeSlot, TypeInv, AgentRunsTypeOK, ServerTypeOK, Closed, Final, Running
<1>19. CASE UNCHANGED serverVars
  BY <1>19 DEF serverVars, TypeInv, AgentRunsTypeOK, ServerTypeOK, Closed, Final, Running
<1>20. QED
  BY <1>1, <1>2, <1>3, <1>4, <1>5, <1>6, <1>7, <1>8, <1>9, <1>10, <1>11, <1>12, <1>13, <1>14, <1>15, <1>16, <1>17, <1>18, <1>19 DEF Next, User, Step, vars, Deliver, Recover, StopSurvivors, Refused, BeginRead, BeginFails, Prepare, StartProvider, StopPreparation, Interrupt, ProviderStops, Settle, ProviderEnds, PrepareFails, StartFails, RecoveryFails, SettleFails, Repeat, GiveUp, FinishStartup, Crash, Restart, Cut, Reconnect

LEMMA StepKeepsManagerTypes ==
  ASSUME TypeInv, [Next]_vars
  PROVE  ManagerTypeOK'
<1>1. ASSUME NEW c \in 1 .. Len(commands), Deliver(c) PROVE ManagerTypeOK'
  <2>1. CASE commands[c].type \in Interrupts
    BY <1>1, <2>1, KnownTyped, BoundsAssumption DEF Deliver, Noted, Locations, TypeInv, AgentRunsTypeOK, ManagerTypeOK, Goto
  <2>2. CASE commands[c].type \notin Interrupts
    <3>1. chain' \in Seq(Command)
      <4>1. chain' = Append(chain, c)
        BY <1>1, <2>2 DEF Deliver
      <4>2. c \in Command /\ chain \in Seq(Command)
        BY KnownTyped DEF TypeInv, AgentRunsTypeOK, ManagerTypeOK
      <4>3. QED
        BY <4>1, <4>2
    <3>2. pc' \in [Command -> Locations] /\ UNCHANGED interruption
      BY <1>1, <2>2, KnownTyped DEF Deliver, Locations, TypeInv, AgentRunsTypeOK, ManagerTypeOK, Goto
    <3>3. QED
      BY <1>1, <3>1, <3>2 DEF Deliver, TypeInv, AgentRunsTypeOK, ManagerTypeOK, Goto
  <2>3. QED
    BY <1>1, <2>1, <2>2 DEF Deliver
<1>2. ASSUME NEW c \in 1 .. Len(commands), Recover(c) PROVE ManagerTypeOK'
  BY <1>2, KnownTyped, BoundsAssumption DEF Recover, Locations, TypeInv, AgentRunsTypeOK, ManagerTypeOK, Goto
<1>3. ASSUME NEW c \in 1 .. Len(commands), StopSurvivors(c) PROVE ManagerTypeOK'
  BY <1>3, KnownTyped, BoundsAssumption DEF StopSurvivors, Locations, TypeInv, AgentRunsTypeOK, ManagerTypeOK, Goto
<1>4. ASSUME NEW c \in 1 .. Len(commands), Claim(c) PROVE ManagerTypeOK'
  BY <1>4, KnownTyped, BoundsAssumption DEF Claim, Locations, TypeInv, AgentRunsTypeOK, ManagerTypeOK, Goto
<1>5. ASSUME NEW c \in 1 .. Len(commands), Refused(c) PROVE ManagerTypeOK'
  BY <1>5, KnownTyped, BoundsAssumption, LeftBehind DEF Refused, Calm, Locations, TypeInv, AgentRunsTypeOK, ManagerTypeOK, Goto
<1>6. ASSUME NEW c \in 1 .. Len(commands), BeginRead(c) PROVE ManagerTypeOK'
  BY <1>6, KnownTyped, BoundsAssumption DEF BeginRead, Locations, TypeInv, AgentRunsTypeOK, ManagerTypeOK, Goto
<1>7. ASSUME NEW c \in 1 .. Len(commands), BeginWrite(c) PROVE ManagerTypeOK'
  <2>1. CASE pc' = [pc EXCEPT ![c] = "began"] /\ UNCHANGED faults /\ procs' = procs \union {c}
             /\ attempt' = [attempt EXCEPT ![c] = Len(attempts[RunOf(c)]) + 1]
    BY <1>7, <2>1, KnownTyped, BoundsAssumption DEF BeginWrite, Locations, TypeInv, AgentRunsTypeOK, ManagerTypeOK, Goto
  <2>2. CASE faults < MaxFaults /\ faults' = faults + 1 /\ pc' = [pc EXCEPT ![c] = "claimed"]
             /\ UNCHANGED <<attempt, procs>>
    BY <1>7, <2>2, KnownTyped, BoundsAssumption DEF BeginWrite, Locations, TypeInv, AgentRunsTypeOK, ManagerTypeOK, Goto
  <2>3. QED
    BY <1>7, <2>1, <2>2 DEF BeginWrite, Goto
<1>8. ASSUME NEW c \in 1 .. Len(commands), BeginFails(c) PROVE ManagerTypeOK'
  BY <1>8, KnownTyped, BoundsAssumption DEF BeginFails, Locations, Closed, TypeInv, AgentRunsTypeOK, ManagerTypeOK, Goto
<1>9. ASSUME NEW c \in 1 .. Len(commands), Prepare(c) PROVE ManagerTypeOK'
  <2>1. CASE interruption[RunOf(c)] = "none"
    BY <1>9, <2>1, KnownTyped, BoundsAssumption DEF Prepare, Locations, Closed, TypeInv, AgentRunsTypeOK, ManagerTypeOK, Goto
  <2>2. CASE interruption[RunOf(c)] # "none"
    <3>1. interruption[RunOf(c)] \in {"PAUSED", "CANCELLED"}
      BY <2>2, KnownTyped DEF TypeInv, AgentRunsTypeOK, ManagerTypeOK
    <3>2. outcome' \in [Command -> {"none", "RECOVERED"} \union Closed]
      BY <1>9, <2>2, <3>1, KnownTyped DEF Prepare, Closed, TypeInv, AgentRunsTypeOK, ManagerTypeOK, Goto
    <3>3. pc' \in [Command -> Locations] /\ procs' \subseteq procs
      BY <1>9, <2>2, KnownTyped DEF Prepare, Locations, TypeInv, AgentRunsTypeOK, ManagerTypeOK, Goto
    <3>4. QED
      BY <1>9, <3>2, <3>3 DEF Prepare, TypeInv, AgentRunsTypeOK, ManagerTypeOK, Goto
  <2>3. QED
    BY <1>9, <2>1, <2>2 DEF Prepare
<1>10. ASSUME NEW c \in 1 .. Len(commands), StartProvider(c) PROVE ManagerTypeOK'
  BY <1>10, KnownTyped, BoundsAssumption, LeftBehind DEF StartProvider, Locations, TypeInv, AgentRunsTypeOK, ManagerTypeOK, Goto
<1>11. ASSUME NEW c \in 1 .. Len(commands), StopPreparation(c) PROVE ManagerTypeOK'
  BY <1>11, KnownTyped, BoundsAssumption DEF StopPreparation, Locations, TypeInv, AgentRunsTypeOK, ManagerTypeOK, Goto
<1>12. ASSUME NEW c \in 1 .. Len(commands), Interrupt(c) PROVE ManagerTypeOK'
  <2>1. CASE active[RunOf(c)] # 0
    <3>1. outcome' \in [Command -> {"none", "RECOVERED"} \union Closed]
      BY <1>12, <2>1, KnownTyped DEF Interrupt, Closed, TypeInv, AgentRunsTypeOK, ManagerTypeOK, Goto
    <3>2. stop' \in [Run -> {"none", "PAUSED", "CANCELLED"}]
      BY <1>12, <2>1, KnownTyped, ZenonT(40) DEF Interrupt, TypeInv, AgentRunsTypeOK, ManagerTypeOK, Goto
    <3>3. pc' \in [Command -> Locations]
      BY <1>12, <2>1, KnownTyped, SMTT(30) DEF Interrupt, Locations, TypeInv, AgentRunsTypeOK, ManagerTypeOK, Goto
    <3>4. QED
      BY <1>12, <3>1, <3>2, <3>3 DEF Interrupt, TypeInv, AgentRunsTypeOK, ManagerTypeOK, Goto
  <2>2. CASE active[RunOf(c)] = 0
    BY <1>12, <2>2, KnownTyped, BoundsAssumption DEF Interrupt, Locations, Closed, TypeInv, AgentRunsTypeOK, ManagerTypeOK, Goto
  <2>3. QED
    BY <1>12, <2>1, <2>2 DEF Interrupt
<1>13. ASSUME NEW c \in 1 .. Len(commands), ProviderStops(c) PROVE ManagerTypeOK'
  BY <1>13, KnownTyped, BoundsAssumption DEF ProviderStops, Locations, Closed, TypeInv, AgentRunsTypeOK, ManagerTypeOK, Goto
<1>14. ASSUME NEW c \in 1 .. Len(commands), Settle(c) PROVE ManagerTypeOK'
  <2>1. PICK o \in {outcome[c], "FAILED"} : outcome' = [outcome EXCEPT ![c] = o]
    BY <1>14 DEF Settle
  <2>2. o \in {"none", "RECOVERED"} \union Closed
    BY <2>1, KnownTyped DEF Closed
  <2>3. outcome' \in [Command -> {"none", "RECOVERED"} \union Closed]
    BY <2>1, <2>2 DEF TypeInv, AgentRunsTypeOK, ManagerTypeOK
  <2>4. QED
    BY <1>14, <2>3, KnownTyped DEF Settle, Locations, TypeInv, AgentRunsTypeOK, ManagerTypeOK, Goto
<1>15. ASSUME NEW c \in 1 .. Len(commands), FinishAttempt(c) PROVE ManagerTypeOK'
  <2>1. CASE Goto(c, AfterReport(c)) /\ UNCHANGED faults
    BY <1>15, <2>1, KnownTyped DEF FinishAttempt, AfterReport, Locations, TypeInv, AgentRunsTypeOK, ManagerTypeOK, Goto
  <2>2. CASE faults < MaxFaults /\ faults' = faults + 1 /\ UNCHANGED pc
    BY <1>15, <2>2, BoundsAssumption DEF FinishAttempt, TypeInv, AgentRunsTypeOK, ManagerTypeOK
  <2>3. QED
    BY <1>15, <2>1, <2>2 DEF FinishAttempt
<1>16. ASSUME NEW c \in 1 .. Len(commands), Acknowledge(c) PROVE ManagerTypeOK'
  BY <1>16, KnownTyped, BoundsAssumption DEF Acknowledge, Locations, TypeInv, AgentRunsTypeOK, ManagerTypeOK, Goto
<1>17. ASSUME NEW c \in 1 .. Len(commands), Project(c) PROVE ManagerTypeOK'
  BY <1>17, KnownTyped, BoundsAssumption DEF Project, Locations, TypeInv, AgentRunsTypeOK, ManagerTypeOK, Goto
<1>18. ASSUME NEW c \in 1 .. Len(commands), Complete(c) PROVE ManagerTypeOK'
  <2>1. CASE active[RunOf(c)] = c
    <3>1. pc' \in [Command -> Locations]
      BY <1>18, <2>1, KnownTyped DEF Complete, EndExecution, Locations, TypeInv, AgentRunsTypeOK, ManagerTypeOK, Goto
    <3>2. /\ active' \in [Run -> Command \union {0}]
          /\ stop' \in [Run -> {"none", "PAUSED", "CANCELLED"}]
          /\ interruption' \in [Run -> {"none", "PAUSED", "CANCELLED"}]
      BY <1>18, <2>1, KnownTyped DEF Complete, EndExecution, TypeInv, AgentRunsTypeOK, ManagerTypeOK, Goto
    <3>3. /\ outcome' \in [Command -> {"none", "RECOVERED"} \union Closed]
          /\ attempt' \in [Command -> Nat] /\ UNCHANGED chain
      BY <1>18, <2>1, KnownTyped DEF Complete, EndExecution, TypeInv, AgentRunsTypeOK, ManagerTypeOK, Goto
    <3>4. QED
      BY <1>18, <3>1, <3>2, <3>3 DEF Complete, TypeInv, AgentRunsTypeOK, ManagerTypeOK, Goto
  <2>2. CASE active[RunOf(c)] # c
    BY <1>18, <2>2, KnownTyped, BoundsAssumption, LeftBehind DEF Complete, EndExecution, Calm, Locations, TypeInv, AgentRunsTypeOK, ManagerTypeOK, Goto
  <2>3. QED
    BY <1>18, <2>1, <2>2 DEF Complete
<1>19. ASSUME NEW c \in 1 .. Len(commands), ProviderEnds(c) PROVE ManagerTypeOK'
  BY <1>19, KnownTyped, BoundsAssumption DEF ProviderEnds, Locations, Closed, TypeInv, AgentRunsTypeOK, ManagerTypeOK, Goto
<1>20. ASSUME NEW c \in 1 .. Len(commands), StartFails(c) PROVE ManagerTypeOK'
  BY <1>20, KnownTyped, BoundsAssumption DEF StartFails, Locations, Closed, TypeInv, AgentRunsTypeOK, ManagerTypeOK, Goto
<1>21. ASSUME NEW c \in 1 .. Len(commands), ClaimUnanswered(c) PROVE ManagerTypeOK'
  BY SMTT(40), <1>21, KnownTyped, BoundsAssumption, LeftBehind DEF ClaimUnanswered, Calm, Locations, TypeInv, AgentRunsTypeOK, ManagerTypeOK, Goto
<1>22. ASSUME NEW c \in 1 .. Len(commands), Repeat(c) PROVE ManagerTypeOK'
  BY <1>22, KnownTyped, BoundsAssumption DEF Repeat, Locations, TypeInv, AgentRunsTypeOK, ManagerTypeOK, Goto
<1>23. ASSUME NEW c \in 1 .. Len(commands), GiveUp(c) PROVE ManagerTypeOK'
  BY <1>23, KnownTyped, BoundsAssumption, LeftBehind DEF GiveUp, Calm, Locations, TypeInv, AgentRunsTypeOK, ManagerTypeOK, Goto
<1>24. ASSUME ReapRead PROVE ManagerTypeOK'
  BY <1>24, BoundsAssumption DEF ReapRead, Locations, TypeInv, AgentRunsTypeOK, ManagerTypeOK, Goto
<1>25. ASSUME FinishStartup PROVE ManagerTypeOK'
  BY <1>25, BoundsAssumption DEF FinishStartup, Locations, TypeInv, AgentRunsTypeOK, ManagerTypeOK, Goto
<1>26. ASSUME Crash PROVE ManagerTypeOK'
  <2>1. procs' \subseteq procs
    BY <1>26 DEF Crash
  <2>2. /\ pc' \in [Command -> Locations] /\ chain' \in Seq(Command)
        /\ active' \in [Run -> Command \union {0}]
        /\ outcome' \in [Command -> {"none", "RECOVERED"} \union Closed]
        /\ attempt' \in [Command -> Nat]
    BY <1>26 DEF Crash, Locations
  <2>3. /\ interruption' \in [Run -> {"none", "PAUSED", "CANCELLED"}]
        /\ stop' \in [Run -> {"none", "PAUSED", "CANCELLED"}]
    BY <1>26 DEF Crash
  <2>4. faults' \in 0 .. MaxFaults
    BY <1>26, BoundsAssumption DEF Crash, TypeInv, AgentRunsTypeOK, ManagerTypeOK
  <2>5. QED
    BY <1>26, <2>1, <2>2, <2>3, <2>4 DEF Crash, TypeInv, AgentRunsTypeOK, ManagerTypeOK, Goto
<1>27. ASSUME Restart PROVE ManagerTypeOK'
  BY <1>27, BoundsAssumption DEF Restart, Locations, TypeInv, AgentRunsTypeOK, ManagerTypeOK, Goto
<1>28. ASSUME Cut PROVE ManagerTypeOK'
  BY <1>28, BoundsAssumption DEF Cut, Locations, TypeInv, AgentRunsTypeOK, ManagerTypeOK, Goto
<1>29. ASSUME Reconnect PROVE ManagerTypeOK'
  BY <1>29, BoundsAssumption DEF Reconnect, Locations, TypeInv, AgentRunsTypeOK, ManagerTypeOK, Goto
<1>30. CASE UNCHANGED agentVars
  BY <1>30 DEF agentVars, TypeInv, AgentRunsTypeOK, ManagerTypeOK, Goto
<1>31. ASSUME NEW c \in 1 .. Len(commands), PrepareFails(c) PROVE ManagerTypeOK'
  BY <1>31, KnownTyped, BoundsAssumption DEF PrepareFails, Locations, Closed, TypeInv, AgentRunsTypeOK, ManagerTypeOK, Goto
<1>32. ASSUME NEW c \in 1 .. Len(commands), RecoveryFails(c) PROVE ManagerTypeOK'
  BY <1>32, KnownTyped, BoundsAssumption DEF RecoveryFails, Locations, TypeInv, AgentRunsTypeOK, ManagerTypeOK, Goto
<1>33. ASSUME NEW c \in 1 .. Len(commands), SettleFails(c) PROVE ManagerTypeOK'
  <2>1. CASE active[RunOf(c)] = c
    <3>1. pc' \in [Command -> Locations]
      BY <1>33, <2>1, KnownTyped DEF SettleFails, EndExecution, Locations, TypeInv, AgentRunsTypeOK, ManagerTypeOK, Goto
    <3>2. /\ active' \in [Run -> Command \union {0}]
          /\ stop' \in [Run -> {"none", "PAUSED", "CANCELLED"}]
          /\ interruption' \in [Run -> {"none", "PAUSED", "CANCELLED"}]
      BY <1>33, <2>1, KnownTyped DEF SettleFails, EndExecution, TypeInv, AgentRunsTypeOK, ManagerTypeOK, Goto
    <3>3. /\ outcome' \in [Command -> {"none", "RECOVERED"} \union Closed]
          /\ attempt' \in [Command -> Nat] /\ UNCHANGED chain
          /\ left' \subseteq Command /\ faults' \in 0 .. MaxFaults
      BY <1>33, <2>1, KnownTyped, BoundsAssumption DEF SettleFails, EndExecution, TypeInv, AgentRunsTypeOK, ManagerTypeOK, Goto
    <3>4. QED
      BY <1>33, <3>1, <3>2, <3>3 DEF SettleFails, TypeInv, AgentRunsTypeOK, ManagerTypeOK, Goto
  <2>2. CASE active[RunOf(c)] # c
    <3>1. /\ pc' \in [Command -> Locations] /\ chain' \in Seq(Command)
          /\ interruption' \in [Run -> {"none", "PAUSED", "CANCELLED"}]
      BY <1>33, <2>2, KnownTyped, LeftBehind DEF SettleFails, EndExecution, Calm, Locations, TypeInv, AgentRunsTypeOK, ManagerTypeOK, Goto
    <3>2. /\ outcome' \in [Command -> {"none", "RECOVERED"} \union Closed]
          /\ attempt' \in [Command -> Nat]
          /\ left' \subseteq Command /\ faults' \in 0 .. MaxFaults
      BY <1>33, KnownTyped, BoundsAssumption DEF SettleFails, TypeInv, AgentRunsTypeOK, ManagerTypeOK
    <3>3. UNCHANGED <<agent, starting, active, stop, procs, launched>>
      BY <1>33, <2>2 DEF SettleFails, EndExecution
    <3>4. QED
      BY <3>1, <3>2, <3>3 DEF TypeInv, AgentRunsTypeOK, ManagerTypeOK
  <2>3. QED
    BY <1>33, <2>1, <2>2 DEF SettleFails
<1>34. ASSUME NEW c \in 1 .. Len(commands), FreeSlot(c) PROVE ManagerTypeOK'
  BY <1>34, KnownTyped, BoundsAssumption DEF FreeSlot, Locations, TypeInv, AgentRunsTypeOK, ManagerTypeOK, Goto
<1>35. QED
  BY <1>1, <1>2, <1>3, <1>4, <1>5, <1>6, <1>7, <1>8, <1>9, <1>10, <1>11, <1>12, <1>13, <1>14, <1>15, <1>16, <1>17, <1>18, <1>19, <1>20, <1>21, <1>22, <1>23, <1>24, <1>25, <1>26, <1>27, <1>28, <1>29, <1>30, <1>31, <1>32, <1>33, <1>34 DEF Next, User, Step, vars, Create, FollowUpRead, FollowUpCreate, Pause, Continue, CancelQueued, CancelRunning, Promote, ReapWrite

LEMMA StepKeepsDecided ==
  ASSUME TypeInv, [Next]_vars
  PROVE  EndsAreDecided'
<1>1. ASSUME NEW c \in 1 .. Len(commands), Deliver(c) PROVE EndsAreDecided'
  BY <1>1, KnownTyped DEF Deliver, Noted, TypeInv, EndsAreDecided, AgentRunsTypeOK, ManagerTypeOK, Goto
<1>2. ASSUME NEW c \in 1 .. Len(commands), Recover(c) PROVE EndsAreDecided'
  BY <1>2, KnownTyped DEF Recover, TypeInv, EndsAreDecided, AgentRunsTypeOK, ManagerTypeOK, Goto
<1>3. ASSUME NEW c \in 1 .. Len(commands), StopSurvivors(c) PROVE EndsAreDecided'
  BY <1>3, KnownTyped DEF StopSurvivors, TypeInv, EndsAreDecided, AgentRunsTypeOK, ManagerTypeOK, Goto
<1>4. ASSUME NEW c \in 1 .. Len(commands), Claim(c) PROVE EndsAreDecided'
  BY <1>4, KnownTyped DEF Claim, TypeInv, EndsAreDecided, AgentRunsTypeOK, ManagerTypeOK, Goto
<1>5. ASSUME NEW c \in 1 .. Len(commands), Refused(c) PROVE EndsAreDecided'
  BY <1>5, KnownTyped DEF Refused, Calm, TypeInv, EndsAreDecided, AgentRunsTypeOK, ManagerTypeOK, Goto
<1>6. ASSUME NEW c \in 1 .. Len(commands), BeginRead(c) PROVE EndsAreDecided'
  BY <1>6, KnownTyped DEF BeginRead, TypeInv, EndsAreDecided, AgentRunsTypeOK, ManagerTypeOK, Goto
<1>7. ASSUME NEW c \in 1 .. Len(commands), BeginWrite(c) PROVE EndsAreDecided'
  BY <1>7, KnownTyped DEF BeginWrite, TypeInv, EndsAreDecided, AgentRunsTypeOK, ManagerTypeOK, Goto
<1>8. ASSUME NEW c \in 1 .. Len(commands), BeginFails(c) PROVE EndsAreDecided'
  BY <1>8, KnownTyped DEF BeginFails, TypeInv, EndsAreDecided, AgentRunsTypeOK, ManagerTypeOK, Goto
<1>9. ASSUME NEW c \in 1 .. Len(commands), Prepare(c) PROVE EndsAreDecided'
  BY <1>9, KnownTyped DEF Prepare, TypeInv, EndsAreDecided, AgentRunsTypeOK, ManagerTypeOK, Goto
<1>10. ASSUME NEW c \in 1 .. Len(commands), StartProvider(c) PROVE EndsAreDecided'
  BY <1>10, KnownTyped DEF StartProvider, TypeInv, EndsAreDecided, AgentRunsTypeOK, ManagerTypeOK, Goto
<1>11. ASSUME NEW c \in 1 .. Len(commands), StopPreparation(c) PROVE EndsAreDecided'
  BY <1>11, KnownTyped DEF StopPreparation, TypeInv, EndsAreDecided, AgentRunsTypeOK, ManagerTypeOK, Goto
<1>12. ASSUME NEW c \in 1 .. Len(commands), Interrupt(c) PROVE EndsAreDecided'
  BY <1>12, KnownTyped DEF Interrupt, TypeInv, EndsAreDecided, AgentRunsTypeOK, ManagerTypeOK, Goto
<1>13. ASSUME NEW c \in 1 .. Len(commands), ProviderStops(c) PROVE EndsAreDecided'
  BY <1>13, KnownTyped DEF ProviderStops, TypeInv, EndsAreDecided, AgentRunsTypeOK, ManagerTypeOK, Goto
<1>14. ASSUME NEW c \in 1 .. Len(commands), Settle(c) PROVE EndsAreDecided'
  <2>1. c \in Command /\ outcome[c] # "none"
    BY <1>14, KnownTyped DEF Settle, TypeInv, EndsAreDecided
  <2>2. PICK o \in {outcome[c], "FAILED"} : outcome' = [outcome EXCEPT ![c] = o]
    BY <1>14 DEF Settle
  <2>3. o # "none"
    BY <2>1, <2>2
  <2>4. QED
    BY <1>14, <2>1, <2>2, <2>3 DEF Settle, TypeInv, EndsAreDecided, AgentRunsTypeOK, ManagerTypeOK, Goto
<1>15. ASSUME NEW c \in 1 .. Len(commands), FinishAttempt(c) PROVE EndsAreDecided'
  BY <1>15, KnownTyped DEF FinishAttempt, AfterReport, TypeInv, EndsAreDecided, AgentRunsTypeOK, ManagerTypeOK, Goto
<1>16. ASSUME NEW c \in 1 .. Len(commands), Acknowledge(c) PROVE EndsAreDecided'
  BY <1>16, KnownTyped DEF Acknowledge, TypeInv, EndsAreDecided, AgentRunsTypeOK, ManagerTypeOK, Goto
<1>17. ASSUME NEW c \in 1 .. Len(commands), Project(c) PROVE EndsAreDecided'
  BY <1>17, KnownTyped DEF Project, TypeInv, EndsAreDecided, AgentRunsTypeOK, ManagerTypeOK, Goto
<1>18. ASSUME NEW c \in 1 .. Len(commands), Complete(c) PROVE EndsAreDecided'
  BY <1>18, KnownTyped DEF Complete, EndExecution, Calm, TypeInv, EndsAreDecided, AgentRunsTypeOK, ManagerTypeOK, Goto
<1>19. ASSUME NEW c \in 1 .. Len(commands), ProviderEnds(c) PROVE EndsAreDecided'
  BY <1>19, KnownTyped DEF ProviderEnds, TypeInv, EndsAreDecided, AgentRunsTypeOK, ManagerTypeOK, Goto
<1>20. ASSUME NEW c \in 1 .. Len(commands), StartFails(c) PROVE EndsAreDecided'
  BY <1>20, KnownTyped DEF StartFails, TypeInv, EndsAreDecided, AgentRunsTypeOK, ManagerTypeOK, Goto
<1>21. ASSUME NEW c \in 1 .. Len(commands), ClaimUnanswered(c) PROVE EndsAreDecided'
  BY <1>21, KnownTyped DEF ClaimUnanswered, Calm, TypeInv, EndsAreDecided, AgentRunsTypeOK, ManagerTypeOK, Goto
<1>22. ASSUME NEW c \in 1 .. Len(commands), Repeat(c) PROVE EndsAreDecided'
  BY <1>22, KnownTyped DEF Repeat, TypeInv, EndsAreDecided, AgentRunsTypeOK, ManagerTypeOK, Goto
<1>23. ASSUME NEW c \in 1 .. Len(commands), GiveUp(c) PROVE EndsAreDecided'
  BY <1>23, KnownTyped DEF GiveUp, Calm, TypeInv, EndsAreDecided, AgentRunsTypeOK, ManagerTypeOK, Goto
<1>24. ASSUME NEW c \in 1 .. Len(commands), PrepareFails(c) PROVE EndsAreDecided'
  BY <1>24, KnownTyped DEF PrepareFails, TypeInv, EndsAreDecided, AgentRunsTypeOK, ManagerTypeOK, Goto
<1>25. ASSUME NEW c \in 1 .. Len(commands), RecoveryFails(c) PROVE EndsAreDecided'
  BY <1>25, KnownTyped DEF RecoveryFails, TypeInv, EndsAreDecided, AgentRunsTypeOK, ManagerTypeOK, Goto
<1>26. ASSUME NEW c \in 1 .. Len(commands), SettleFails(c) PROVE EndsAreDecided'
  BY <1>26, KnownTyped DEF SettleFails, EndExecution, Calm, TypeInv, EndsAreDecided, AgentRunsTypeOK, ManagerTypeOK, Goto
<1>27. ASSUME NEW c \in 1 .. Len(commands), FreeSlot(c) PROVE EndsAreDecided'
  BY <1>27, KnownTyped DEF FreeSlot, TypeInv, EndsAreDecided, AgentRunsTypeOK, ManagerTypeOK, Goto
<1>28. CASE Crash
  BY <1>28 DEF Crash, TypeInv, EndsAreDecided, AgentRunsTypeOK, ManagerTypeOK, Goto
<1>29. CASE UNCHANGED <<pc, outcome>>
  BY <1>29 DEF TypeInv, EndsAreDecided, AgentRunsTypeOK, ManagerTypeOK, Goto
<1>30. QED
  BY <1>1, <1>2, <1>3, <1>4, <1>5, <1>6, <1>7, <1>8, <1>9, <1>10, <1>11, <1>12, <1>13, <1>14, <1>15, <1>16, <1>17, <1>18, <1>19, <1>20, <1>21, <1>22, <1>23, <1>24, <1>25, <1>26, <1>27, <1>28, <1>29 DEF Next, User, Step, vars, agentVars, Create, FollowUpRead, FollowUpCreate, Pause, Continue, CancelQueued, CancelRunning, Promote, ReapWrite, ReapRead, FinishStartup, Restart, Cut, Reconnect

(* A step enqueues at most, and never changes what a command is about. *)
LEMMA StepKeepsCommands ==
  ASSUME TypeInv, [Next]_vars
  PROVE  /\ CommandsGrow /\ Len(commands') <= MaxCommands
         /\ \A c \in Command : Known(c) => Known(c)'
<1>0. commands \in Seq(CommandRow) /\ Len(commands) \in Nat
  BY DEF TypeInv, AgentRunsTypeOK, ServerTypeOK
<1>1. ASSUME NEW r \in Run, NEW type, Enqueue(r, type)
      PROVE  CommandsGrow /\ Len(commands') <= MaxCommands
  BY <1>0, <1>1, BoundsAssumption DEF Enqueue, CommandsGrow
<1>2. ASSUME NEW r \in Run, CancelQueued(r)
      PROVE  CommandsGrow /\ Len(commands') <= MaxCommands
  BY <1>0, <1>2 DEF CancelQueued, CommandsGrow, CommandRow, TypeInv, EnqueuedFirst
<1>3. ASSUME ReapWrite
      PROVE  CommandsGrow /\ Len(commands') <= MaxCommands
  BY <1>0, <1>3 DEF ReapWrite, CommandsGrow, CommandRow, TypeInv, EnqueuedFirst
<1>4. ASSUME NEW c \in 1 .. Len(commands), NEW st, commands' = [commands EXCEPT ![c].status = st]
      PROVE  CommandsGrow /\ Len(commands') <= MaxCommands
  <2> DEFINE row == [commands[c] EXCEPT !.status = st]
  <2>1. commands[c] \in CommandRow
    BY <1>0
  <2>2. row.run = commands[c].run /\ row.type = commands[c].type
    BY <2>1 DEF CommandRow
  <2>3. commands' = [commands EXCEPT ![c] = row]
    BY <1>4
  <2> HIDE DEF row
  <2>4. /\ Len(commands') = Len(commands)
        /\ \A d \in 1 .. Len(commands) : commands'[d] = IF d = c THEN row ELSE commands[d]
    BY <1>0, <2>3
  <2>5. QED
    BY <1>0, <2>2, <2>4 DEF CommandsGrow, TypeInv, EnqueuedFirst
<1>5. ASSUME UNCHANGED commands
      PROVE  CommandsGrow /\ Len(commands') <= MaxCommands
  BY <1>0, <1>5 DEF CommandsGrow, TypeInv, EnqueuedFirst
<1>6. CommandsGrow /\ Len(commands') <= MaxCommands
  <2>1. ASSUME NEW r \in Run, User(r) PROVE CommandsGrow /\ Len(commands') <= MaxCommands
    BY <1>1, <1>2, <1>5, <2>1 DEF User, Create, FollowUpRead, FollowUpCreate, Pause, Continue, CancelRunning
  <2>2. ASSUME NEW c \in 1 .. Len(commands), Claim(c) \/ ClaimUnanswered(c) \/ Acknowledge(c)
        PROVE  CommandsGrow /\ Len(commands') <= MaxCommands
    BY <1>4, <2>2 DEF Claim, ClaimUnanswered, Acknowledge
  <2>3. QED
    BY <1>3, <1>5, <2>1, <2>2
    DEF Next, Step, vars, serverVars, Promote, ReapRead, Deliver, Recover, StopSurvivors, Refused,
        BeginRead, BeginWrite, BeginFails, Prepare, StartProvider, StopPreparation, Interrupt,
        ProviderStops, Settle, FinishAttempt, Project, FreeSlot, Complete, ProviderEnds,
        PrepareFails, StartFails, RecoveryFails, SettleFails, Repeat, GiveUp,
        FinishStartup, Crash, Restart, Cut, Reconnect
<1>7. QED
  BY <1>0, <1>6 DEF CommandsGrow, Known, Command

(* The steps of the agent for one command, and those of the others. *)
Executes(c) ==
  \/ Step(c)
  \/ ProviderEnds(c) \/ PrepareFails(c) \/ StartFails(c)
  \/ RecoveryFails(c) \/ SettleFails(c) \/ ClaimUnanswered(c) \/ Repeat(c) \/ GiveUp(c)

ServerStep == (\E r \in Run : User(r)) \/ Promote \/ ReapRead \/ ReapWrite

AgentStep == FinishStartup \/ Crash \/ Restart \/ Cut \/ Reconnect

LEMMA NextCases ==
  ASSUME [Next]_vars
  PROVE  ServerStep \/ AgentStep \/ (\E c \in 1 .. Len(commands) : Executes(c)) \/ UNCHANGED vars
BY DEF Next, ServerStep, AgentStep, Executes

(* The users and the control plane do not touch an execution. *)
LEMMA ServerIsApart ==
  ASSUME ServerStep
  PROVE  UNCHANGED <<agent, starting, pc, chain, active, interruption, stop, outcome,
                     attempt, procs, launched, left, held>>
BY DEF ServerStep, User, Create, FollowUpRead, FollowUpCreate, Pause, Continue, CancelQueued,
       CancelRunning, Promote, ReapRead, ReapWrite, agentVars

(* An execution touches no other, but for those that wait for its provider. *)
LEMMA ExecutesAlone ==
  ASSUME TypeInv, NEW c \in 1 .. Len(commands), Executes(c)
  PROVE  /\ UNCHANGED <<agent, starting>>
         /\ \A d \in Command \ {c} :
              /\ pc'[d] = pc[d] \/ (pc[d] = "waiting" /\ pc'[d] = "acking")
              /\ d \in held' <=> d \in held
              /\ d \in procs' <=> d \in procs
              /\ d \in launched' <=> d \in launched
              /\ d \in left' <=> d \in left
<1>1. CASE Deliver(c) \/ Recover(c) \/ StopSurvivors(c) \/ Claim(c) \/ Refused(c) \/ BeginRead(c)
  BY <1>1 DEF Deliver, Recover, StopSurvivors, Claim, Refused, BeginRead, TypeInv, AgentRunsTypeOK, ManagerTypeOK, Goto, serverVars
<1>2. CASE BeginWrite(c) \/ BeginFails(c) \/ Prepare(c) \/ StartProvider(c) \/ StopPreparation(c) \/ Interrupt(c)
  BY <1>2 DEF BeginWrite, BeginFails, Prepare, StartProvider, StopPreparation, Interrupt, TypeInv, AgentRunsTypeOK, ManagerTypeOK, Goto, serverVars
<1>3. CASE ProviderStops(c) \/ Settle(c) \/ FinishAttempt(c) \/ Acknowledge(c) \/ Project(c)
  BY <1>3 DEF ProviderStops, Settle, FinishAttempt, Acknowledge, Project, TypeInv, AgentRunsTypeOK, ManagerTypeOK, Goto, serverVars
<1>4. CASE Complete(c) \/ SettleFails(c)
  BY <1>4 DEF Complete, SettleFails, EndExecution, TypeInv, AgentRunsTypeOK, ManagerTypeOK, Goto, serverVars
<1>5. CASE ProviderEnds(c) \/ StartFails(c) \/ ClaimUnanswered(c) \/ Repeat(c) \/ GiveUp(c)
  BY <1>5 DEF ProviderEnds, StartFails, ClaimUnanswered, Repeat, GiveUp, TypeInv, AgentRunsTypeOK, ManagerTypeOK, Goto, serverVars
<1>6. CASE PrepareFails(c) \/ RecoveryFails(c) \/ FreeSlot(c)
  BY <1>6 DEF PrepareFails, RecoveryFails, FreeSlot, TypeInv, AgentRunsTypeOK, ManagerTypeOK, Goto, serverVars
<1>7. QED
  BY <1>1, <1>2, <1>3, <1>4, <1>5, <1>6 DEF Executes, Step

(* The queue only grows by what is executed. *)
LEMMA QueueGrows ==
  ASSUME TypeInv, NEW c \in 1 .. Len(commands), Executes(c)
  PROVE  \/ UNCHANGED chain
         \/ Leave(c)
         \/ pc[c] = "idle" /\ chain' = Append(chain, c)
BY DEF Executes, Step, Deliver, Idle, Recover, StopSurvivors, Claim, Refused, BeginRead, BeginWrite, BeginFails, Prepare, StartProvider, StopPreparation, Interrupt, ProviderStops, Settle, FinishAttempt, Acknowledge, Project, FreeSlot, Complete, EndExecution, ProviderEnds, PrepareFails, StartFails, RecoveryFails, SettleFails, ClaimUnanswered, Repeat, GiveUp

(* Who executes, holds or has launched a command was given it before. *)
LEMMA GivenWasKnown ==
  ASSUME TypeInv, [Next]_vars, NEW c \in Command,
         pc'[c] # "idle" \/ c \in held' \/ c \in launched'
  PROVE  Known(c)
<1>1. CASE ServerStep
  BY <1>1, ServerIsApart DEF TypeInv, EnqueuedFirst
<1>2. CASE AgentStep
  BY <1>2 DEF AgentStep, FinishStartup, Crash, Restart, Cut, Reconnect, serverVars, TypeInv, EnqueuedFirst
<1>3. ASSUME NEW d \in 1 .. Len(commands), Executes(d) PROVE Known(c)
  BY <1>3, ExecutesAlone DEF TypeInv, EnqueuedFirst, Known
<1>4. CASE UNCHANGED vars
  BY <1>4 DEF vars, serverVars, agentVars, TypeInv, EnqueuedFirst
<1>5. QED
  BY <1>1, <1>2, <1>3, <1>4, NextCases

LEMMA StepKeepsEnqueued ==
  ASSUME TypeInv, [Next]_vars
  PROVE  EnqueuedFirst'
<1>1. Len(commands') <= MaxCommands /\ \A c \in Command : Known(c) => Known(c)'
  BY StepKeepsCommands
<1>2. \A c \in Command : pc'[c] # "idle" \/ c \in held' \/ c \in launched' => Known(c)
  BY GivenWasKnown
<1>3. \A i \in DOMAIN chain' : chain'[i] \in Command /\ Known(chain'[i])
  <2>0. chain \in Seq(Command) /\ \A i \in DOMAIN chain : chain[i] \in Command /\ Known(chain[i])
    BY DEF TypeInv, AgentRunsTypeOK, ManagerTypeOK, EnqueuedFirst
  <2>1. CASE UNCHANGED chain
    BY <2>0, <2>1
  <2>2. ASSUME NEW c \in 1 .. Len(commands), Executes(c)
        PROVE  \A i \in DOMAIN chain' : chain'[i] \in Command /\ Known(chain'[i])
    <3>1. CASE Leave(c)
      BY <2>0, <3>1, LeftBehind
    <3>2. CASE chain' = Append(chain, c)
      BY <2>0, <3>2, KnownTyped DEF Known
    <3>3. QED
      BY <2>1, <2>2, <3>1, <3>2, QueueGrows
  <2>3. CASE Crash
    BY <2>3 DEF Crash
  <2>4. QED
    BY <2>1, <2>2, <2>3, NextCases, ServerIsApart
    DEF AgentStep, FinishStartup, Restart, Cut, Reconnect, vars, agentVars
<1>4. QED
  BY <1>1, <1>2, <1>3 DEF EnqueuedFirst, TypeInv

(* The types and what was enqueued are kept together. *)
LEMMA TypesInductive ==
  Spec => []TypeInv
<1>1. Init => TypeInv
  <2> SUFFICES ASSUME Init PROVE TypeInv
    OBVIOUS
  <2>1. ServerTypeOK
    BY DEF Init, ServerTypeOK
  <2>2. ManagerTypeOK
    <3>1. /\ pc \in [Command -> Locations] /\ chain \in Seq(Command)
          /\ outcome \in [Command -> {"none", "RECOVERED"} \union Closed]
          /\ attempt \in [Command -> Nat]
      BY DEF Init, Locations
    <3>2. /\ active \in [Run -> Command \union {0}]
          /\ interruption \in [Run -> {"none", "PAUSED", "CANCELLED"}]
          /\ stop \in [Run -> {"none", "PAUSED", "CANCELLED"}]
      BY DEF Init
    <3>3. agent \in {"up", "cut", "down"} /\ starting \in BOOLEAN
      BY DEF Init
    <3>4. procs = {} /\ launched = {} /\ left = {} /\ faults \in 0 .. MaxFaults
      BY BoundsAssumption DEF Init
    <3>5. QED
      BY <3>1, <3>2, <3>3, <3>4 DEF ManagerTypeOK
  <2>3. EndsAreDecided /\ EnqueuedFirst
    BY BoundsAssumption DEF Init, EndsAreDecided, EnqueuedFirst
  <2>4. QED
    BY <2>1, <2>2, <2>3 DEF TypeInv, AgentRunsTypeOK
<1>2. TypeInv /\ [Next]_vars => TypeInv'
  <2> SUFFICES ASSUME TypeInv, [Next]_vars PROVE TypeInv'
    OBVIOUS
  <2>1. ServerTypeOK' /\ ManagerTypeOK' /\ EndsAreDecided' /\ EnqueuedFirst'
    BY StepKeepsServerTypes, StepKeepsManagerTypes, StepKeepsDecided, StepKeepsEnqueued
  <2>2. QED
    BY <2>1 DEF TypeInv, AgentRunsTypeOK
<1>3. QED
  BY <1>1, <1>2, PTL DEF Spec

(* Every variable keeps its type, and finishAttempt records an end of an   *)
(* attempt: nothing is reported before it was decided.                     *)
THEOREM RunsTypeCorrect ==
  Spec => []AgentRunsTypeOK
<1>1. TypeInv => AgentRunsTypeOK
  BY DEF TypeInv
<1>2. QED
  BY <1>1, TypesInductive, PTL

-------------------------------------------------------------------------------

Beginning == {"beginning", "began", "starting"}

(* What starts a provider has taken the source. *)
StartsHold ==
  \A c \in Command : pc[c] \in Beginning \/ (pc[c] = "claimed" /\ IsStart(c)) => c \in held

(* Processes are held for, and their command is still to stop them: where  *)
(* it is executed, when the agent comes back, or when a command that could *)
(* not stop them is claimed again.                                         *)
ProcessesWatched ==
  \A c \in procs :
     /\ c \in held
     /\ \/ pc[c] \in {"began", "starting", "active", "settling", "finishing", "failing"}
        \/ pc[c] \in {"idle", "recover"} /\ (starting \/ agent = "down" \/ c \in left)

SourceInv == StartsHold /\ ProcessesWatched


(* What is kept for the command that is executed ...                       *)
LEMMA ExecutedHolds ==
  ASSUME TypeInv, SourceInv, NEW c \in 1 .. Len(commands), Executes(c)
  PROVE  /\ pc'[c] \in Beginning \/ (pc'[c] = "claimed" /\ IsStart(c)) => c \in held'
         /\ c \in procs' => /\ c \in held'
                            /\ \/ pc'[c] \in {"began", "starting", "active", "settling",
                                              "finishing", "failing"}
                               \/ /\ pc'[c] \in {"idle", "recover"}
                                  /\ starting \/ agent = "down" \/ c \in left'
<1>1. CASE Deliver(c) \/ Recover(c) \/ StopSurvivors(c)
  <2>1. CASE Deliver(c)
    BY <2>1, KnownTyped DEF Deliver, Unclaimed,
       SourceInv, StartsHold, ProcessesWatched, Beginning,
       Goto, serverVars, Idle, TypeInv, AgentRunsTypeOK, ManagerTypeOK
  <2>2. CASE Recover(c)
    BY <2>2, KnownTyped DEF Recover,
       SourceInv, StartsHold, ProcessesWatched, Beginning,
       Goto, serverVars, Idle, TypeInv, AgentRunsTypeOK, ManagerTypeOK
  <2>3. CASE StopSurvivors(c)
    BY <2>3, KnownTyped DEF StopSurvivors,
       SourceInv, StartsHold, ProcessesWatched, Beginning,
       Goto, serverVars, Idle, TypeInv, AgentRunsTypeOK, ManagerTypeOK
  <2>4. QED
    BY <1>1, <2>1, <2>2, <2>3
<1>2. CASE Claim(c) \/ Refused(c) \/ BeginRead(c)
  BY <1>2, KnownTyped DEF Claim, Refused, BeginRead,
       SourceInv, StartsHold, ProcessesWatched, Beginning,
       Goto, serverVars, Idle, TypeInv, AgentRunsTypeOK, ManagerTypeOK
<1>3. CASE BeginWrite(c) \/ BeginFails(c) \/ Prepare(c)
  BY <1>3, KnownTyped DEF BeginWrite, BeginFails, Prepare,
       SourceInv, StartsHold, ProcessesWatched, Beginning,
       Goto, serverVars, Idle, TypeInv, AgentRunsTypeOK, ManagerTypeOK
<1>4. CASE StartProvider(c) \/ StopPreparation(c) \/ Interrupt(c)
  BY <1>4, KnownTyped DEF StartProvider, StopPreparation, Interrupt,
       SourceInv, StartsHold, ProcessesWatched, Beginning,
       Goto, serverVars, Idle, TypeInv, AgentRunsTypeOK, ManagerTypeOK
<1>5. CASE ProviderStops(c) \/ Settle(c) \/ FinishAttempt(c)
  BY <1>5, KnownTyped DEF ProviderStops, Settle, FinishAttempt, AfterReport,
       SourceInv, StartsHold, ProcessesWatched, Beginning,
       Goto, serverVars, Idle, TypeInv, AgentRunsTypeOK, ManagerTypeOK
<1>6. CASE Acknowledge(c) \/ Project(c)
  BY <1>6, KnownTyped DEF Acknowledge, Project,
       SourceInv, StartsHold, ProcessesWatched, Beginning,
       Goto, serverVars, Idle, TypeInv, AgentRunsTypeOK, ManagerTypeOK
<1>7. CASE Complete(c)
  BY <1>7, KnownTyped DEF Complete, EndExecution,
       SourceInv, StartsHold, ProcessesWatched, Beginning,
       Goto, serverVars, Idle, TypeInv, AgentRunsTypeOK, ManagerTypeOK
<1>8. CASE ProviderEnds(c) \/ StartFails(c) \/ ClaimUnanswered(c)
  BY <1>8, KnownTyped DEF ProviderEnds, StartFails, ClaimUnanswered,
       SourceInv, StartsHold, ProcessesWatched, Beginning,
       Goto, serverVars, Idle, TypeInv, AgentRunsTypeOK, ManagerTypeOK
<1>9. CASE Repeat(c) \/ GiveUp(c)
  BY <1>9, KnownTyped DEF Repeat, GiveUp,
       SourceInv, StartsHold, ProcessesWatched, Beginning,
       Goto, serverVars, Idle, TypeInv, AgentRunsTypeOK, ManagerTypeOK
<1>10. CASE PrepareFails(c) \/ RecoveryFails(c) \/ FreeSlot(c)
  BY <1>10, KnownTyped DEF PrepareFails, RecoveryFails, FreeSlot,
       SourceInv, StartsHold, ProcessesWatched, Beginning,
       Goto, serverVars, Idle, TypeInv, AgentRunsTypeOK, ManagerTypeOK
<1>11. CASE SettleFails(c)
  BY <1>11, KnownTyped DEF SettleFails, EndExecution,
       SourceInv, StartsHold, ProcessesWatched, Beginning,
       Goto, serverVars, Idle, TypeInv, AgentRunsTypeOK, ManagerTypeOK
<1>12. QED
  BY <1>1, <1>2, <1>3, <1>4, <1>5, <1>6, <1>7, <1>8, <1>9, <1>10, <1>11 DEF Executes, Step

(* ... and for every command. *)
LEMMA StepKeepsSource ==
  ASSUME TypeInv, SourceInv, [Next]_vars
  PROVE  SourceInv'
<1>1. /\ \A c \in 1 .. Len(commands) : IsStart(c)' = IsStart(c)
      /\ \A c \in Command : pc[c] # "idle" => c \in 1 .. Len(commands)
  BY StepKeepsCommands DEF TypeInv, EnqueuedFirst, Known, CommandsGrow, IsStart
<1>2. procs \subseteq Command
  BY DEF TypeInv, AgentRunsTypeOK, ManagerTypeOK
<1>3. CASE ServerStep
  BY <1>1, <1>2, <1>3, ServerIsApart DEF SourceInv, StartsHold, ProcessesWatched, Beginning
<1>4. CASE AgentStep
  <2>1. CASE FinishStartup
    BY <1>2, <2>1 DEF FinishStartup, serverVars, SourceInv, StartsHold, ProcessesWatched, Recovering, Idle, IsStart
  <2>2. CASE Crash \/ Restart
    BY <1>2, <2>2 DEF Crash, Restart, serverVars, SourceInv, StartsHold, ProcessesWatched, Beginning, IsStart
  <2>3. CASE Cut \/ Reconnect
    BY <2>3 DEF Cut, Reconnect, serverVars, SourceInv, StartsHold, ProcessesWatched, Beginning, IsStart
  <2>4. QED
    BY <1>4, <2>1, <2>2, <2>3 DEF AgentStep
<1>5. ASSUME NEW c \in 1 .. Len(commands), Executes(c)
      PROVE  SourceInv'
  <2>1. ASSUME NEW d \in Command, d # c
        PROVE  /\ pc'[d] \in Beginning \/ (pc'[d] = "claimed" /\ IsStart(d)') => d \in held'
               /\ d \in procs' => /\ d \in held'
                                  /\ \/ pc'[d] \in {"began", "starting", "active", "settling",
                                                    "finishing", "failing"}
                                     \/ /\ pc'[d] \in {"idle", "recover"}
                                        /\ starting' \/ agent' = "down" \/ d \in left'
    BY <1>1, <1>5, <2>1, ExecutesAlone DEF SourceInv, StartsHold, ProcessesWatched, Beginning
  <2>2. /\ c \in Command /\ IsStart(c)' = IsStart(c)
        /\ UNCHANGED <<starting, agent>> /\ procs' \subseteq Command
    BY <1>1, <1>5, KnownTyped, ExecutesAlone, StepKeepsManagerTypes DEF ManagerTypeOK
  <2>3. QED
    BY <1>5, <2>1, <2>2, ExecutedHolds DEF SourceInv, StartsHold, ProcessesWatched, Beginning
<1>6. CASE UNCHANGED vars
  BY <1>6 DEF vars, serverVars, agentVars, SourceInv, StartsHold, ProcessesWatched, IsStart
<1>7. QED
  BY <1>3, <1>4, <1>5, <1>6, NextCases

LEMMA SourceInductive ==
  Spec => []SourceInv
<1>1. Init => SourceInv
  BY DEF Init, SourceInv, StartsHold, ProcessesWatched, Beginning
<1>2. TypeInv /\ SourceInv /\ [Next]_vars => SourceInv'
  BY StepKeepsSource
<1>3. QED
  BY <1>1, <1>2, TypesInductive, PTL DEF Spec

(* As long as processes of a session may run, its command holds the source *)
(* of the worktree: whatever crashes, is cut off, reaped or recovered, no  *)
(* acknowledgement is released before its processes are gone.              *)
THEOREM SourceProtectedHolds ==
  Spec => []SourceProtected
<1>1. SourceInv => SourceProtected
  BY DEF SourceInv, ProcessesWatched, SourceProtected
<1>2. QED
  BY <1>1, SourceInductive, PTL

-------------------------------------------------------------------------------

Over(c) == commands[c].status \notin {"QUEUED", "RUNNING"}

(* A provider that was started is held for until its command is over, and  *)
(* is past its start.                                                      *)
LaunchedIsPast ==
  \A c \in launched : (c \in held \/ Over(c)) /\ pc[c] \notin Beginning \union {"told", "claimed"}

(* What is projected was acknowledged. *)
ProjectedIsOver ==
  \A c \in Command : pc[c] \in {"projecting", "freeing", "releasing"} => Over(c)

ReplayInv == LaunchedIsPast /\ ProjectedIsOver

LEMMA OverOnceAcked ==
  ASSUME TypeInv, NEW c \in 1 .. Len(commands), Acknowledge(c)
  PROVE  Over(c)'
<1>1. commands \in Seq(CommandRow) /\ commands[c] \in CommandRow
  BY KnownTyped DEF TypeInv, AgentRunsTypeOK, ServerTypeOK
<1>2. QED
  BY <1>1 DEF Acknowledge, Over, CommandRow

(* What is over stays over. *)
LEMMA StepKeepsOver ==
  ASSUME TypeInv, [Next]_vars
  PROVE  \A c \in 1 .. Len(commands) : Over(c) => Over(c)'
<1>0. commands \in Seq(CommandRow) /\ Len(commands) \in Nat
  BY DEF TypeInv, AgentRunsTypeOK, ServerTypeOK
<1>1. ASSUME NEW r \in Run, NEW type, Enqueue(r, type)
      PROVE  \A c \in 1 .. Len(commands) : Over(c) => Over(c)'
  BY <1>0, <1>1 DEF Enqueue, Over
<1>2. ASSUME NEW r \in Run, CancelQueued(r) \/ ReapWrite
      PROVE  \A c \in 1 .. Len(commands) : Over(c) => Over(c)'
  BY <1>0, <1>2 DEF CancelQueued, ReapWrite, Over
<1>3. ASSUME NEW c \in 1 .. Len(commands), Claim(c) \/ ClaimUnanswered(c) \/ Acknowledge(c)
      PROVE  \A d \in 1 .. Len(commands) : Over(d) => Over(d)'
  <2>1. Acknowledge(c) => Over(c)'
    BY OverOnceAcked
  <2>2. Claim(c) \/ ClaimUnanswered(c) => ~Over(c)
    BY DEF Claim, ClaimUnanswered, Claimable, Over
  <2>3. \A d \in 1 .. Len(commands) : d # c => commands'[d] = commands[d]
    BY <1>0, <1>3 DEF Claim, ClaimUnanswered, Acknowledge
  <2>4. QED
    BY <1>3, <2>1, <2>2, <2>3 DEF Over
<1>4. ASSUME UNCHANGED commands
      PROVE  \A c \in 1 .. Len(commands) : Over(c) => Over(c)'
  BY <1>4 DEF Over
<1>5. ASSUME NEW r \in Run, User(r)
      PROVE  \A c \in 1 .. Len(commands) : Over(c) => Over(c)'
  BY <1>1, <1>2, <1>4, <1>5 DEF User, Create, FollowUpRead, FollowUpCreate, Pause, Continue, CancelRunning
<1>6. ReapWrite => \A c \in 1 .. Len(commands) : Over(c) => Over(c)'
  BY <1>0 DEF ReapWrite, Over
<1>7. QED
  BY <1>3, <1>4, <1>5, <1>6
  DEF Next, Step, vars, serverVars, Promote, ReapRead, Deliver, Recover, StopSurvivors, Refused,
      BeginRead, BeginWrite, BeginFails, Prepare, StartProvider, StopPreparation, Interrupt,
      ProviderStops, Settle, FinishAttempt, Project, FreeSlot, Complete, ProviderEnds,
      PrepareFails, StartFails, RecoveryFails, SettleFails, Repeat, GiveUp,
      FinishStartup, Crash, Restart, Cut, Reconnect

(* A claim or an acknowledgement is of the command that is executed.       *)
LEMMA ExecutedIsPast ==
  ASSUME TypeInv, SourceInv, ReplayInv, NEW c \in 1 .. Len(commands), Executes(c)
  PROVE  /\ c \in launched' => /\ c \in held' \/ Over(c)'
                               /\ pc'[c] \notin Beginning \union {"told", "claimed"}
         /\ pc'[c] \in {"projecting", "freeing", "releasing"} => Over(c)'
<1>1. CASE Deliver(c) \/ Recover(c) \/ StopSurvivors(c)
  BY <1>1, KnownTyped, OverOnceAcked DEF Deliver, Pending, Unclaimed, Recover, StopSurvivors,
       ReplayInv, LaunchedIsPast, ProjectedIsOver, Beginning, Over,
       Goto, serverVars, Idle, Known, TypeInv, AgentRunsTypeOK, ManagerTypeOK
<1>2. CASE Claim(c) \/ Refused(c) \/ BeginRead(c)
  BY <1>2, KnownTyped, OverOnceAcked DEF Claim, Refused, BeginRead,
       ReplayInv, LaunchedIsPast, ProjectedIsOver, Beginning, Over,
       Goto, serverVars, Idle, Known, TypeInv, AgentRunsTypeOK, ManagerTypeOK
<1>3. CASE BeginWrite(c) \/ BeginFails(c) \/ Prepare(c)
  BY <1>3, KnownTyped, OverOnceAcked DEF BeginWrite, BeginFails, Prepare,
       ReplayInv, LaunchedIsPast, ProjectedIsOver, Beginning, Over,
       Goto, serverVars, Idle, Known, TypeInv, AgentRunsTypeOK, ManagerTypeOK
<1>4. CASE StartProvider(c) \/ StopPreparation(c) \/ Interrupt(c)
  BY <1>4, KnownTyped, OverOnceAcked DEF StartProvider, SourceInv, StartsHold, StopPreparation, Interrupt,
       ReplayInv, LaunchedIsPast, ProjectedIsOver, Beginning, Over,
       Goto, serverVars, Idle, Known, TypeInv, AgentRunsTypeOK, ManagerTypeOK
<1>5. CASE ProviderStops(c) \/ Settle(c) \/ FinishAttempt(c)
  BY <1>5, KnownTyped, OverOnceAcked DEF ProviderStops, Settle, FinishAttempt, AfterReport,
       ReplayInv, LaunchedIsPast, ProjectedIsOver, Beginning, Over,
       Goto, serverVars, Idle, Known, TypeInv, AgentRunsTypeOK, ManagerTypeOK
<1>6. CASE Acknowledge(c) \/ Project(c)
  BY <1>6, KnownTyped, OverOnceAcked DEF Acknowledge, Project,
       ReplayInv, LaunchedIsPast, ProjectedIsOver, Beginning, Over,
       Goto, serverVars, Idle, Known, TypeInv, AgentRunsTypeOK, ManagerTypeOK
<1>7. CASE Complete(c)
  BY <1>7, KnownTyped, OverOnceAcked DEF Complete, EndExecution,
       ReplayInv, LaunchedIsPast, ProjectedIsOver, Beginning, Over,
       Goto, serverVars, Idle, Known, TypeInv, AgentRunsTypeOK, ManagerTypeOK
<1>8. CASE ProviderEnds(c) \/ StartFails(c) \/ ClaimUnanswered(c)
  BY <1>8, KnownTyped, OverOnceAcked DEF ProviderEnds, StartFails, ClaimUnanswered,
       ReplayInv, LaunchedIsPast, ProjectedIsOver, Beginning, Over,
       Goto, serverVars, Idle, Known, TypeInv, AgentRunsTypeOK, ManagerTypeOK
<1>9. CASE Repeat(c) \/ GiveUp(c)
  BY <1>9, KnownTyped, OverOnceAcked DEF Repeat, GiveUp,
       ReplayInv, LaunchedIsPast, ProjectedIsOver, Beginning, Over,
       Goto, serverVars, Idle, Known, TypeInv, AgentRunsTypeOK, ManagerTypeOK
<1>10. CASE PrepareFails(c) \/ RecoveryFails(c) \/ FreeSlot(c)
  BY <1>10, KnownTyped, OverOnceAcked DEF PrepareFails, RecoveryFails, FreeSlot,
       ReplayInv, LaunchedIsPast, ProjectedIsOver, Beginning, Over,
       Goto, serverVars, Idle, Known, TypeInv, AgentRunsTypeOK, ManagerTypeOK
<1>11. CASE SettleFails(c)
  BY <1>11, KnownTyped, OverOnceAcked DEF SettleFails, EndExecution,
       ReplayInv, LaunchedIsPast, ProjectedIsOver, Beginning, Over,
       Goto, serverVars, Idle, Known, TypeInv, AgentRunsTypeOK, ManagerTypeOK
<1>12. QED
  BY <1>1, <1>2, <1>3, <1>4, <1>5, <1>6, <1>7, <1>8, <1>9, <1>10, <1>11 DEF Executes, Step

LEMMA StepKeepsReplay ==
  ASSUME TypeInv, SourceInv, ReplayInv, [Next]_vars
  PROVE  ReplayInv'
<1>1. /\ \A c \in 1 .. Len(commands) : Over(c) => Over(c)'
      /\ \A c \in Command : pc[c] # "idle" \/ c \in launched => c \in 1 .. Len(commands)
      /\ launched \subseteq Command
  BY StepKeepsOver DEF TypeInv, AgentRunsTypeOK, ManagerTypeOK, EnqueuedFirst, Known
<1>2. CASE ServerStep
  BY <1>1, <1>2, ServerIsApart DEF ReplayInv, LaunchedIsPast, ProjectedIsOver
<1>3. CASE AgentStep
  BY <1>1, <1>3 DEF AgentStep, FinishStartup, Crash, Restart, Cut, Reconnect, serverVars, Beginning,
       ReplayInv, LaunchedIsPast, ProjectedIsOver, Over
<1>4. ASSUME NEW c \in 1 .. Len(commands), Executes(c)
      PROVE  ReplayInv'
  <2>1. ASSUME NEW d \in Command, d # c
        PROVE  /\ d \in launched' => /\ d \in held' \/ Over(d)'
                                     /\ pc'[d] \notin Beginning \union {"told", "claimed"}
               /\ pc'[d] \in {"projecting", "freeing", "releasing"} => Over(d)'
    BY <1>1, <1>4, <2>1, ExecutesAlone DEF ReplayInv, LaunchedIsPast, ProjectedIsOver, Beginning
  <2>2. launched' \subseteq Command
    BY StepKeepsManagerTypes DEF ManagerTypeOK
  <2>3. QED
    BY <1>4, <2>1, <2>2, ExecutedIsPast DEF ReplayInv, LaunchedIsPast, ProjectedIsOver
<1>5. CASE UNCHANGED vars
  BY <1>5 DEF vars, serverVars, agentVars, ReplayInv, LaunchedIsPast, ProjectedIsOver, Over
<1>6. QED
  BY <1>2, <1>3, <1>4, <1>5, NextCases

LEMMA ReplayInductive ==
  Spec => []ReplayInv
<1>1. Init => ReplayInv
  BY DEF Init, ReplayInv, LaunchedIsPast, ProjectedIsOver
<1>2. TypeInv /\ SourceInv /\ ReplayInv /\ [Next]_vars => ReplayInv'
  BY StepKeepsReplay
<1>3. QED
  BY <1>1, <1>2, TypesInductive, SourceInductive, PTL DEF Spec

(* No command starts its provider twice: from its claim to the end of its  *)
(* acknowledgement it is held, what is held is not delivered as new, and   *)
(* what is acknowledged is over.                                           *)
THEOREM NeverReplayedHolds ==
  Spec => NeverReplayed
<1>1. ReplayInv /\ [Next]_vars => [\A c \in launched : ~StartProvider(c)]_vars
  BY DEF ReplayInv, LaunchedIsPast, Beginning, StartProvider
<1>2. QED
  BY <1>1, ReplayInductive, PTL DEF Spec, NeverReplayed

-------------------------------------------------------------------------------

(* A restarting agent only recovers. *)
Recoveries == {"idle", "recover", "verified", "acking", "projecting", "freeing", "releasing"}

OnlyRecovers ==
  starting \/ agent = "down" => \A c \in Command : pc[c] \in Recoveries

Waits(c) == \E i \in DOMAIN chain : chain[i] = c

(* The command is the first of its run in the queue. *)
First(c) ==
  \E i \in DOMAIN chain :
     chain[i] = c /\ \A j \in 1 .. i - 1 : RunOf(chain[j]) # RunOf(c)

(* A start waits in its queue until it is at its head, ...                 *)
QueuedInTurn ==
  \A c \in Command :
     /\ pc[c] = "told" /\ IsStart(c) => Waits(c)
     /\ pc[c] = "claimed" /\ IsStart(c) => First(c)

(* ... begins when no provider is active for its run, ...                  *)
BeginsAlone ==
  \A c \in Command : pc[c] \in Beginning => First(c) /\ active[RunOf(c)] = 0

(* ... and its processes are those of the active provider or of the head,  *)
(* or were given up.                                                       *)
ProcessesInTurn ==
  ~starting /\ agent # "down" =>
     \A c \in procs \ left :
        \/ active[RunOf(c)] = c
        \/ active[RunOf(c)] = 0 /\ First(c)

TurnInv == OnlyRecovers /\ QueuedInTurn /\ BeginsAlone /\ ProcessesInTurn /\ OneProviderPerRun

(* Only one command is the first of its run. *)
LEMMA FirstIsOne ==
  ASSUME TypeInv, NEW c, NEW d, First(c), First(d), RunOf(c) = RunOf(d)
  PROVE  c = d
<1>1. chain \in Seq(Command)
  BY DEF TypeInv, AgentRunsTypeOK, ManagerTypeOK
<1>2. PICK i \in DOMAIN chain : chain[i] = c /\ \A k \in 1 .. i - 1 : RunOf(chain[k]) # RunOf(c)
  BY DEF First
<1>3. PICK j \in DOMAIN chain : chain[j] = d /\ \A k \in 1 .. j - 1 : RunOf(chain[k]) # RunOf(d)
  BY DEF First
<1>4. ~(i < j) /\ ~(j < i)
  BY <1>1, <1>2, <1>3
<1>5. QED
  BY <1>1, <1>2, <1>3, <1>4

(* Whoever leaves or joins the queue, the others keep their turn. *)
LEMMA TurnsAreKept ==
  ASSUME TypeInv, [Next]_vars, NEW c \in 1 .. Len(commands), NEW d,
         UNCHANGED chain \/ chain' = Append(chain, d) \/ (Leave(d) /\ d # c)
  PROVE  (Waits(c) => Waits(c)') /\ (First(c) => First(c)')
<1>1. /\ chain \in Seq(Command) /\ Len(chain) \in Nat
      /\ \A i \in DOMAIN chain : chain[i] \in 1 .. Len(commands)
  BY DEF TypeInv, AgentRunsTypeOK, ManagerTypeOK, EnqueuedFirst, Known
<1>2. \A e \in 1 .. Len(commands) : RunOf(e)' = RunOf(e)
  BY StepKeepsCommands DEF CommandsGrow, RunOf
<1>3. CASE UNCHANGED chain
  BY <1>1, <1>2, <1>3 DEF Waits, First
<1>4. CASE chain' = Append(chain, d)
  <2>1. \A i \in DOMAIN chain : i \in DOMAIN chain' /\ chain'[i] = chain[i]
    BY <1>1, <1>4
  <2>2. QED
    BY <1>1, <1>2, <2>1 DEF Waits, First
<1>5. ASSUME NEW k \in DOMAIN chain, chain[k] # c, chain' = RemoveAt(chain, k)
      PROVE  (Waits(c) => Waits(c)') /\ (First(c) => First(c)')
  <2>1. /\ Len(chain') = Len(chain) - 1 /\ chain' \in Seq(Command)
        /\ \A i \in 1 .. Len(chain) - 1 : chain'[i] = IF i < k THEN chain[i] ELSE chain[i + 1]
    BY <1>1, <1>5, Removed
  <2>2. ASSUME NEW i \in DOMAIN chain, chain[i] = c
        PROVE  \E m \in DOMAIN chain' :
                  /\ chain'[m] = c
                  /\ \A j \in 1 .. m - 1 : \E n \in 1 .. i - 1 : chain'[j] = chain[n]
    <3>1. CASE i < k
      <4>1. i \in DOMAIN chain' /\ chain'[i] = c
        BY <1>1, <2>1, <2>2, <3>1
      <4>2. \A j \in 1 .. i - 1 : chain'[j] = chain[j]
        BY <1>1, <2>1, <3>1
      <4>3. QED
        BY <4>1, <4>2
    <3>2. CASE i > k
      <4>1. i - 1 \in DOMAIN chain' /\ chain'[i - 1] = c
        BY <1>1, <2>1, <2>2, <3>2
      <4>2. \A j \in 1 .. (i - 1) - 1 :
               j \in 1 .. i - 1 /\ j + 1 \in 1 .. i - 1 /\ j \in 1 .. Len(chain) - 1
        BY <1>1
      <4>3. \A j \in 1 .. (i - 1) - 1 : chain'[j] = chain[j] \/ chain'[j] = chain[j + 1]
        BY <2>1, <4>2
      <4>4. QED
        BY <4>1, <4>2, <4>3
    <3>3. QED
      BY <1>1, <1>5, <2>2, <3>1, <3>2
  <2>3. Waits(c) => Waits(c)'
    BY <2>2 DEF Waits
  <2>4. ASSUME First(c) PROVE First(c)'
    <3>1. PICK i \in DOMAIN chain : chain[i] = c /\ \A j \in 1 .. i - 1 : RunOf(chain[j]) # RunOf(c)
      BY <2>4 DEF First
    <3>2. PICK m \in DOMAIN chain' :
             /\ chain'[m] = c
             /\ \A j \in 1 .. m - 1 : \E n \in 1 .. i - 1 : chain'[j] = chain[n]
      BY <2>2, <3>1
    <3>3. \A n \in 1 .. i - 1 : chain[n] \in 1 .. Len(commands)
      BY <1>1
    <3>4. \A j \in 1 .. m - 1 : RunOf(chain[j])' # RunOf(c)'
      BY <1>2, <3>1, <3>2, <3>3 DEF RunOf
    <3>5. QED
      BY <3>2, <3>4 DEF First
  <2>5. QED
    BY <2>3, <2>4
<1>6. QED
  BY <1>3, <1>4, <1>5 DEF Leave

(* What a step means for the turn of its command, and for the providers. *)
Moves(c) ==
  /\ starting \/ agent = "down" => pc'[c] \in Recoveries
  /\ \A r \in Run :
       \/ active'[r] = active[r]
       \/ r = RunOf(c) /\ pc[c] = "starting" /\ active'[r] = c
       \/ r = RunOf(c) /\ active[r] = c /\ active'[r] = 0 /\ c \notin procs' \ left'
  /\ pc'[c] = "told" /\ IsStart(c) => chain' = Append(chain, c)
  /\ pc'[c] = "claimed" /\ IsStart(c) =>
       UNCHANGED chain /\ ((pc[c] = "told" /\ OnTurn(c)) \/ pc[c] = "beginning")
  /\ pc'[c] \in Beginning =>
       /\ UNCHANGED <<chain, active>>
       /\ pc[c] \in Beginning \/ (pc[c] = "claimed" /\ IsStart(c) /\ active[RunOf(c)] = 0)
  /\ c \in procs' \ left' =>
       \/ c \in procs \ left /\ UNCHANGED active /\ (UNCHANGED chain \/ chain' = Append(chain, c))
       \/ pc[c] = "beginning" /\ UNCHANGED <<chain, active>>
       \/ pc[c] = "starting" /\ active'[RunOf(c)] = c

LEMMA ExecutedMoves ==
  ASSUME TypeInv, SourceInv, OnlyRecovers, NEW c \in 1 .. Len(commands), Executes(c)
  PROVE  Moves(c)
<1>1. CASE Deliver(c) \/ Recover(c) \/ StopSurvivors(c)
  BY <1>1, KnownTyped DEF Deliver, IsStart, Starts, Interrupts, Recover, StopSurvivors,
       OnlyRecovers, Recoveries, SourceInv, ProcessesWatched, Beginning,
       Goto, Moves, serverVars, Idle, TypeInv, AgentRunsTypeOK, ManagerTypeOK
<1>2. CASE Claim(c) \/ Refused(c) \/ BeginRead(c)
  BY <1>2, KnownTyped DEF Claim, Refused, BeginRead, Beginnable,
       OnlyRecovers, Recoveries, SourceInv, ProcessesWatched, Beginning,
       Goto, Moves, serverVars, Idle, TypeInv, AgentRunsTypeOK, ManagerTypeOK
<1>3. CASE BeginWrite(c) \/ BeginFails(c) \/ Prepare(c)
  BY <1>3, KnownTyped DEF BeginWrite, BeginFails, Prepare,
       OnlyRecovers, Recoveries, SourceInv, ProcessesWatched, Beginning,
       Goto, Moves, serverVars, Idle, TypeInv, AgentRunsTypeOK, ManagerTypeOK
<1>4. CASE StartProvider(c) \/ StopPreparation(c) \/ Interrupt(c)
  BY <1>4, KnownTyped DEF StartProvider, StopPreparation, Interrupt,
       OnlyRecovers, Recoveries, SourceInv, ProcessesWatched, Beginning,
       Goto, Moves, serverVars, Idle, TypeInv, AgentRunsTypeOK, ManagerTypeOK
<1>5. CASE ProviderStops(c) \/ Settle(c) \/ FinishAttempt(c)
  BY <1>5, KnownTyped DEF ProviderStops, Settle, FinishAttempt, AfterReport,
       OnlyRecovers, Recoveries, SourceInv, ProcessesWatched, Beginning,
       Goto, Moves, serverVars, Idle, TypeInv, AgentRunsTypeOK, ManagerTypeOK
<1>6. CASE Acknowledge(c) \/ Project(c)
  BY <1>6, KnownTyped DEF Acknowledge, Project,
       OnlyRecovers, Recoveries, SourceInv, ProcessesWatched, Beginning,
       Goto, Moves, serverVars, Idle, TypeInv, AgentRunsTypeOK, ManagerTypeOK
<1>7. CASE Complete(c)
  <2>1. /\ c \in Command /\ pc'[c] = "idle" /\ c \notin procs' /\ RunOf(c) \in Run
        /\ pc[c] = "releasing"
    BY <1>7, KnownTyped DEF Complete, EndExecution, OnlyRecovers, Recoveries, SourceInv, ProcessesWatched, Beginning,
       Goto, Moves, serverVars, Idle, TypeInv, AgentRunsTypeOK, ManagerTypeOK
  <2> DEFINE Ends(r) == r = RunOf(c) /\ active[r] = c /\ active'[r] = 0
  <2>2. \A r \in Run : active'[r] = active[r] \/ Ends(r)
    <3>1. ASSUME active[RunOf(c)] = c PROVE \A r \in Run : active'[r] = active[r] \/ Ends(r)
      <4>1. active' = [active EXCEPT ![RunOf(c)] = 0]
        BY <1>7, <3>1 DEF Complete, EndExecution
      <4>2. active \in [Run -> Command \union {0}]
        BY DEF TypeInv, AgentRunsTypeOK, ManagerTypeOK
      <4>3. QED
        BY <2>1, <3>1, <4>1, <4>2
    <3>2. ASSUME active[RunOf(c)] # c PROVE \A r \in Run : active'[r] = active[r] \/ Ends(r)
      BY <1>7, <3>2 DEF Complete, EndExecution
    <3>3. QED
      BY <3>1, <3>2
  <2>3. QED
    BY <2>1, <2>2 DEF Moves, Recoveries, Beginning
<1>8. CASE ProviderEnds(c) \/ StartFails(c) \/ ClaimUnanswered(c)
  BY <1>8, KnownTyped DEF ProviderEnds, StartFails, ClaimUnanswered,
       OnlyRecovers, Recoveries, SourceInv, ProcessesWatched, Beginning,
       Goto, Moves, serverVars, Idle, TypeInv, AgentRunsTypeOK, ManagerTypeOK
<1>9. CASE Repeat(c) \/ GiveUp(c)
  BY <1>9, KnownTyped DEF Repeat, GiveUp,
       OnlyRecovers, Recoveries, SourceInv, ProcessesWatched, Beginning,
       Goto, Moves, serverVars, Idle, TypeInv, AgentRunsTypeOK, ManagerTypeOK
<1>10. CASE PrepareFails(c) \/ RecoveryFails(c) \/ FreeSlot(c)
  BY <1>10, KnownTyped DEF PrepareFails, RecoveryFails, FreeSlot,
       OnlyRecovers, Recoveries, SourceInv, ProcessesWatched, Beginning,
       Goto, Moves, serverVars, Idle, TypeInv, AgentRunsTypeOK, ManagerTypeOK
<1>11. CASE SettleFails(c)
  <2>1. /\ c \in Command /\ pc'[c] = "idle" /\ c \in left' /\ RunOf(c) \in Run
        /\ pc[c] = "settling"
    BY <1>11, KnownTyped DEF SettleFails, EndExecution, Goto, TypeInv, AgentRunsTypeOK, ManagerTypeOK
  <2>2. \A r \in Run : active'[r] = active[r] \/ (r = RunOf(c) /\ active[r] = c /\ active'[r] = 0)
    <3>1. active \in [Run -> Command \union {0}]
      BY DEF TypeInv, AgentRunsTypeOK, ManagerTypeOK
    <3>2. QED
      BY <1>11, <2>1, <3>1 DEF SettleFails, EndExecution
  <2>3. QED
    BY <2>1, <2>2 DEF Moves, Recoveries, Beginning
<1>12. QED
  BY <1>1, <1>2, <1>3, <1>4, <1>5, <1>6, <1>7, <1>8, <1>9, <1>10, <1>11 DEF Executes, Step

LEMMA StepKeepsTurns ==
  ASSUME TypeInv, SourceInv, TurnInv, [Next]_vars
  PROVE  TurnInv'
<1>1. /\ \A c \in 1 .. Len(commands) : IsStart(c)' = IsStart(c) /\ RunOf(c)' = RunOf(c)
      /\ \A c \in Command : pc[c] # "idle" \/ c \in held => c \in 1 .. Len(commands)
      /\ procs \subseteq held /\ held \subseteq Command
  BY StepKeepsCommands
  DEF TypeInv, AgentRunsTypeOK, ServerTypeOK, EnqueuedFirst, Known, CommandsGrow, IsStart, RunOf,
      SourceInv, ProcessesWatched
<1>2. ASSUME UNCHANGED <<pc, chain, active, procs, left>>,
             starting' \/ agent' = "down" <=> starting \/ agent = "down"
      PROVE  TurnInv'
  <2>1. \A c \in 1 .. Len(commands) : (Waits(c) => Waits(c)') /\ (First(c) => First(c)')
    BY <1>2, TurnsAreKept
  <2>2. OnlyRecovers' /\ QueuedInTurn' /\ BeginsAlone'
    BY <1>1, <1>2, <2>1 DEF TurnInv, OnlyRecovers, QueuedInTurn, BeginsAlone, Beginning
  <2>3. ProcessesInTurn' /\ OneProviderPerRun'
    BY <1>1, <1>2, <2>1 DEF TurnInv, ProcessesInTurn, OneProviderPerRun
  <2>4. QED
    BY <2>2, <2>3 DEF TurnInv
<1>3. CASE FinishStartup
  <2>1. procs = {}
    BY <1>1, <1>3 DEF FinishStartup, Recovering, Idle, SourceInv, ProcessesWatched, TurnInv,
         OnlyRecovers, Recoveries
  <2>2. /\ UNCHANGED <<pc, chain, active, procs, commands>> /\ ~starting' /\ agent' # "down"
    BY <1>3 DEF FinishStartup, serverVars
  <2>3. QED
    BY <2>1, <2>2 DEF TurnInv, OnlyRecovers, QueuedInTurn, BeginsAlone, ProcessesInTurn,
         OneProviderPerRun, Waits, First, RunOf, IsStart
<1>4. CASE Crash
  BY <1>4 DEF Crash, serverVars, TurnInv, OnlyRecovers, Recoveries, QueuedInTurn, BeginsAlone,
       Beginning, ProcessesInTurn, OneProviderPerRun, RunOf
<1>5. CASE Restart
  BY <1>5 DEF Restart, serverVars, TurnInv, OnlyRecovers, QueuedInTurn, BeginsAlone,
       ProcessesInTurn, OneProviderPerRun, Waits, First, RunOf, IsStart
<1>6. ASSUME NEW c \in 1 .. Len(commands), Executes(c)
      PROVE  TurnInv'
  <2>1. \A d \in 1 .. Len(commands) : d # c => (Waits(d) => Waits(d)') /\ (First(d) => First(d)')
    BY <1>6, TurnsAreKept, QueueGrows
  <2>2. UNCHANGED chain \/ chain' = Append(chain, c) => (First(c) => First(c)')
    BY TurnsAreKept
  <2>3. /\ c \in Command /\ RunOf(c) \in Run /\ UNCHANGED <<agent, starting>>
        /\ \A d \in procs : d \in Command /\ d \in 1 .. Len(commands) /\ d # 0
        /\ procs' \subseteq Command
        /\ \A d \in Command : d # c =>
             /\ pc'[d] = pc[d] \/ (pc[d] = "waiting" /\ pc'[d] = "acking")
             /\ d \in procs' <=> d \in procs
             /\ d \in left' <=> d \in left
    BY <1>1, <1>6, KnownTyped, ExecutesAlone, StepKeepsManagerTypes DEF ManagerTypeOK
  <2>4. Moves(c)
    BY <1>6, ExecutedMoves DEF TurnInv
  <2>5. ASSUME NEW d \in Command, d # c, pc'[d] \in Beginning \union {"told", "claimed"}
        PROVE  /\ pc[d] = pc'[d] /\ d \in 1 .. Len(commands) /\ RunOf(d) \in Run
               /\ RunOf(d)' = RunOf(d) /\ IsStart(d)' = IsStart(d)
    <3>1. pc[d] = pc'[d] /\ pc[d] # "idle"
      BY <2>3, <2>5 DEF Beginning
    <3>2. QED
      BY <1>1, <3>1, KnownTyped
  <2>6. OnlyRecovers'
    <3>1. ASSUME starting \/ agent = "down", NEW d \in Command, d # c PROVE pc'[d] \in Recoveries
      BY <2>3, <3>1 DEF TurnInv, OnlyRecovers, Recoveries
    <3>2. QED
      BY <2>3, <2>4, <3>1 DEF Moves, OnlyRecovers
  <2>7. QueuedInTurn'
    <3>1. ASSUME pc'[c] = "told", IsStart(c) PROVE Waits(c)'
      <4>1. chain' = Append(chain, c) /\ chain \in Seq(Command)
        BY <2>4, <3>1 DEF Moves, TypeInv, AgentRunsTypeOK, ManagerTypeOK
      <4>2. Len(chain) + 1 \in DOMAIN chain' /\ chain'[Len(chain) + 1] = c
        BY <2>3, <4>1
      <4>3. QED
        BY <4>2 DEF Waits
    <3>2. ASSUME pc'[c] = "claimed", IsStart(c) PROVE First(c)'
      <4>1. UNCHANGED chain /\ ((pc[c] = "told" /\ OnTurn(c)) \/ pc[c] = "beginning")
        BY <2>4, <3>2 DEF Moves
      <4>2. First(c)
        BY <2>3, <3>2, <4>1 DEF TurnInv, QueuedInTurn, BeginsAlone, Beginning, Waits, OnTurn, First
      <4>3. QED
        BY <2>2, <4>1, <4>2
    <3>3. ASSUME NEW d \in Command, d # c
          PROVE  /\ pc'[d] = "told" /\ IsStart(d)' => Waits(d)'
                 /\ pc'[d] = "claimed" /\ IsStart(d)' => First(d)'
      BY <2>1, <2>5, <3>3 DEF TurnInv, QueuedInTurn
    <3>4. QED
      BY <1>1, <3>1, <3>2, <3>3 DEF QueuedInTurn
  <2>8. BeginsAlone'
    <3>1. ASSUME pc'[c] \in Beginning PROVE First(c)' /\ active'[RunOf(c)] = 0
      <4>1. /\ UNCHANGED <<chain, active>>
            /\ pc[c] \in Beginning \/ (pc[c] = "claimed" /\ IsStart(c) /\ active[RunOf(c)] = 0)
        BY <2>4, <3>1 DEF Moves
      <4>2. First(c) /\ active[RunOf(c)] = 0
        BY <2>3, <4>1 DEF TurnInv, QueuedInTurn, BeginsAlone
      <4>3. QED
        BY <2>2, <4>1, <4>2
    <3>2. ASSUME NEW d \in Command, d # c, pc'[d] \in Beginning
          PROVE  First(d)' /\ active'[RunOf(d)] = 0
      <4>1. pc[d] \in Beginning /\ d \in 1 .. Len(commands) /\ RunOf(d) \in Run
        BY <2>5, <3>2
      <4>2. First(d) /\ active[RunOf(d)] = 0
        BY <4>1 DEF TurnInv, BeginsAlone
      <4>3. ~(RunOf(d) = RunOf(c) /\ pc[c] = "starting")
        BY <2>3, <3>2, <4>2, FirstIsOne DEF TurnInv, BeginsAlone, Beginning
      <4>4. active'[RunOf(d)] = 0
        BY <2>4, <4>1, <4>2, <4>3 DEF Moves
      <4>5. QED
        BY <2>1, <3>2, <4>1, <4>2, <4>4
    <3>3. QED
      BY <1>1, <2>5, <3>1, <3>2 DEF BeginsAlone
  <2>9. ProcessesInTurn'
    <3>1. ASSUME ~starting, agent # "down", c \in procs' \ left'
          PROVE  active'[RunOf(c)] = c \/ (active'[RunOf(c)] = 0 /\ First(c)')
      <4>1. CASE c \in procs \ left /\ UNCHANGED active /\ (UNCHANGED chain \/ chain' = Append(chain, c))
        BY <2>2, <3>1, <4>1 DEF TurnInv, ProcessesInTurn
      <4>2. CASE pc[c] = "beginning" /\ UNCHANGED <<chain, active>>
        BY <2>2, <2>3, <4>2 DEF TurnInv, BeginsAlone, Beginning
      <4>3. QED
        BY <2>4, <3>1, <4>1, <4>2 DEF Moves
    <3>2. ASSUME ~starting, agent # "down", NEW d \in procs \ left, d # c
          PROVE  active'[RunOf(d)] = d \/ (active'[RunOf(d)] = 0 /\ First(d)')
      <4>1. d \in 1 .. Len(commands) /\ d # 0 /\ RunOf(d) \in Run
        BY <2>3, KnownTyped
      <4>2. active[RunOf(d)] = d \/ (active[RunOf(d)] = 0 /\ First(d))
        BY <3>2 DEF TurnInv, ProcessesInTurn
      <4>3. ~(RunOf(d) = RunOf(c) /\ pc[c] = "starting")
        BY <2>3, <3>2, <4>1, <4>2, FirstIsOne DEF TurnInv, BeginsAlone, Beginning
      <4>4. active'[RunOf(d)] = active[RunOf(d)] \/ (active[RunOf(d)] = c /\ RunOf(d) = RunOf(c))
        BY <2>4, <4>1, <4>3 DEF Moves
      <4>5. c # 0
        OBVIOUS
      <4>6. active'[RunOf(d)] = active[RunOf(d)]
        BY <3>2, <4>2, <4>4, <4>5
      <4>7. QED
        BY <2>1, <3>2, <4>1, <4>2, <4>6
    <3>3. \A d \in procs' \ left' : d # c => d \in procs \ left
      BY <2>3
    <3>4. ASSUME ~starting', agent' # "down", NEW d \in procs' \ left'
          PROVE  active'[RunOf(d)'] = d \/ (active'[RunOf(d)'] = 0 /\ First(d)')
      <4>1. d \in 1 .. Len(commands) /\ RunOf(d)' = RunOf(d)
        BY <1>1, <2>3, <3>3
      <4>2. ~starting /\ agent # "down"
        BY <2>3, <3>4
      <4>3. QED
        BY <3>1, <3>2, <3>3, <3>4, <4>1, <4>2
    <3>5. QED
      BY <3>4 DEF ProcessesInTurn
  <2>10. OneProviderPerRun'
    <3>1. \A d \in procs' \ left' : d # c => d \in procs \ left
      BY <2>3
    <3>2. ASSUME c \in procs' \ left', NEW d \in procs \ left, d # c, RunOf(d) = RunOf(c)
          PROVE  FALSE
      <4>1. c \notin procs \ left
        BY <3>2 DEF TurnInv, OneProviderPerRun
      <4>2. pc[c] = "beginning" \/ pc[c] = "starting"
        BY <2>4, <3>2, <4>1 DEF Moves
      <4>3. ~starting /\ agent # "down" /\ First(c) /\ active[RunOf(c)] = 0
        BY <2>3, <4>2 DEF TurnInv, OnlyRecovers, Recoveries, BeginsAlone, Beginning
      <4>4. First(d)
        BY <2>3, <3>2, <4>3 DEF TurnInv, ProcessesInTurn
      <4>5. QED
        BY <3>2, <4>3, <4>4, FirstIsOne
    <3>3. \A d, e \in procs \ left : RunOf(d) = RunOf(e) => d = e
      BY DEF TurnInv, OneProviderPerRun
    <3>4. \A d \in procs' \ left' : d \in 1 .. Len(commands)
      BY <2>3, <3>1
    <3>5. QED
      BY <1>1, <3>1, <3>2, <3>3, <3>4 DEF OneProviderPerRun
  <2>11. QED
    BY <2>6, <2>7, <2>8, <2>9, <2>10 DEF TurnInv
<1>7. QED
  BY <1>2, <1>3, <1>4, <1>5, <1>6, NextCases, ServerIsApart
  DEF AgentStep, Cut, Reconnect, vars, agentVars

LEMMA TurnsInductive ==
  Spec => []TurnInv
<1>1. Init => TurnInv
  BY DEF Init, TurnInv, OnlyRecovers, Recoveries, QueuedInTurn, BeginsAlone, Beginning,
       ProcessesInTurn, OneProviderPerRun
<1>2. TypeInv /\ SourceInv /\ TurnInv /\ [Next]_vars => TurnInv'
  BY StepKeepsTurns
<1>3. QED
  BY <1>1, <1>2, TypesInductive, SourceInductive, PTL DEF Spec

(* Two providers never work for the same run, but for processes the        *)
(* manager could not end: starts of a run wait for their turn, the head    *)
(* waits until none is active, and a restarted agent begins nothing before *)
(* all that survived is stopped.                                           *)
THEOREM OneProviderPerRunHolds ==
  Spec => []OneProviderPerRun
<1>1. TurnInv => OneProviderPerRun
  BY DEF TurnInv
<1>2. QED
  BY <1>1, TurnsInductive, PTL

-------------------------------------------------------------------------------

(* A run of which anything is known was created, ...                       *)
Exists ==
  /\ \A c \in 1 .. Len(commands) : status[RunOf(c)] # "NONE"
  /\ \A r \in reaping : status[r] # "NONE"
  /\ \A i \in DOMAIN line : status[line[i]] # "NONE"
  /\ \A f \in Run : source[f] # NoRun => status[f] = "NONE" /\ status[source[f]] # "NONE"

(* ... one of which anything is executed was admitted, ...                 *)
AdmittedFirst ==
  \A c \in 1 .. Len(commands) :
     pc[c] # "idle" \/ c \in held \/ commands[c].status = "RUNNING" => status[RunOf(c)] # "QUEUED"

LineIsDistinct == \A i, j \in DOMAIN line : line[i] = line[j] => i = j

(* ... and the slots are those of the runs that are active or paused, and  *)
(* of some that have just ended, ...                                       *)
LeaseIsRunning ==
  \A r \in Run : /\ status[r] \in Running => r \in lease
                 /\ r \in lease => status[r] \in Running \union Final

(* ... whose slot is still to be freed.                                    *)
FreedIsFinal == \A c \in Command : pc[c] = "freeing" => status[RunOf(c)] \in Final

LaneInv == Exists /\ AdmittedFirst /\ LineIsDistinct /\ LeaseIsRunning /\ FreedIsFinal

(* What a step may do to the status of a run, and to its slot. *)
StatusMoves(r) ==
  /\ status[r] # "NONE" => status'[r] # "NONE"
  /\ status[r] \notin {"NONE", "QUEUED"} => status'[r] \notin {"NONE", "QUEUED"}
  /\ status[r] = "NONE" => status'[r] = "NONE" \/ source'[r] = NoRun
  /\ status[r] = "QUEUED" /\ status'[r] = "IN_PROGRESS" => Promote
  /\ status[r] \in Final /\ status'[r] # status[r] =>
       \E f \in Run : source[f] = r /\ status[f] = "NONE" /\ status'[f] # "NONE"
  /\ status[r] \in Final => status'[r] \in Final
  /\ status'[r] \in Running => r \in lease'
  /\ r \in lease' => status'[r] \in Running \union Final

LEMMA StepMovesStatus ==
  ASSUME TypeInv, LaneInv, [Next]_vars
  PROVE  \A r \in Run : StatusMoves(r)
<1>1. ASSUME NEW q \in Run, Create(q) PROVE \A r \in Run : StatusMoves(r)
  BY <1>1, NoRunAssumption DEF Create, StatusMoves, LaneInv, Exists, LeaseIsRunning, Running, Final, TypeInv, AgentRunsTypeOK, ServerTypeOK
<1>2. ASSUME NEW q \in Run, FollowUpCreate(q) PROVE \A r \in Run : StatusMoves(r)
  BY <1>2, NoRunAssumption DEF FollowUpCreate, StatusMoves, LaneInv, Exists, LeaseIsRunning, Running, Final, TypeInv, AgentRunsTypeOK, ServerTypeOK
<1>3. ASSUME NEW q \in Run, Pause(q) PROVE \A r \in Run : StatusMoves(r)
  BY <1>3, NoRunAssumption DEF Pause, StatusMoves, LaneInv, Exists, LeaseIsRunning, Running, Final, TypeInv, AgentRunsTypeOK, ServerTypeOK
<1>4. ASSUME NEW q \in Run, Continue(q) PROVE \A r \in Run : StatusMoves(r)
  BY <1>4, NoRunAssumption DEF Continue, StatusMoves, LaneInv, Exists, LeaseIsRunning, Running, Final, TypeInv, AgentRunsTypeOK, ServerTypeOK
<1>5. ASSUME NEW q \in Run, CancelQueued(q) PROVE \A r \in Run : StatusMoves(r)
  BY <1>5, NoRunAssumption DEF CancelQueued, StatusMoves, LaneInv, Exists, LeaseIsRunning, Running, Final, TypeInv, AgentRunsTypeOK, ServerTypeOK
<1>6. ASSUME NEW q \in Run, CancelRunning(q) PROVE \A r \in Run : StatusMoves(r)
  BY <1>6, NoRunAssumption DEF CancelRunning, StatusMoves, LaneInv, Exists, LeaseIsRunning, Running, Final, TypeInv, AgentRunsTypeOK, ServerTypeOK
<1>7. CASE Promote
  BY <1>7 DEF Promote, Admissible, Admitted, QueuedAt, StatusMoves, LaneInv, Exists, LeaseIsRunning, Running, Final, TypeInv, AgentRunsTypeOK, ServerTypeOK
<1>8. CASE ReapWrite
  BY <1>8 DEF ReapWrite, Orphans, StatusMoves, LaneInv, Exists, LeaseIsRunning, Running, Final, TypeInv, AgentRunsTypeOK, ServerTypeOK
<1>9. ASSUME NEW c \in 1 .. Len(commands), FinishAttempt(c) PROVE \A r \in Run : StatusMoves(r)
  <2>1. RunOf(c) \in Run /\ status[RunOf(c)] \notin {"NONE", "QUEUED"}
    BY <1>9, KnownTyped DEF FinishAttempt, LaneInv, Exists, AdmittedFirst
  <2>2. Reported(c) \in Closed
    BY <1>9, KnownTyped DEF FinishAttempt, Reported, TypeInv, EndsAreDecided, Closed
  <2>3. QED
    BY <1>9, <2>1, <2>2 DEF FinishAttempt, FinishedStatus, Closed, StatusMoves, LaneInv, Exists, LeaseIsRunning, Running, Final, TypeInv, AgentRunsTypeOK, ServerTypeOK
<1>10. ASSUME NEW c \in 1 .. Len(commands), Project(c) PROVE \A r \in Run : StatusMoves(r)
  <2>1. RunOf(c) \in Run /\ status[RunOf(c)] \notin {"NONE", "QUEUED"}
    BY <1>10, KnownTyped DEF Project, LaneInv, Exists, AdmittedFirst
  <2>2. commands[c].type \in Starts \union Interrupts
    BY KnownTyped DEF CommandRow
  <2>3. QED
    BY <1>10, <2>1, <2>2 DEF Project, FinishedStatus, IsStart, Starts, Interrupts, StatusMoves, LaneInv, Exists, LeaseIsRunning, Running, Final, TypeInv, AgentRunsTypeOK, ServerTypeOK
<1>11. ASSUME NEW c \in 1 .. Len(commands), FreeSlot(c) PROVE \A r \in Run : StatusMoves(r)
  <2>1. RunOf(c) \in Run /\ status[RunOf(c)] \in Final
    BY <1>11, KnownTyped DEF FreeSlot, LaneInv, FreedIsFinal
  <2>2. QED
    BY <1>11, <2>1 DEF FreeSlot, StatusMoves, LaneInv, LeaseIsRunning, Running, Final
<1>12. ASSUME UNCHANGED <<status, lease>> PROVE \A r \in Run : StatusMoves(r)
  BY <1>12 DEF StatusMoves, LaneInv, Exists, LeaseIsRunning, Running, Final, TypeInv, AgentRunsTypeOK, ServerTypeOK
<1>13. QED
  BY <1>1, <1>2, <1>3, <1>4, <1>5, <1>6, <1>7, <1>8, <1>9, <1>10, <1>11, <1>12
  DEF Next, User, Step, vars, serverVars, FollowUpRead, ReapRead, Deliver, Recover, StopSurvivors,
      Claim, Refused, BeginRead, BeginWrite, BeginFails, Prepare, StartProvider, StopPreparation,
      Interrupt, ProviderStops, Settle, Acknowledge, Complete, ProviderEnds, PrepareFails,
      StartFails, RecoveryFails, SettleFails, ClaimUnanswered, Repeat, GiveUp, FinishStartup, Crash, Restart, Cut, Reconnect

(* A new command is of a run that has just got a status. *)
LEMMA NewCommands ==
  ASSUME TypeInv, LaneInv, [Next]_vars
  PROVE  \A c \in 1 .. Len(commands') :
            \/ c \in 1 .. Len(commands)
            \/ commands'[c].status = "QUEUED" /\ status'[commands'[c].run] # "NONE"
<1>0. commands \in Seq(CommandRow) /\ Len(commands) \in Nat
  BY DEF TypeInv, AgentRunsTypeOK, ServerTypeOK
<1>1. ASSUME NEW r \in Run, NEW type, Enqueue(r, type), status'[r] # "NONE"
      PROVE  \A c \in 1 .. Len(commands') :
                \/ c \in 1 .. Len(commands)
                \/ commands'[c].status = "QUEUED" /\ status'[commands'[c].run] # "NONE"
  BY <1>0, <1>1 DEF Enqueue
<1>2. ASSUME NEW r \in Run, User(r)
      PROVE  Len(commands') = Len(commands) \/ \E type : Enqueue(r, type) /\ status'[r] # "NONE"
  BY <1>0, <1>2
  DEF User, Create, FollowUpRead, FollowUpCreate, Pause, Continue, CancelQueued, CancelRunning,
      TypeInv, AgentRunsTypeOK, ServerTypeOK, Running
<1>3. (\E r \in Run : User(r)) \/ Len(commands') = Len(commands)
  BY <1>0
  DEF Next, Step, vars, serverVars, Promote, ReapRead, ReapWrite, Deliver, Recover, StopSurvivors,
      Claim, Refused, BeginRead, BeginWrite, BeginFails, Prepare, StartProvider, StopPreparation,
      Interrupt, ProviderStops, Settle, FinishAttempt, Acknowledge, Project, FreeSlot, Complete,
      ProviderEnds, PrepareFails, StartFails, RecoveryFails, SettleFails, ClaimUnanswered, Repeat, GiveUp, FinishStartup, Crash, Restart,
      Cut, Reconnect
<1>4. QED
  BY <1>0, <1>1, <1>2, <1>3

(* Nothing is executed of a run that is queued. *)
LEMMA ExecutedIsAdmitted ==
  ASSUME TypeInv, LaneInv, NEW c \in 1 .. Len(commands), Executes(c)
  PROVE  pc'[c] # "idle" \/ c \in held' \/ commands'[c].status = "RUNNING" =>
            status[RunOf(c)] \notin {"NONE", "QUEUED"}
<1>1. CASE Deliver(c) \/ Recover(c) \/ StopSurvivors(c)
  BY <1>1, KnownTyped DEF Deliver, Pending, Recover, Pending, StopSurvivors,
       LaneInv, Exists, AdmittedFirst, RunOf,
       Goto, serverVars, Idle, TypeInv, AgentRunsTypeOK, ServerTypeOK, ManagerTypeOK
<1>2. CASE Claim(c) \/ Refused(c) \/ BeginRead(c)
  BY <1>2, KnownTyped DEF Claim, Refused, BeginRead,
       LaneInv, Exists, AdmittedFirst, RunOf,
       Goto, serverVars, Idle, TypeInv, AgentRunsTypeOK, ServerTypeOK, ManagerTypeOK
<1>3. CASE BeginWrite(c) \/ BeginFails(c) \/ Prepare(c)
  BY <1>3, KnownTyped DEF BeginWrite, BeginFails, Prepare,
       LaneInv, Exists, AdmittedFirst, RunOf,
       Goto, serverVars, Idle, TypeInv, AgentRunsTypeOK, ServerTypeOK, ManagerTypeOK
<1>4. CASE StartProvider(c) \/ StopPreparation(c) \/ Interrupt(c)
  BY <1>4, KnownTyped DEF StartProvider, StopPreparation, Interrupt,
       LaneInv, Exists, AdmittedFirst, RunOf,
       Goto, serverVars, Idle, TypeInv, AgentRunsTypeOK, ServerTypeOK, ManagerTypeOK
<1>5. CASE ProviderStops(c) \/ Settle(c) \/ FinishAttempt(c)
  BY <1>5, KnownTyped DEF ProviderStops, Settle, FinishAttempt, AfterReport,
       LaneInv, Exists, AdmittedFirst, RunOf,
       Goto, serverVars, Idle, TypeInv, AgentRunsTypeOK, ServerTypeOK, ManagerTypeOK
<1>6. CASE Acknowledge(c) \/ Project(c)
  BY <1>6, KnownTyped DEF Acknowledge, Project,
       LaneInv, Exists, AdmittedFirst, RunOf,
       Goto, serverVars, Idle, TypeInv, AgentRunsTypeOK, ServerTypeOK, ManagerTypeOK
<1>7. CASE Complete(c)
  BY <1>7, KnownTyped DEF Complete, EndExecution,
       LaneInv, Exists, AdmittedFirst, RunOf,
       Goto, serverVars, Idle, TypeInv, AgentRunsTypeOK, ServerTypeOK, ManagerTypeOK
<1>8. CASE ProviderEnds(c) \/ StartFails(c) \/ ClaimUnanswered(c)
  BY <1>8, KnownTyped DEF ProviderEnds, StartFails, ClaimUnanswered,
       LaneInv, Exists, AdmittedFirst, RunOf,
       Goto, serverVars, Idle, TypeInv, AgentRunsTypeOK, ServerTypeOK, ManagerTypeOK
<1>9. CASE Repeat(c) \/ GiveUp(c)
  BY <1>9, KnownTyped, SMTT(30) DEF Repeat, GiveUp,
       LaneInv, Exists, AdmittedFirst, RunOf,
       Goto, serverVars, Idle, TypeInv, AgentRunsTypeOK, ServerTypeOK, ManagerTypeOK
<1>10. CASE PrepareFails(c) \/ RecoveryFails(c) \/ FreeSlot(c)
  BY <1>10, KnownTyped DEF PrepareFails, RecoveryFails, FreeSlot,
       LaneInv, Exists, AdmittedFirst, RunOf,
       Goto, serverVars, Idle, TypeInv, AgentRunsTypeOK, ServerTypeOK, ManagerTypeOK
<1>11. CASE SettleFails(c)
  BY <1>11, KnownTyped DEF SettleFails, EndExecution,
       LaneInv, Exists, AdmittedFirst, RunOf,
       Goto, serverVars, Idle, TypeInv, AgentRunsTypeOK, ServerTypeOK, ManagerTypeOK
<1>12. QED
  BY <1>1, <1>2, <1>3, <1>4, <1>5, <1>6, <1>7, <1>8, <1>9, <1>10, <1>11 DEF Executes, Step

(* A slot is to be freed when the projection has ended its run. *)
LEMMA FreesWhatEnded ==
  ASSUME TypeInv, LaneInv, NEW c \in 1 .. Len(commands), Executes(c), pc'[c] = "freeing"
  PROVE  status'[RunOf(c)] \in Final
<1>1. Project(c)
  <2>1. ~(Deliver(c) \/ Recover(c) \/ StopSurvivors(c) \/ Claim(c) \/ Refused(c) \/ BeginRead(c)
           \/ BeginWrite(c) \/ BeginFails(c) \/ Prepare(c) \/ StartProvider(c))
    BY KnownTyped DEF Deliver, Recover, StopSurvivors, Claim, Refused, BeginRead, BeginWrite,
         BeginFails, Prepare, StartProvider, Goto, TypeInv, AgentRunsTypeOK, ManagerTypeOK
  <2>2. ~(StopPreparation(c) \/ Interrupt(c) \/ ProviderStops(c) \/ Settle(c) \/ FinishAttempt(c)
           \/ Acknowledge(c) \/ FreeSlot(c) \/ ProviderEnds(c) \/ StartFails(c) \/ PrepareFails(c))
    BY KnownTyped DEF StopPreparation, Interrupt, ProviderStops, Settle, FinishAttempt, AfterReport,
         Acknowledge, FreeSlot, ProviderEnds, StartFails, PrepareFails, Goto,
         TypeInv, AgentRunsTypeOK, ManagerTypeOK
  <2>3. ~(Complete(c) \/ RecoveryFails(c) \/ SettleFails(c) \/ ClaimUnanswered(c) \/ Repeat(c)
           \/ GiveUp(c))
    BY KnownTyped, SMTT(30) DEF Complete, RecoveryFails, SettleFails, EndExecution, ClaimUnanswered, Repeat,
         GiveUp, Goto, TypeInv, AgentRunsTypeOK, ManagerTypeOK
  <2>4. QED
    BY <2>1, <2>2, <2>3 DEF Executes, Step
<1>2. RunOf(c) \in Run /\ c \in Command /\ commands[c].type \in Starts \union Interrupts
  BY KnownTyped DEF CommandRow
<1>3. QED
  BY <1>1, <1>2 DEF Project, FinishedStatus, IsStart, Starts, Interrupts, Final, Goto,
       TypeInv, AgentRunsTypeOK, ServerTypeOK, ManagerTypeOK

(* What is RUNNING was, or has just been claimed. *)
LEMMA StepKeepsUnclaimed ==
  ASSUME TypeInv, [Next]_vars, NEW c \in 1 .. Len(commands), commands'[c].status = "RUNNING"
  PROVE  commands[c].status = "RUNNING" \/ Executes(c)
<1>0. /\ commands \in Seq(CommandRow) /\ Len(commands) \in Nat /\ commands[c] \in CommandRow
      /\ DOMAIN commands = 1 .. Len(commands)
  BY DEF TypeInv, AgentRunsTypeOK, ServerTypeOK
<1>1. ASSUME NEW r \in Run, NEW type, Enqueue(r, type) PROVE commands[c].status = "RUNNING"
  BY <1>0, <1>1 DEF Enqueue
<1>2. ASSUME NEW r \in Run, CancelQueued(r) PROVE commands[c].status = "RUNNING"
  BY <1>0, <1>2 DEF CancelQueued, CommandRow
<1>3. ASSUME ReapWrite PROVE commands[c].status = "RUNNING"
  BY <1>0, <1>3 DEF ReapWrite, CommandRow
<1>4. ASSUME NEW d \in 1 .. Len(commands), d # c, Claim(d) \/ ClaimUnanswered(d) \/ Acknowledge(d)
      PROVE  commands[c].status = "RUNNING"
  BY <1>0, <1>4 DEF Claim, ClaimUnanswered, Acknowledge
<1>5. ASSUME NEW r \in Run, User(r) PROVE commands[c].status = "RUNNING"
  BY <1>1, <1>2, <1>5
  DEF User, Create, FollowUpRead, FollowUpCreate, Pause, Continue, CancelRunning
<1>6. QED
  BY <1>3, <1>4, <1>5
  DEF Next, Executes, Step, vars, serverVars, Promote, ReapRead, Deliver, Recover, StopSurvivors,
      Refused, BeginRead, BeginWrite, BeginFails, Prepare, StartProvider, StopPreparation,
      Interrupt, ProviderStops, Settle, FinishAttempt, Project, FreeSlot, Complete, ProviderEnds,
      PrepareFails, StartFails, RecoveryFails, SettleFails, Repeat, GiveUp, FinishStartup, Crash, Restart, Cut, Reconnect

(* How the line, the reaper's list and the sources of follow-ups change. *)
LEMMA RecordsMove ==
  ASSUME TypeInv, LaneInv, [Next]_vars
  PROVE  /\ \/ UNCHANGED line
            \/ \E r \in Run : status[r] = "NONE" /\ status'[r] # "NONE" /\ line' = Append(line, r)
         /\ \A r \in reaping' : r \in reaping \/ status'[r] # "NONE"
         /\ \A f \in Run : source'[f] # NoRun =>
              \/ source'[f] = source[f]
              \/ status'[f] = "NONE" /\ source'[f] \in Run /\ status'[source'[f]] # "NONE"
<1>1. ASSUME NEW q \in Run, Create(q) \/ FollowUpCreate(q)
      PROVE  /\ \E r \in Run : status[r] = "NONE" /\ status'[r] # "NONE" /\ line' = Append(line, r)
             /\ UNCHANGED reaping
             /\ \A f \in Run : source'[f] # NoRun => source'[f] = source[f]
  BY <1>1 DEF Create, FollowUpCreate, LaneInv, Exists, TypeInv, AgentRunsTypeOK, ServerTypeOK
<1>2. ASSUME NEW q \in Run, NEW s \in Run, FollowUpRead(q, s)
      PROVE  /\ UNCHANGED <<line, reaping>>
             /\ \A f \in Run : source'[f] # NoRun =>
                  \/ source'[f] = source[f]
                  \/ status'[f] = "NONE" /\ source'[f] \in Run /\ status'[source'[f]] # "NONE"
  BY <1>2 DEF FollowUpRead, TypeInv, AgentRunsTypeOK, ServerTypeOK
<1>3. ASSUME ReapRead \/ ReapWrite
      PROVE  UNCHANGED <<line, source>> /\ \A r \in reaping' : status'[r] # "NONE"
  BY <1>3 DEF ReapRead, ReapWrite
<1>4. QED
  BY <1>1, <1>2, <1>3
  DEF Next, User, Step, vars, serverVars, Promote, Pause, Continue, CancelQueued, CancelRunning,
      Deliver, Recover, StopSurvivors, Claim, Refused, BeginRead, BeginWrite, BeginFails, Prepare,
      StartProvider, StopPreparation, Interrupt, ProviderStops, Settle, FinishAttempt,
      Acknowledge, Project, FreeSlot, Complete, ProviderEnds, PrepareFails, StartFails,
      RecoveryFails, SettleFails, ClaimUnanswered, Repeat, GiveUp,
      FinishStartup, Crash, Restart, Cut, Reconnect

LEMMA StepKeepsLane ==
  ASSUME TypeInv, LaneInv, [Next]_vars
  PROVE  LaneInv'
<1>0. line \in Seq(Run)
  BY DEF TypeInv, AgentRunsTypeOK, ServerTypeOK
<1>1. \A c \in 1 .. Len(commands) : RunOf(c)' = RunOf(c) /\ RunOf(c) \in Run
  BY StepKeepsCommands, KnownTyped DEF CommandsGrow, RunOf
<1>2. \A r \in Run : StatusMoves(r)
  BY StepMovesStatus
<1>3. lease' \subseteq Run
  BY StepKeepsServerTypes DEF ServerTypeOK
<1>4. LeaseIsRunning'
  BY <1>2, <1>3 DEF LeaseIsRunning, StatusMoves
<1>5. Exists'
  <2>1. \A c \in 1 .. Len(commands') : status'[RunOf(c)'] # "NONE"
    BY <1>1, <1>2, NewCommands DEF LaneInv, Exists, StatusMoves, RunOf
  <2>2. \A r \in reaping' : status'[r] # "NONE"
    BY <1>2, RecordsMove DEF LaneInv, Exists, StatusMoves, TypeInv, AgentRunsTypeOK, ServerTypeOK
  <2>3. \A i \in DOMAIN line' : status'[line'[i]] # "NONE"
    BY <1>0, <1>2, RecordsMove DEF LaneInv, Exists, StatusMoves
  <2>4. \A f \in Run : source'[f] # NoRun => status'[f] = "NONE" /\ status'[source'[f]] # "NONE"
    BY <1>2, RecordsMove DEF LaneInv, Exists, StatusMoves, TypeInv, AgentRunsTypeOK, ServerTypeOK
  <2>5. QED
    BY <2>1, <2>2, <2>3, <2>4 DEF Exists
<1>6. AdmittedFirst'
  <2> SUFFICES ASSUME NEW c \in 1 .. Len(commands'),
                      pc'[c] # "idle" \/ c \in held' \/ commands'[c].status = "RUNNING"
               PROVE  status'[commands'[c].run] # "QUEUED"
    BY DEF AdmittedFirst, RunOf
  <2>1. c \in 1 .. Len(commands)
    <3>1. c \in Command
      BY StepKeepsCommands, BoundsAssumption DEF Command, CommandsGrow
    <3>2. QED
      BY <3>1, NewCommands, GivenWasKnown DEF Known
  <2>2. status[RunOf(c)] \notin {"NONE", "QUEUED"}
    <3>1. CASE Executes(c)
      BY <2>1, <3>1, ExecutedIsAdmitted
    <3>2. CASE ~Executes(c)
      <4>1. pc[c] # "idle" \/ c \in held \/ commands[c].status = "RUNNING"
        <5>1. c \in Command
          BY <2>1, KnownTyped
        <5>2. CASE commands'[c].status = "RUNNING"
          BY <2>1, <3>2, <5>2, StepKeepsUnclaimed
        <5>3. CASE ServerStep
          BY <2>1, <3>2, <5>3, ServerIsApart, StepKeepsUnclaimed
        <5>4. CASE AgentStep \/ UNCHANGED vars
          BY <5>1, <5>4 DEF AgentStep, FinishStartup, Crash, Restart, Cut, Reconnect, vars, serverVars, agentVars
        <5>5. ASSUME NEW d \in 1 .. Len(commands), Executes(d)
              PROVE  pc[c] # "idle" \/ c \in held \/ commands[c].status = "RUNNING"
          BY <2>1, <3>2, <5>1, <5>2, <5>5, ExecutesAlone
        <5>6. QED
          BY <5>2, <5>3, <5>4, <5>5, NextCases
      <4>2. QED
        BY <2>1, <4>1 DEF LaneInv, Exists, AdmittedFirst
    <3>3. QED
      BY <3>1, <3>2
  <2>3. QED
    BY <1>1, <1>2, <2>1, <2>2 DEF StatusMoves, RunOf
<1>7. LineIsDistinct'
  BY <1>0, RecordsMove DEF LaneInv, Exists, LineIsDistinct
<1>8. FreedIsFinal'
  <2> SUFFICES ASSUME NEW c \in Command, pc'[c] = "freeing"
               PROVE  status'[RunOf(c)'] \in Final
    BY DEF FreedIsFinal
  <2>1. c \in 1 .. Len(commands) /\ RunOf(c)' = RunOf(c) /\ RunOf(c) \in Run
    BY <1>1, GivenWasKnown DEF Known
  <2>2. CASE pc[c] = "freeing"
    BY <1>2, <2>1, <2>2 DEF LaneInv, FreedIsFinal, StatusMoves
  <2>3. ASSUME pc[c] # "freeing" PROVE Executes(c)
    <3>1. ASSUME NEW d \in 1 .. Len(commands), Executes(d) PROVE Executes(c)
      BY <2>3, <3>1, ExecutesAlone
    <3>2. ~(ServerStep \/ AgentStep \/ UNCHANGED vars)
      BY <2>3, ServerIsApart DEF AgentStep, FinishStartup, Crash, Restart, Cut, Reconnect, vars, agentVars
    <3>3. QED
      BY <3>1, <3>2, NextCases
  <2>4. QED
    BY <2>1, <2>2, <2>3, FreesWhatEnded
<1>9. QED
  BY <1>4, <1>5, <1>6, <1>7, <1>8 DEF LaneInv

LEMMA LaneInductive ==
  Spec => []LaneInv
<1>1. Init => LaneInv
  BY NoRunAssumption DEF Init, LaneInv, Exists, AdmittedFirst, LineIsDistinct, LeaseIsRunning, FreedIsFinal, Running
<1>2. TypeInv /\ LaneInv /\ [Next]_vars => LaneInv'
  BY StepKeepsLane
<1>3. QED
  BY <1>1, <1>2, TypesInductive, PTL DEF Spec

(* The final status of a run stays through late reports, acknowledgements  *)
(* and the reaper, but for a follow-up that takes over from a run it saw   *)
(* paused.                                                                 *)
THEOREM FinalUnlessSupersededHolds ==
  Spec => FinalUnlessSuperseded
<1>1. TypeInv /\ LaneInv /\ [Next]_vars =>
        [\A r \in Run : status[r] \in Final /\ status'[r] # status[r]
           => \E f \in Run : source[f] = r /\ status[f] = "NONE" /\ status'[f] # "NONE"]_vars
  BY StepMovesStatus DEF StatusMoves
<1>2. QED
  BY <1>1, TypesInductive, LaneInductive, PTL DEF Spec, FinalUnlessSuperseded

(* Who is ahead of a run that is ahead of another is ahead of that one. *)
LEMMA AheadOfBoth ==
  ASSUME TypeInv, NEW i \in DOMAIN line, NEW j \in DOMAIN line, i < j
  PROVE  Ahead(i) \subseteq Ahead(j)
BY DEF Ahead, TypeInv, AgentRunsTypeOK, ServerTypeOK

(* No queued run is admitted past an older one, whichever of them has room *)
(* under its own limit.                                                    *)
THEOREM AdmittedInOrderHolds ==
  Spec => AdmittedInOrder
<1> DEFINE Passes(i, j) == /\ status[line[j]] = "QUEUED" /\ status'[line[j]] = "IN_PROGRESS"
                           /\ status[line[i]] = "QUEUED" /\ status'[line[i]] = "QUEUED"
<1>1. TypeInv /\ LaneInv /\ [Next]_vars => [\A i, j \in DOMAIN line : i < j => ~Passes(i, j)]_vars
  <2> SUFFICES ASSUME TypeInv, LaneInv, [Next]_vars,
                      NEW i \in DOMAIN line, NEW j \in DOMAIN line, i < j, Passes(i, j)
               PROVE  FALSE
    OBVIOUS
  <2>1. line[i] \in Run /\ line[j] \in Run
    BY DEF TypeInv, AgentRunsTypeOK, ServerTypeOK
  <2>2. Promote
    BY <2>1, StepMovesStatus DEF StatusMoves
  <2>3. line[j] \in Admissible
    BY <2>1, <2>2 DEF Promote
  <2>4. Admitted(j)
    BY <2>3 DEF Admissible, LaneInv, LineIsDistinct
  <2>5. i \in Ahead(j) /\ QueuedAt(i)
    BY DEF Ahead, QueuedAt
  <2>6. Admitted(i)
    BY <2>4, <2>5, AheadOfBoth DEF Admitted
  <2>7. line[i] \in Admissible
    BY <2>6 DEF Admissible
  <2>8. QED
    BY <2>1, <2>2, <2>7 DEF Promote
<1>2. QED
  BY <1>1, TypesInductive, LaneInductive, PTL DEF Spec, AdmittedInOrder

-------------------------------------------------------------------------------

(* The slots in use, where every run asks for a limit. *)
SlotsInv ==
  /\ IsFiniteSet(lease)
  /\ \A r \in Run : (\A q \in Run : Limit[q] \in 1 .. Limit[r]) => Cardinality(lease) <= Limit[r]

(* A set of places that is not empty has a last one. *)
LEMMA LastPlace ==
  ASSUME NEW n \in Nat, NEW S, S \subseteq 1 .. n, S # {}
  PROVE  \E i \in S : \A j \in S : j <= i
<1> DEFINE Before == OpToRel(<, Nat)
           T == {n - j : j \in S}
<1>1. IsWellFoundedOn(Before, Nat)
  BY NatLessThanWellFounded
<1>2. T \subseteq Nat /\ T # {}
  <2>1. \A j \in S : j \in Int /\ n - j \in Nat
    OBVIOUS
  <2>2. QED
    BY <2>1
<1>3. PICK x \in T : \A y \in T : <<y, x>> \notin Before
  <2> HIDE DEF Before, T
  <2>1. QED
    BY <1>1, <1>2, WFMin
<1>4. \A y \in T : ~(y < x)
  BY <1>2, <1>3 DEF OpToRel
<1>5. PICK i \in S : x = n - i
  OBVIOUS
<1>6. i \in Int /\ \A j \in S : j \in Int /\ ~(n - j < n - i)
  BY <1>4, <1>5
<1> HIDE DEF T
<1>7. \A j \in S : j <= i
  BY <1>6
<1>8. QED
  BY <1>7

(* What is admitted is no more than the last of it has ahead, and itself. *)
LEMMA AdmittedFit ==
  ASSUME TypeInv, Admissible # {}
  PROVE  /\ IsFiniteSet(Admissible)
         /\ \E i \in DOMAIN line :
              /\ Admitted(i)
              /\ Cardinality(Ahead(i)) \in Nat
              /\ Cardinality(Admissible) <= Cardinality(Ahead(i)) + 1
<1>1. /\ line \in Seq(Run) /\ Len(line) \in Nat /\ DOMAIN line = 1 .. Len(line)
  BY DEF TypeInv, AgentRunsTypeOK, ServerTypeOK
<1> DEFINE Places == {j \in DOMAIN line : Admitted(j)}
<1>2. PICK i \in Places : \A j \in Places : j <= i
  <2>1. Places \subseteq 1 .. Len(line) /\ Places # {}
    BY <1>1 DEF Admissible
  <2>2. QED
    BY <1>1, <2>1, LastPlace
<1>3. IsFiniteSet(Ahead(i)) /\ Cardinality(Ahead(i)) \in Nat
  <2>1. IsFiniteSet(1 .. Len(line))
    BY <1>1, FS_Interval
  <2>2. Ahead(i) \in SUBSET (1 .. Len(line))
    BY <1>1 DEF Ahead
  <2>3. QED
    BY <2>1, <2>2, FS_Subset, FS_CardinalityType
<1>4. Places \subseteq Ahead(i) \union {i}
  BY <1>1, <1>2 DEF Ahead, Admitted
<1>5. /\ IsFiniteSet(Ahead(i) \union {i})
      /\ Cardinality(Ahead(i) \union {i}) <= Cardinality(Ahead(i)) + 1
  BY <1>3, FS_AddElement
<1>6. IsFiniteSet(Places) /\ Cardinality(Places) <= Cardinality(Ahead(i)) + 1
  BY <1>3, <1>4, <1>5, FS_Subset, FS_CardinalityType
<1>7. IsFiniteSet(Admissible) /\ Cardinality(Admissible) <= Cardinality(Places)
  <2> DEFINE f == [j \in Places |-> line[j]]
  <2>1. f \in Surjection(Places, Admissible)
    BY DEF Admissible, Surjection
  <2>2. QED
    BY <1>6, <2>1, FS_Surjection
<1>8. QED
  BY <1>2, <1>3, <1>6, <1>7, FS_CardinalityType

(* How the slots change: they are given up, handed to a follow-up, or      *)
(* given to those that are promoted.                                       *)
LEMMA LeaseMoves ==
  ASSUME TypeInv, LaneInv, [Next]_vars
  PROVE  \/ lease' \subseteq lease
         \/ \E r \in Run : \E s \in lease : r \notin lease /\ lease' = (lease \ {s}) \union {r}
         \/ Promote
<1>1. ASSUME NEW r \in Run, FollowUpCreate(r)
      PROVE  \/ lease' = lease
             \/ \E s \in lease : r \notin lease /\ lease' = (lease \ {s}) \union {r}
  <2>1. r \notin lease
    BY <1>1 DEF FollowUpCreate, LaneInv, Exists, LeaseIsRunning, Running, Final
  <2>2. QED
    BY <1>1, <2>1 DEF FollowUpCreate
<1>2. QED
  BY <1>1
  DEF Next, User, Step, vars, serverVars, Create, FollowUpRead, Pause, Continue, CancelQueued,
      CancelRunning, ReapRead, ReapWrite, Deliver, Recover, StopSurvivors, Claim, Refused,
      BeginRead, BeginWrite, BeginFails, Prepare, StartProvider, StopPreparation, Interrupt,
      ProviderStops, Settle, FinishAttempt, Acknowledge, Project, FreeSlot, Complete,
      ProviderEnds, PrepareFails, StartFails, RecoveryFails, SettleFails, ClaimUnanswered, Repeat, GiveUp, FinishStartup, Crash, Restart, Cut, Reconnect

LEMMA StepKeepsSlots ==
  ASSUME TypeInv, LaneInv, SlotsInv, [Next]_vars
  PROVE  SlotsInv'
<1>0. IsFiniteSet(lease) /\ Cardinality(lease) \in Nat
  BY FS_CardinalityType DEF SlotsInv
<1>1. CASE lease' \subseteq lease
  <2>1. IsFiniteSet(lease') /\ Cardinality(lease') <= Cardinality(lease) /\ Cardinality(lease') \in Nat
    BY <1>0, <1>1, FS_Subset, FS_CardinalityType
  <2>2. QED
    BY <1>0, <2>1, LimitAssumption DEF SlotsInv
<1>2. ASSUME NEW r \in Run, NEW s \in lease, r \notin lease, lease' = (lease \ {s}) \union {r}
      PROVE  SlotsInv'
  <2>1. IsFiniteSet(lease \ {s}) /\ Cardinality(lease \ {s}) = Cardinality(lease) - 1
    BY <1>0, <1>2, FS_RemoveElement
  <2>2. IsFiniteSet(lease') /\ Cardinality(lease') = Cardinality(lease)
    BY <1>0, <1>2, <2>1, FS_AddElement
  <2>3. QED
    BY <2>2 DEF SlotsInv
<1>3. CASE Promote
  <2>0. IsFiniteSet(ActiveSlots) /\ Cardinality(ActiveSlots) \in Nat
    BY <1>0, FS_Subset, FS_CardinalityType DEF ActiveSlots
  <2>1. lease' = ActiveSlots \union Admissible
    BY <1>3 DEF Promote, ActiveSlots, LaneInv, LeaseIsRunning, Running, Final,
         TypeInv, AgentRunsTypeOK, ServerTypeOK
  <2>2. PICK i \in DOMAIN line : /\ Admitted(i)
                                /\ Cardinality(Ahead(i)) \in Nat
                                /\ Cardinality(Admissible) <= Cardinality(Ahead(i)) + 1
    BY <1>3, AdmittedFit DEF Promote
  <2>3. IsFiniteSet(Admissible) /\ Cardinality(Admissible) \in Nat
    BY <1>3, AdmittedFit, FS_CardinalityType DEF Promote
  <2>4. /\ IsFiniteSet(lease')
        /\ Cardinality(lease') \in Nat
        /\ Cardinality(lease') <= Cardinality(ActiveSlots) + Cardinality(Admissible)
    <3>1. IsFiniteSet(ActiveSlots \intersect Admissible) /\ Cardinality(ActiveSlots \intersect Admissible) \in Nat
      BY <2>0, FS_Subset, FS_CardinalityType
    <3>2. /\ IsFiniteSet(ActiveSlots \union Admissible)
          /\ Cardinality(ActiveSlots \union Admissible) =
               Cardinality(ActiveSlots) + Cardinality(Admissible) - Cardinality(ActiveSlots \intersect Admissible)
      BY <2>0, <2>3, FS_Union
    <3>3. /\ IsFiniteSet(lease')
          /\ Cardinality(lease') =
               Cardinality(ActiveSlots) + Cardinality(Admissible) - Cardinality(ActiveSlots \intersect Admissible)
      BY <2>1, <3>2
    <3>4. Cardinality(lease') \in Nat
      BY <3>3, FS_CardinalityType
    <3>5. QED
      BY <2>0, <2>3, <3>1, <3>3, <3>4
  <2>5. line[i] \in Run
    BY DEF TypeInv, AgentRunsTypeOK, ServerTypeOK
  <2>6. Limit[line[i]] = 0 \/ Cardinality(ActiveSlots) + Cardinality(Ahead(i)) < Limit[line[i]]
    BY <2>2 DEF Admitted, FitsAt, Fits
  <2>7. ASSUME NEW r \in Run, \A q \in Run : Limit[q] \in 1 .. Limit[r]
        PROVE  Cardinality(lease') <= Limit[r]
    <3>1. Limit[line[i]] \in 1 .. Limit[r] /\ Limit[r] \in Nat
      BY <2>5, <2>7, LimitAssumption
    <3>2. QED
      BY <2>0, <2>2, <2>3, <2>4, <2>6, <3>1
  <2>8. QED
    BY <2>4, <2>7 DEF SlotsInv
<1>4. QED
  BY <1>1, <1>2, <1>3, LeaseMoves

LEMMA SlotsInductive ==
  Spec => []SlotsInv
<1>1. Init => SlotsInv
  BY FS_EmptySet, LimitAssumption DEF Init, SlotsInv
<1>2. TypeInv /\ LaneInv /\ SlotsInv /\ [Next]_vars => SlotsInv'
  BY StepKeepsSlots
<1>3. QED
  BY <1>1, <1>2, TypesInductive, LaneInductive, PTL DEF Spec

(* Every active or paused run has its slot, and never more than the        *)
(* largest limit of the runs are active or paused at once, where none is   *)
(* without a limit.                                                        *)
THEOREM SlotsRespectedHolds ==
  Spec => []SlotsRespected
<1>1. LaneInv /\ SlotsInv => SlotsRespected
  <2> SUFFICES ASSUME LaneInv, SlotsInv PROVE SlotsRespected
    OBVIOUS
  <2> DEFINE used == {q \in lease : status[q] \in Running}
  <2>1. Cardinality(used) <= Cardinality(lease) /\ Cardinality(used) \in Nat /\ Cardinality(lease) \in Nat
    BY FS_Subset, FS_CardinalityType DEF SlotsInv
  <2>2. \A r \in Run : status[r] \in Running => r \in lease
    BY DEF LaneInv, LeaseIsRunning
  <2>3. ASSUME NEW r \in Run, \A q \in Run : Limit[q] \in 1 .. Limit[r]
        PROVE  Cardinality(used) <= Limit[r]
    BY <2>1, <2>3, LimitAssumption DEF SlotsInv
  <2>4. QED
    BY <2>2, <2>3 DEF SlotsRespected
<1>2. QED
  BY <1>1, LaneInductive, SlotsInductive, PTL
=============================================================================
