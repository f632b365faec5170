---------------------------- MODULE RepositoryQueue ----------------------------
(***************************************************************************)
(* The queue of one checkout for operations that declare no resources      *)
(* (RepositoryCoordinator.run, runBuild, runInspection, runReconciliation, *)
(* packages/control-agent/src/repository-coordinator.ts).                  *)
(*                                                                         *)
(* drain runs to its end before anything else happens; each turn of its    *)
(* loop is an action.                                                      *)
(***************************************************************************)
EXTENDS SequencesExt

CONSTANTS
  Task,       \* operations, each may be queued again when it is over
  Kind        \* exclusive, build, inspection or reconciliation

ASSUME TaskKindAssumption ==
  Kind \in [Task -> {"exclusive", "build", "inspection", "reconciliation"}]

VARIABLES
  pending,    \* queued tasks, in order
  running,    \* tasks under way
  phase,      \* the exclusive phase of the reconciliation: none, wanted, running
  draining    \* drain is under way

vars == <<pending, running, phase, draining>>

Running(kind) == {t \in running : Kind[t] = kind}
Inspections == Running("inspection")
Queued(t) == t \in ToSet(pending)

(* The flag queue.exclusive: a mutation, or a reconciliation at its phase. *)
ExclusiveTaken == Running("exclusive") # {} \/ phase = "running"

Init ==
  /\ pending = <<>>
  /\ running = {}
  /\ phase = "none"
  /\ draining = FALSE

-------------------------------------------------------------------------------
enqueue(t) ==
  /\ ~draining /\ draining' = TRUE
  /\ ~Queued(t) /\ t \notin running
  /\ pending' = Append(pending, t)
  /\ UNCHANGED <<running, phase>>

(* The signal of a queued task fires; a running task keeps its lease. *)
abort(t) ==
  /\ ~draining /\ draining' = TRUE
  /\ \E i \in 1 .. Len(pending) : pending[i] = t /\ pending' = RemoveAt(pending, i)
  /\ UNCHANGED <<running, phase>>

(* Mutant: nothing looks at the queue when a task ends. *)
M_complete(t) ==
  /\ ~draining
  /\ t \in running
  /\ Kind[t] = "reconciliation" => phase = "none"
  /\ running' = running \ {t}
  /\ UNCHANGED <<pending, phase, draining>>

(* A task ends, well or not; a reconciliation awaits its exclusive phase. *)
complete(t) ==
  /\ ~draining /\ draining' = TRUE
  /\ t \in running
  /\ Kind[t] = "reconciliation" => phase = "none"
  /\ running' = running \ {t}
  /\ UNCHANGED <<pending, phase>>

(* The reconciliation is about to touch the checkout. *)
runReconciliationExclusive ==
  /\ ~draining /\ draining' = TRUE
  /\ Running("reconciliation") # {} /\ phase = "none"
  /\ phase' = "wanted"
  /\ UNCHANGED <<pending, running>>

phaseCompletes ==
  /\ ~draining /\ draining' = TRUE
  /\ phase = "running"
  /\ phase' = "none"
  /\ UNCHANGED <<pending, running>>

-------------------------------------------------------------------------------
(* drain *)

PhaseMayStart == phase = "wanted" /\ ~ExclusiveTaken /\ Inspections = {}

drainPhase ==
  /\ draining /\ draining' = FALSE
  /\ PhaseMayStart
  /\ phase' = "running"
  /\ UNCHANGED <<pending, running>>

(* Mutant: a build starts beside a reconciliation. *)
M_MayStart(t) ==
  CASE Kind[t] = "exclusive" -> Inspections = {} /\ Running("reconciliation") = {}
    [] Kind[t] = "reconciliation" -> Running("reconciliation") = {}
    [] OTHER -> TRUE

MayStart(t) ==
  CASE Kind[t] = "exclusive" -> Inspections = {} /\ Running("reconciliation") = {}
    [] Kind[t] \in {"build", "reconciliation"} -> Running("reconciliation") = {}
    [] OTHER -> TRUE

HeadMayStart == IF pending = <<>> THEN FALSE ELSE MayStart(Head(pending))

Open == phase = "none" /\ ~ExclusiveTaken /\ Running("build") = {}

drainHead ==
  /\ draining /\ Open
  /\ HeadMayStart
  /\ running' = running \union {Head(pending)}
  /\ pending' = Tail(pending)
  /\ UNCHANGED <<phase, draining>>

(* Mutant: inspections pass whatever waits. *)
M_PassesBuild == phase = "none" /\ ~ExclusiveTaken

(* Mutations can wait for a long build: inspections pass them meanwhile. *)
PassesBuild == phase = "none" /\ ~ExclusiveTaken /\ Running("build") # {}

FirstInspection(i) ==
  /\ i \in 1 .. Len(pending) /\ Kind[pending[i]] = "inspection"
  /\ \A j \in 1 .. i - 1 : Kind[pending[j]] # "inspection"

drainInspection ==
  /\ draining /\ PassesBuild
  /\ \E i \in 1 .. Len(pending) :
       /\ FirstInspection(i)
       /\ running' = running \union {pending[i]}
       /\ pending' = RemoveAt(pending, i)
  /\ UNCHANGED <<phase, draining>>

drainEnds ==
  /\ draining /\ draining' = FALSE
  /\ \/ phase # "none" /\ ~PhaseMayStart
     \/ phase = "none" /\ ExclusiveTaken
     \/ Open /\ ~HeadMayStart
     \/ PassesBuild /\ \A t \in ToSet(pending) : Kind[t] # "inspection"
  /\ UNCHANGED <<pending, running, phase>>

drain == drainPhase \/ drainHead \/ drainInspection \/ drainEnds

-------------------------------------------------------------------------------
Next ==
  \/ \E t \in Task : enqueue(t) \/ abort(t) \/ complete(t)
  \/ runReconciliationExclusive \/ phaseCompletes
  \/ drain

Spec == Init /\ [][Next]_vars

(* Tasks and phases end: each end is an event of its own, handled between  *)
(* two runs of drain however often others are queued.                      *)
FairSpec ==
  /\ Spec
  /\ WF_vars(drain)
  /\ SF_vars(phaseCompletes)
  /\ \A t \in Task : SF_vars(complete(t))

-------------------------------------------------------------------------------
(* Properties *)

(* A mutation runs alone; sources are stable during a build, which only    *)
(* inspections share; while a reconciliation touches the checkout nothing  *)
(* else runs; and there is one reconciliation at a time.                   *)
CheckoutStable ==
  /\ \A t \in Running("exclusive") : running = {t}
  /\ \A t \in Running("build") : running \subseteq {t} \union Inspections
  /\ \A t, u \in Running("reconciliation") : t = u
  /\ phase # "none" => Running("reconciliation") # {}
  /\ phase = "running" => running = Running("reconciliation")

(* The order of the queue is kept, "so incoming inspections cannot starve  *)
(* a writer": a task starts before an earlier one only if it is an         *)
(* inspection and a build is under way.                                    *)
OrderKept ==
  [][\A i, j \in 1 .. Len(pending) :
       i < j /\ pending[j] \in running' /\ pending[i] \notin running'
       => Kind[pending[j]] = "inspection" /\ Running("build") # {}]_vars

(* Whatever is queued starts or is aborted. *)
EveryTaskStarts == \A t \in Task : Queued(t) ~> ~Queued(t)
===============================================================================
