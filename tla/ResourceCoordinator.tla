-------------------------- MODULE ResourceCoordinator --------------------------
(***************************************************************************)
(* The agent's own resource locks (RepositoryCoordinator.withResources,    *)
(* packages/control-agent/src/repository-coordinator.ts).                  *)
(*                                                                         *)
(* An operation claims the resources it declared; its handler may claim    *)
(* more while it holds those, as a build does for its derived data and     *)
(* then for its output paths, and returns them innermost first.  Claims    *)
(* wait in one list that is scanned from the front whenever the locks      *)
(* change (drainResources).  The agent is single-threaded: nothing else    *)
(* happens while a scan is under way.                                      *)
(***************************************************************************)
EXTENDS OperationResources, SequencesExt

CONSTANTS
  Op,         \* owners of locks: jobs and passes of the codebase monitor
  Claims,     \* the descriptors each claims, from the outermost inwards
  Optional    \* the claims <<operation, level>> made with tryWithResources

ASSUME ClaimsAssumption == \A o \in Op : Len(Claims[o]) \in Nat \ {0}

VARIABLES
  held,       \* how many of its claims an operation holds
  unwinding,  \* operations that only return what they hold
  pending,    \* operations that wait for their next claim, in order
  index       \* where the scan stands, 0 when none is under way

vars == <<held, unwinding, pending, index>>

Held(o) == {Claims[o][i] : i \in 1 .. held[o]}
Wanted(o) == Claims[o][held[o] + 1]
Waiting(o) == o \in ToSet(pending)
Level(o) == <<o, held[o] + 1>>

Init ==
  /\ held = [o \in Op |-> 0]
  /\ unwinding = [o \in Op |-> FALSE]
  /\ pending = <<>>
  /\ index = 0

-------------------------------------------------------------------------------
(* Conflicts with what runs *)

Holds(p, D) == \E E \in Held(p) : operationDescriptorsConflict(E, D)

(* Mutant: only the outermost claim of a running operation counts. *)
M_HeldUpBy(o) ==
  {p \in Op \ {o} : held[p] > 0 /\ operationDescriptorsConflict(Claims[p][1], Wanted(o))}

(* The running operations in the way of the next claim of o. *)
HeldUpBy(o) == {p \in Op \ {o} : Holds(p, Wanted(o))}

-------------------------------------------------------------------------------
(* Claims *)

Enqueue(o) ==
  /\ index = 0 /\ index' = 1
  /\ ~Waiting(o) /\ ~unwinding[o]
  /\ held[o] < Len(Claims[o])
  /\ pending' = Append(pending, o)
  /\ UNCHANGED <<held, unwinding>>

withResources(o) == Level(o) \notin Optional /\ Enqueue(o)

(* Mutant: what waits already is not looked at. *)
M_tryWithResources(o) ==
  /\ held[o] < Len(Claims[o]) /\ Level(o) \in Optional
  /\ HeldUpBy(o) = {}
  /\ Enqueue(o)

(* Busy resources are skipped: the operation goes on without them. *)
tryWithResources(o) ==
  /\ held[o] < Len(Claims[o]) /\ Level(o) \in Optional
  /\ HeldUpBy(o) = {}
  /\ \A p \in ToSet(pending) \ {o} : ~operationDescriptorsConflict(Wanted(p), Wanted(o))
  /\ Enqueue(o)

(* The innermost task of an operation ends. *)
finish(o) ==
  /\ index = 0 /\ index' = 1
  /\ held[o] > 0 /\ ~Waiting(o)
  /\ held' = [held EXCEPT ![o] = @ - 1]
  /\ unwinding' = [unwinding EXCEPT ![o] = held[o] > 1]
  /\ UNCHANGED pending

(* A claim is rejected: its operation returns what it holds. *)
Reject(o) == unwinding' = [unwinding EXCEPT ![o] = held[o] > 0]

(* The signal of a waiting claim fires. *)
abort(o) ==
  /\ index = 0 /\ index' = 1
  /\ \E i \in 1 .. Len(pending) : pending[i] = o /\ pending' = RemoveAt(pending, i)
  /\ Reject(o)
  /\ UNCHANGED held

-------------------------------------------------------------------------------
(* drainResources, one action for each turn of its loop *)

Scanning(o) == index \in 1 .. Len(pending) /\ o = pending[index]

(* Mutant: no cycle is ever found. *)
M_hasResourceWaitCycle(o) == FALSE

(* A chain of claims that wait for what runs leads from o back to o: every *)
(* set that is closed under "waits for" and holds what o waits for has o.  *)
hasResourceWaitCycle(o) ==
  \A S \in SUBSET Op :
    /\ HeldUpBy(o) \subseteq S
    /\ \A p \in S : Waiting(p) => HeldUpBy(p) \subseteq S
    => o \in S

ReadsOnly(D) == \A r \in D : r.mode = "READ" /\ r.key[2] # "build-stability"

(* Inspections stay responsive: a build holds the earlier claim up. *)
Inspection(o, earlier) ==
  /\ ReadsOnly(Wanted(o))
  /\ \E p \in Op \ {o} : \E D \in Held(p) :
       /\ \E r \in D : r.mode = "BUILD"
       /\ operationDescriptorsConflict(D, Wanted(earlier))

(* Mutant: a claim of reads passes every earlier claim. *)
M_Overtakes(o, earlier) == Holds(o, Wanted(earlier)) \/ ReadsOnly(Wanted(o))

(* "A nested claim must not wait on a writer that is waiting for its owner." *)
Overtakes(o, earlier) == Holds(o, Wanted(earlier)) \/ Inspection(o, earlier)

(* The earlier claims in the way of the next claim of o. *)
QueuedBehind(o) ==
  {p \in Op \ {o} :
     /\ \E i, j \in 1 .. Len(pending) : i < j /\ pending[i] = p /\ pending[j] = o
     /\ operationDescriptorsConflict(Wanted(p), Wanted(o))
     /\ ~Overtakes(o, p)}

Dequeue == pending' = RemoveAt(pending, index) /\ UNCHANGED index

(* Handlers pass the rejection on, but for the deletion of build data: it  *)
(* notes the failure and makes the next claim, for the next directory.     *)
drainFail(o) ==
  /\ Scanning(o)
  /\ HeldUpBy(o) # {} /\ hasResourceWaitCycle(o)
  /\ Dequeue
  /\ Reject(o) \/ UNCHANGED unwinding
  /\ UNCHANGED held

drainSkip(o) ==
  /\ Scanning(o)
  /\ \/ HeldUpBy(o) # {} /\ ~hasResourceWaitCycle(o)
     \/ HeldUpBy(o) = {} /\ QueuedBehind(o) # {}
  /\ index' = index + 1
  /\ UNCHANGED <<held, unwinding, pending>>

(* Mutant: a granted claim is still waiting. *)
M_drainStart(o) ==
  /\ Scanning(o)
  /\ HeldUpBy(o) = {} /\ QueuedBehind(o) = {}
  /\ index' = index + 1
  /\ held' = [held EXCEPT ![o] = @ + 1]
  /\ UNCHANGED <<unwinding, pending>>

drainStart(o) ==
  /\ Scanning(o)
  /\ HeldUpBy(o) = {} /\ QueuedBehind(o) = {}
  /\ Dequeue
  /\ held' = [held EXCEPT ![o] = @ + 1]
  /\ UNCHANGED unwinding

drainEnds ==
  /\ index > Len(pending)
  /\ index' = 0
  /\ UNCHANGED <<held, unwinding, pending>>

drainResources == drainEnds \/ \E o \in Op : drainFail(o) \/ drainSkip(o) \/ drainStart(o)

-------------------------------------------------------------------------------
Next ==
  \/ \E o \in Op : withResources(o) \/ tryWithResources(o) \/ finish(o) \/ abort(o)
  \/ drainResources

Spec == Init /\ [][Next]_vars

(* Tasks end.  Their end is an event of its own, handled between two scans *)
(* however often the others claim: strong fairness.  Nobody owes an abort. *)
FairSpec ==
  /\ Spec
  /\ WF_vars(drainResources)
  /\ \A o \in Op : SF_vars(finish(o))

-------------------------------------------------------------------------------
(* Properties *)

(* Types; an operation waits at most once, for a claim it has left, and    *)
(* what has to be returned is held.                                        *)
CoordinatorTypeOK ==
  /\ held \in [Op -> Nat] /\ \A o \in Op : held[o] <= Len(Claims[o])
  /\ unwinding \in [Op -> BOOLEAN] /\ \A o \in Op : unwinding[o] => held[o] > 0
  /\ pending \in Seq(Op)
  /\ \A i, j \in 1 .. Len(pending) : pending[i] = pending[j] => i = j
  /\ \A i \in 1 .. Len(pending) :
       held[pending[i]] < Len(Claims[pending[i]]) /\ ~unwinding[pending[i]]
  /\ index \in 0 .. Len(pending) + 1

(* No two operations ever run on resources that conflict, at any level of  *)
(* their claims: what drainResources compares every running entry for.     *)
Exclusive ==
  \A o, p \in Op : o # p =>
    \A D \in Held(o), E \in Held(p) : ~operationDescriptorsConflict(D, E)

(* A waiting claim that no running one conflicts with is overtaken by no   *)
(* later claim it conflicts with: inspections during builds and nested     *)
(* claims pass only what has to wait anyway.                               *)
NoOvertaking ==
  [][\A i, j \in 1 .. Len(pending) :
       LET p == pending[i]  o == pending[j] IN
       /\ i < j /\ held'[o] > held[o]
       /\ operationDescriptorsConflict(Wanted(p), Wanted(o))
       => \E q \in Op : Holds(q, Wanted(p))]_vars

(* "Background checkout maintenance should skip a busy worktree, not       *)
(* wait": a claim found free by tryWithResources is granted by the scan    *)
(* that follows, whatever waits at the time.                               *)
TryNeverWaits == index = 0 => \A o \in ToSet(pending) : Level(o) \notin Optional

(* Every claim is granted or rejected: neither passing inspections nor     *)
(* builds that expand into each other's output paths leave it waiting.     *)
EveryClaimSettles == \A o \in Op : Waiting(o) ~> ~Waiting(o)

(* "A nested claim must not wait on a writer that is waiting for its       *)
(* owner": between two scans no chain of claims that wait for others, be   *)
(* it for what they hold or behind them in the list, is closed.            *)
WaitsFor(o) == IF Waiting(o) THEN HeldUpBy(o) \union QueuedBehind(o) ELSE {}

NoClosedChain ==
  index = 0 =>
    ~\E S \in SUBSET Op \ {{}} : \A o \in S : WaitsFor(o) \intersect S # {}
===============================================================================
