----------------------------- MODULE OperationLocks -----------------------------
(***************************************************************************)
(* The control plane's table of operation holders                          *)
(* (src/services/operation-locks/operation-locks.service.ts).              *)
(*                                                                         *)
(* A holder is REQUESTED when an operation is queued, HELD from its        *)
(* admission until its owner reports that execution settled, and then      *)
(* RELEASED.  Every operation of the table is one database transaction     *)
(* and SQLite serialises those: each is one action.                        *)
(*                                                                         *)
(* Admission order is the order of (createdAt, id).  Creation times have   *)
(* a resolution of one millisecond and ids are random, so a holder may be  *)
(* ordered before those created in the same millisecond.                   *)
(***************************************************************************)
EXTENDS OperationResources

CONSTANTS
  Holder,     \* slots of the table, each reused by one owner after another
  Kind,       \* the ownerKind of each slot
  Wants,      \* the normalised descriptor of each slot
  Parent,     \* the worktree move a slot is a stage of, or NoParent
  Agent,      \* registered agents
  Token,      \* execution tokens
  NoParent, NoToken

OwnerKinds == {"AGENT_JOB", "AGENT_RUN", "WORKTREE_MOVE", "MERGE_SUBMISSION"}

Stages(m) == {h \in Holder : Parent[h] = m}

ASSUME NoParentAssumption == NoParent \notin Holder
ASSUME NoTokenAssumption == NoToken \notin Token
ASSUME KindAssumption == Kind \in [Holder -> OwnerKinds]
ASSUME ParentAssumption ==
  /\ Parent \in [Holder -> Holder \union {NoParent}]
  /\ \A h \in Holder : Parent[h] # NoParent =>
       /\ Kind[h] = "AGENT_JOB"
       /\ Kind[Parent[h]] = "WORKTREE_MOVE"

Conflicting ==
  {p \in Holder \X Holder : operationDescriptorsConflict(Wants[p[1]], Wants[p[2]])}

VARIABLES
  state,      \* the state of each slot, NONE while no owner uses it
  token,      \* the execution token recorded with a HELD slot
  before,     \* <<g, h>>: g precedes h by (createdAt, id)
  fresh       \* slots created in the current millisecond

lockVars == <<state, token, before, fresh>>

Live == {h \in Holder : state[h] \in {"REQUESTED", "HELD"}}
Held == {h \in Holder : state[h] = "HELD"}

LockInit ==
  /\ state = [h \in Holder |-> "NONE"]
  /\ token = [h \in Holder |-> NoToken]
  /\ before = {}
  /\ fresh = {}

-------------------------------------------------------------------------------
(* Requests *)

(* Mutant: what the newcomer precedes still precedes it. *)
M_OrdersWith(h) == {before \union ((Live \ S) \X {h}) : S \in SUBSET (fresh \intersect Live)}

(* The (createdAt, id) orders a holder h created now may end up in: last,  *)
(* or before a tail of those created in the same millisecond.              *)
OrdersWith(h) ==
  {before \union ((Live \ S) \X {h}) \union ({h} \X S) :
     S \in {S \in SUBSET (fresh \intersect Live) :
              \A x \in S, y \in Live : <<x, y>> \in before => y \in S}}

(* A holder is created for h at a place of the order it may get. *)
Enter(h, order) ==
  /\ state[h] = "NONE"
  /\ order \in OrdersWith(h)
  /\ before' = order
  /\ fresh' = fresh \union {h}

(* A queued job; a stage of a move is queued when the move has reached it, *)
(* and by then its reservation may be gone.                                *)
Request(h) ==
  /\ Kind[h] = "AGENT_JOB"
  /\ Parent[h] # NoParent => state[Parent[h]] \in {"HELD", "RELEASED"}
  /\ \E order \in OrdersWith(h) : Enter(h, order)
  /\ state' = [state EXCEPT ![h] = "REQUESTED"]
  /\ UNCHANGED token

-------------------------------------------------------------------------------
(* Admission *)

HeldParent(h) == {m \in Held : m = Parent[h]}

(* A stage may not reach a worktree its move did not declare. *)
DeclaredByParent(h) ==
  \A m \in HeldParent(h), r \in Wants[h] : r.kind = "WORKTREE" =>
     \E s \in Wants[m] : s.kind = r.kind /\ s.key = r.key

(* What waits for a move anyway does not hold up the stages of the move. *)
WaitsForParent(g, h) ==
  state[g] = "REQUESTED" /\ \E m \in HeldParent(h) : <<m, g>> \in Conflicting

BuildStability(r) == r.kind = "WORKTREE" /\ r.key[2] = "build-stability"

ReadsOnly(h) ==
  /\ Kind[h] = "AGENT_JOB"
  /\ Wants[h] # {}
  /\ \A r \in Wants[h] : r.mode = "READ" /\ ~BuildStability(r)

(* Mutant: an inspection passes every request. *)
M_ReadBypass(g, h) == state[g] = "REQUESTED" /\ ReadsOnly(h)

(* An inspection passes a request that some build holds up. *)
ReadBypass(g, h) ==
  /\ state[g] = "REQUESTED"
  /\ ReadsOnly(h)
  /\ \E b \in Held : (\E r \in Wants[b] : r.mode = "BUILD") /\ <<b, g>> \in Conflicting

(* Mutant: only earlier holders are looked at. *)
M_Blocks(g, h, order) ==
  /\ g \notin HeldParent(h) \union {h}
  /\ <<h, g>> \in Conflicting
  /\ <<g, h>> \in order
  /\ ~WaitsForParent(g, h)
  /\ ~ReadBypass(g, h)

Blocks(g, h, order) ==
  /\ g \notin HeldParent(h) \union {h}
  /\ <<h, g>> \in Conflicting
  /\ state[g] = "HELD" \/ <<g, h>> \in order
  /\ ~WaitsForParent(g, h)
  /\ ~ReadBypass(g, h)

CanAdmit(h, order) ==
  /\ DeclaredByParent(h)
  /\ \A g \in Live : ~Blocks(g, h, order)

Hold(h, t) ==
  /\ state' = [state EXCEPT ![h] = "HELD"]
  /\ token' = [token EXCEPT ![h] = t]

(* An agent claims a queued job. *)
AdmitJob(h, t) ==
  /\ state[h] = "REQUESTED"
  /\ Parent[h] # NoParent => state[Parent[h]] = "HELD"
  /\ CanAdmit(h, before)
  /\ Hold(h, t)
  /\ UNCHANGED <<before, fresh>>

(* Moves, runs and merges request and are admitted in one transaction,     *)
(* which leaves nothing behind when they are refused.                      *)
AdmitNow(h, t) ==
  /\ Kind[h] # "AGENT_JOB"
  /\ \E order \in OrdersWith(h) :
       /\ Enter(h, order)
       /\ CanAdmit(h, order)
  /\ Hold(h, t)

-------------------------------------------------------------------------------
(* Release *)

(* The place of a RELEASED holder in the order has no more effect. *)
Forget(S) ==
  /\ before' = {p \in before : p[1] \notin S /\ p[2] \notin S}
  /\ fresh' = fresh \ S

(* releaseOperation: a recorded token must be presented. *)
Release(h, t) ==
  /\ h \in Live
  /\ token[h] \in {NoToken, t}
  /\ state' = [state EXCEPT ![h] = "RELEASED"]
  /\ Forget({h})
  /\ UNCHANGED token

(* Execution settled; a move settles when none of its stages is under way. *)
Finish(h) ==
  /\ h \in Held
  /\ Stages(h) \intersect Live = {}
  /\ Release(h, token[h])

(* A user cancels a move that waits for a decision, whatever a concurrent  *)
(* retry queued for it.                                                    *)
AbandonMove(h) ==
  /\ Kind[h] = "WORKTREE_MOVE" /\ h \in Held
  /\ Release(h, token[h])

(* A queued job is cancelled. *)
Retire(h) ==
  /\ state[h] = "REQUESTED"
  /\ Release(h, token[h])

(* A claim finds that the move of the job is over. *)
FailTarget(h) ==
  /\ Parent[h] # NoParent /\ state[Parent[h]] # "HELD"
  /\ Retire(h)

UsesAgent(h, a) == \E r \in Wants[h] : r.agentId = a

(* Mutant: executions under way do not refuse the deletion. *)
M_DeleteAgent(a) ==
  LET retired == {h \in Live : UsesAgent(h, a)} IN
    /\ retired # {}
    /\ state' = [h \in Holder |-> IF h \in retired THEN "RELEASED" ELSE state[h]]
    /\ Forget(retired)
    /\ UNCHANGED token

(* deleteAgent: refused while an execution holds resources of the agent,   *)
(* and what is queued for it is retired with it.                           *)
DeleteAgent(a) ==
  /\ \A h \in Held : ~UsesAgent(h, a)
  /\ LET retired == {h \in Live : UsesAgent(h, a)} IN
       /\ retired # {}
       /\ state' = [h \in Holder |-> IF h \in retired THEN "RELEASED" ELSE state[h]]
       /\ Forget(retired)
  /\ UNCHANGED token

-------------------------------------------------------------------------------
(* The environment *)

(* The clock reaches the next millisecond. *)
Tick ==
  /\ fresh # {}
  /\ fresh' = {}
  /\ UNCHANGED <<state, token, before>>

(* A slot is taken over by a new owner; a move is new with its stages. *)
Recycle(h) ==
  /\ state[h] = "RELEASED"
  /\ Parent[h] # NoParent => state[Parent[h]] = "RELEASED"
  /\ \A c \in Stages(h) : state[c] = "NONE"
  /\ state' = [state EXCEPT ![h] = "NONE"]
  /\ token' = [token EXCEPT ![h] = NoToken]
  /\ UNCHANGED <<before, fresh>>

LockNext ==
  \/ \E h \in Holder : Request(h)
  \/ \E h \in Holder, t \in Token : AdmitJob(h, t)
  \/ \E h \in Holder, t \in Token : AdmitNow(h, t)
  \/ \E h \in Holder : Finish(h)
  \/ \E h \in Holder : AbandonMove(h)
  \/ \E h \in Holder : Retire(h)
  \/ \E h \in Holder : FailTarget(h)
  \/ \E h \in Holder : Recycle(h)
  \/ \E a \in Agent : DeleteAgent(a)
  \/ Tick

LockSpec == LockInit /\ [][LockNext]_lockVars

(* Agents keep claiming what is queued and report what they executed; a    *)
(* claim whose target is gone fails.  Nobody owes the end of a move, which *)
(* nothing sweeps, nor do users owe requests, cancellations and deletions. *)
LockFairness ==
  /\ \A h \in Holder : WF_lockVars(\E t \in Token : AdmitJob(h, t))
  /\ \A h \in Holder : Kind[h] # "WORKTREE_MOVE" => WF_lockVars(Finish(h))
  /\ \A h \in Holder : WF_lockVars(FailTarget(h))
  /\ WF_lockVars(Tick)

FairLockSpec == LockSpec /\ LockFairness

-------------------------------------------------------------------------------
(* Properties *)

(* The slots are typed, and of two live ones exactly one precedes the      *)
(* other: whatever the ties, (createdAt, id) is a total order.             *)
LockTypeOK ==
  /\ state \in [Holder -> {"NONE", "REQUESTED", "HELD", "RELEASED"}]
  /\ token \in [Holder -> Token \union {NoToken}]
  /\ before \subseteq Live \X Live
  /\ \A g, h \in Live : g # h => (<<g, h>> \in before <=> <<h, g>> \notin before)
  /\ fresh \subseteq Live

(* Two operations that conflict never hold their resources together,       *)
(* except a stage of a move and the move it serves: what admitOperation's  *)
(* scan of the holders is for, whatever bypasses it grants.                *)
MutualExclusion ==
  \A g, h \in Held : g # h /\ <<g, h>> \in Conflicting => g = Parent[h] \/ h = Parent[g]

(* A request that nothing HELD conflicts with is never made to wait by a   *)
(* later operation: inspections and stages may pass a queue, but only past *)
(* requests that have to wait anyway.  It is what admitOperation compares  *)
(* createdAt and id of REQUESTED holders for.                              *)
HeldUp(g) == \E h \in Held : <<h, g>> \in Conflicting

NoBarging ==
  [][\A g, h \in Holder :
       /\ state[g] = "REQUESTED" /\ state'[g] = "REQUESTED" /\ ~HeldUp(g)
       /\ h \notin Held /\ state'[h] = "HELD" /\ <<h, g>> \in Conflicting
       => <<h, g>> \in before']_lockVars

(* Only a move that never ends starves a queued job: whatever overtakes it *)
(* and however long others keep arriving, it is admitted or retired as     *)
(* long as every move gives its reservation back.  Neither inspections     *)
(* passing it during builds nor stages passing it under their move starve  *)
(* it, nor do jobs waiting for each other without a move in the circle.    *)
MovesEnd == \A m \in Holder : Kind[m] = "WORKTREE_MOVE" => []<>(state[m] # "HELD")

QueuedIsSettled ==
  MovesEnd => \A h \in Holder : state[h] = "REQUESTED" ~> state[h] # "REQUESTED"

(* The refinement: the holders in state HELD are the owners of an          *)
(* exclusive lock, every transaction acquires or releases at most one, and *)
(* only a stage is ever admitted beside what conflicts with it.            *)
Locks == INSTANCE ResourceLock WITH
  Owner <- Holder,
  Conflicts <- Conflicting,
  Serves <- {p \in Holder \X Holder : p[2] = Parent[p[1]]},
  owners <- Held

ImplementsResourceLock == Locks!Spec
===============================================================================
