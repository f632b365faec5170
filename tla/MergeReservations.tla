--------------------------- MODULE MergeReservations ---------------------------
(***************************************************************************)
(* Merging a pull request whose branch is checked out by agents            *)
(* (withMergeReservation and recoverMergeReservations of                   *)
(* src/services/operation-locks/operation-locks.service.ts, with their     *)
(* callers for GitHub and GitLab).                                         *)
(*                                                                         *)
(* While a merge request may take effect at the provider, no operation may *)
(* change or build the branch.  A MERGE_SUBMISSION holder keeps them out:  *)
(* it is admitted in one transaction, marked SUBMITTING before the request *)
(* is sent, and released when the provider's answer is definite.  When it  *)
(* is not, or the control plane stops, the holder stays until a later read *)
(* of the provider says that the request can have no more effect.          *)
(*                                                                         *)
(* One pull request; each holder of kind MERGE_SUBMISSION is one attempt,  *)
(* and one recovery is under way at a time.                                *)
(***************************************************************************)
EXTENDS OperationLocks, Naturals

CONSTANT MaxStops   \* bound on the stops of the control plane

ASSUME StopsAssumption == MaxStops \in Nat

Merge == {m \in Holder : Kind[m] = "MERGE_SUBMISSION"}

VARIABLES
  task,       \* where withMergeReservation is for each attempt
  outcome,    \* resultJson.outcome of each holder
  stale,      \* PREPARING holders not updated for MERGE_PREPARATION_RECOVERY_MS
  pr,         \* the state of the pull request at the provider
  flight,     \* requests the provider has not processed yet
  landing,    \* the request whose merge the provider is making
  answer,     \* what the provider answered to each request
  exposed,    \* history: attempts whose reservation does not protect them
  seen,       \* the state a recovery has read, or none
  stops

provider == <<pr, flight, landing>>
mergeVars == <<task, outcome, stale, provider, answer, exposed, seen, stops>>

MergeInit ==
  /\ task = [m \in Merge |-> "idle"]
  /\ outcome = [m \in Merge |-> "NONE"]
  /\ stale = {} /\ pr = "OPEN" /\ flight = {} /\ landing = {}
  /\ answer = [m \in Merge |-> "none"]
  /\ exposed = {} /\ seen = "none" /\ stops = 0

Goto(m, l) == task' = [task EXCEPT ![m] = l]
Answer(m, a) == answer' = [answer EXCEPT ![m] = a]
Record(m, o) == outcome' = [outcome EXCEPT ![m] = o]

-------------------------------------------------------------------------------
(* withMergeReservation *)

(* Mutant: the record is not part of the transaction. *)
M_Prepare(m) == UNCHANGED outcome

Prepare(m) == Record(m, "PREPARING")

(* One transaction admits the holder and records what it prepares. *)
Reserve(m) ==
  /\ task[m] = "idle"
  /\ \E t \in Token : AdmitNow(m, t)
  /\ Prepare(m) /\ Goto(m, "validating")
  /\ UNCHANGED <<stale, provider, answer, exposed, seen, stops>>

(* The pull request is read again: what blocks it, or a source that        *)
(* changed, ends the attempt.  GitLab's state is not looked at.            *)
Validate(m) ==
  /\ task[m] = "validating"
  /\ Goto(m, "marking") \/ Goto(m, "releasing")
  /\ UNCHANGED <<outcome, stale, provider, answer, exposed, seen, stops>>
  /\ UNCHANGED lockVars

(* Mutant: the request is sent whatever became of the reservation. *)
M_Prepared(m) == TRUE

Prepared(m) == state[m] = "HELD" /\ outcome[m] = "PREPARING"

(* markSubmitted compares the exact record it prepared. *)
MarkSubmitted(m) ==
  /\ task[m] = "marking"
  /\ IF Prepared(m)
     THEN Record(m, "SUBMITTING") /\ Goto(m, "sending")
     ELSE Goto(m, "releasing") /\ UNCHANGED outcome
  /\ stale' = stale \ {m}
  /\ UNCHANGED <<provider, answer, exposed, seen, stops>>
  /\ UNCHANGED lockVars

Send(m) ==
  /\ task[m] = "sending"
  /\ flight' = flight \union {m}
  /\ Goto(m, "sent")
  /\ UNCHANGED <<outcome, stale, pr, landing, answer, exposed, seen, stops>>
  /\ UNCHANGED lockVars

(* A definite answer: merged, or refused with a client error. *)
Answered(m) ==
  /\ task[m] = "sent" /\ answer[m] # "none"
  /\ Goto(m, IF answer[m] = "merged" THEN "confirming" ELSE "releasing")
  /\ Answer(m, "none")
  /\ UNCHANGED <<outcome, stale, provider, exposed, seen, stops>>
  /\ UNCHANGED lockVars

(* A server error, a timeout or no connection says nothing. *)
Unanswered(m) ==
  /\ task[m] = "sent"
  /\ Goto(m, "observing")
  /\ Answer(m, "none")
  /\ UNCHANGED <<outcome, stale, provider, exposed, seen, stops>>
  /\ UNCHANGED lockVars

(* Then the pull request is read: only that it is merged is conclusive.    *)
Observe(m) ==
  /\ task[m] = "observing"
  /\ \/ pr = "MERGED" /\ Goto(m, "confirming") /\ UNCHANGED outcome
     \/ Record(m, "UNKNOWN") /\ Goto(m, "idle")
  /\ UNCHANGED <<stale, provider, answer, exposed, seen, stops>>
  /\ UNCHANGED lockVars

(* That the record of the success fails is only logged. *)
Confirm(m) ==
  /\ task[m] = "confirming"
  /\ Record(m, "CONFIRMED") \/ UNCHANGED outcome
  /\ Goto(m, "releasing")
  /\ UNCHANGED <<stale, provider, answer, exposed, seen, stops>>
  /\ UNCHANGED lockVars

(* The end of an attempt whose outcome is certain; a recovery may have     *)
(* released it already.                                                    *)
EndAttempt(m) ==
  /\ task[m] = "releasing"
  /\ IF state[m] = "HELD" THEN Release(m, token[m]) ELSE UNCHANGED lockVars
  /\ Goto(m, "idle")
  /\ UNCHANGED <<outcome, stale, provider, answer, exposed, seen, stops>>

-------------------------------------------------------------------------------
(* recoverMergeReservations *)

(* Whoever builds or merges the branch reads the pull request, as does who *)
(* looks at its merge options, ...                                         *)
RecoverRead ==
  /\ seen = "none"
  /\ seen' = pr
  /\ UNCHANGED <<task, outcome, stale, provider, answer, exposed, stops>>
  /\ UNCHANGED lockVars

(* Mutant: what a crash left SUBMITTING is not resolved. *)
M_Resolved(m) ==
  \/ outcome[m] = "PREPARING" /\ m \in stale
  \/ outcome[m] = "CONFIRMED"
  \/ outcome[m] = "UNKNOWN" /\ seen # "OPEN"

(* What ends a reservation: a preparation given up, a success recorded, or *)
(* a pull request that is not open, which one being merged is not either.  *)
Resolved(m) ==
  \/ outcome[m] = "PREPARING" /\ m \in stale
  \/ outcome[m] = "CONFIRMED"
  \/ outcome[m] \in {"UNKNOWN", "SUBMITTING"} /\ seen # "OPEN"

(* What LOCKED resolves may be landing. *)
LostTo(m) ==
  IF outcome[m] \in {"UNKNOWN", "SUBMITTING"} /\ seen = "LOCKED" THEN {m} ELSE {}

(* ... and later releases what that resolves. *)
RecoverWrite ==
  /\ seen # "none"
  /\ LET done == {m \in Merge : state[m] = "HELD" /\ Resolved(m)} IN
       IF done = {}
       THEN seen' = "none" /\ UNCHANGED <<lockVars, exposed>>
       ELSE \E m \in done :
              Release(m, token[m]) /\ exposed' = exposed \union LostTo(m) /\ UNCHANGED seen
  /\ UNCHANGED <<task, outcome, stale, provider, answer, stops>>

-------------------------------------------------------------------------------
(* The provider, time and faults *)

(* The provider begins the merge of a request; GitLab shows that as LOCKED *)
(* and gitlab.service.ts passes the state on.                              *)
Begin(m) ==
  /\ m \in flight /\ pr = "OPEN"
  /\ pr' = "LOCKED" /\ landing' = {m}
  /\ UNCHANGED <<task, outcome, stale, flight, answer, exposed, seen, stops>>
  /\ UNCHANGED lockVars

Merges(m) == pr' = "MERGED" /\ (pr = "OPEN" \/ m \in landing)

(* The request carries the head that was reviewed: it is refused when that *)
(* or anything else has changed, or the merge fails.                       *)
Refuses(m) == pr' = IF m \in landing THEN "OPEN" ELSE pr

Process(m) ==
  /\ m \in flight
  /\ flight' = flight \ {m} /\ landing' = landing \ {m}
  /\ \E a \in {"merged", "refused"} :
       /\ IF a = "merged" THEN Merges(m) ELSE Refuses(m)
       /\ IF task[m] = "sent" THEN Answer(m, a) ELSE UNCHANGED answer
  /\ UNCHANGED <<task, outcome, stale, exposed, seen, stops>>
  /\ UNCHANGED lockVars

(* People close, reopen and merge pull requests at the provider. *)
Close ==
  /\ \/ pr = "OPEN" /\ pr' \in {"LOCKED", "CLOSED", "MERGED"}
     \/ pr = "LOCKED" /\ landing = {} /\ pr' \in {"OPEN", "MERGED"}
  /\ UNCHANGED <<task, outcome, stale, flight, landing, answer, exposed, seen, stops>>
  /\ UNCHANGED lockVars

Reopen ==
  /\ pr = "CLOSED"
  /\ pr' = "OPEN"
  /\ exposed' = exposed \union flight \union {m \in Merge : task[m] = "sending"}
                          \union (IF seen = "CLOSED" THEN Merge ELSE {})
  /\ UNCHANGED <<task, outcome, stale, flight, landing, answer, seen, stops>>
  /\ UNCHANGED lockVars

(* A preparation is not heard of for two minutes. *)
Age(m) ==
  /\ outcome[m] = "PREPARING" /\ state[m] = "HELD" /\ m \notin stale
  /\ stale' = stale \union {m}
  /\ UNCHANGED <<task, outcome, provider, answer, exposed, seen, stops>>
  /\ UNCHANGED lockVars

(* The control plane stops; what it has sent may still take effect. *)
Stop ==
  /\ stops < MaxStops /\ stops' = stops + 1
  /\ task' = [m \in Merge |-> "idle"] /\ answer' = [m \in Merge |-> "none"]
  /\ seen' = "none"
  /\ UNCHANGED <<outcome, stale, provider, exposed>>
  /\ UNCHANGED lockVars

(* Jobs come and go beside the merges. *)
Job == {h \in Holder : Kind[h] = "AGENT_JOB" /\ Parent[h] = NoParent}

JobStep ==
  /\ \/ \E h \in Job :
          Request(h) \/ Retire(h) \/ Finish(h) \/ Recycle(h) \/ \E t \in Token : AdmitJob(h, t)
     \/ Tick
  /\ UNCHANGED mergeVars

Attempt(m) ==
  \/ Validate(m) \/ MarkSubmitted(m) \/ Send(m) \/ Answered(m)
  \/ Observe(m) \/ Confirm(m) \/ EndAttempt(m)

MergeNext ==
  \/ \E m \in Merge :
       Reserve(m) \/ Attempt(m) \/ Unanswered(m) \/ Begin(m) \/ Process(m) \/ Age(m)
  \/ RecoverRead \/ RecoverWrite \/ Close \/ Reopen

MergeSpec ==
  LockInit /\ MergeInit /\ [][MergeNext \/ Stop \/ JobStep]_<<lockVars, mergeVars>>

(* Calls of the provider answer or time out, and a recovery that has read  *)
(* goes on.  Nothing recovers by itself: only the claim of a build of a    *)
(* worktree does, which is repeated as long as the build is queued.        *)
Build == {h \in Job : \E r \in Wants[h] : r.kind = "WORKTREE" /\ r.mode = "BUILD"}
BuildWaits == \E h \in Build : state[h] = "REQUESTED"

MergeFairness ==
  /\ \A m \in Merge :
       /\ WF_task(Attempt(m) \/ Unanswered(m))
       /\ WF_stale(Age(m))
  /\ WF_seen(BuildWaits /\ RecoverRead)
  /\ WF_<<state, seen>>(RecoverWrite)

FairMergeSpec == MergeSpec /\ MergeFairness

-------------------------------------------------------------------------------
(* Properties *)

States == {"OPEN", "LOCKED", "CLOSED", "MERGED"}

(* Every variable is typed, and a reservation that is held says what       *)
(* recovery has to know: recoverMergeReservations skips one without.       *)
MergeTypeOK ==
  /\ task \in [Merge -> {"idle", "validating", "marking", "sending", "sent", "observing",
                         "confirming", "releasing"}]
  /\ outcome \in [Merge -> {"NONE", "PREPARING", "SUBMITTING", "CONFIRMED", "UNKNOWN"}]
  /\ stale \subseteq Merge /\ flight \subseteq Merge /\ exposed \subseteq Merge
  /\ \A m \in landing : m \in flight /\ landing = {m} /\ pr = "LOCKED"
  /\ pr \in States /\ seen \in {"none"} \union States
  /\ answer \in [Merge -> {"none", "merged", "refused"}]
  /\ stops \in 0 .. MaxStops
  /\ \A m \in Merge : state[m] = "HELD" => outcome[m] # "NONE"

(* A request that is or will be sent can merge the pull request.  Two      *)
(* things expose an attempt.  A recovery that reads LOCKED takes the merge *)
(* that is being made for over.  And what a recovery saw of a closed pull  *)
(* request says nothing after its reopening, neither of a request from     *)
(* before it nor to a recovery that still acts on it.                      *)
MayLand(m) ==
  (m \in flight \/ task[m] = "sending") /\ pr \in {"OPEN", "LOCKED"} /\ m \notin exposed

(* As long as a request may take effect, its reservation is held and       *)
(* nothing that conflicts with it holds anything: through stops of the     *)
(* control plane, lost answers, expired preparations and recoveries that   *)
(* act on what they read before.  Only what exposes an attempt, a LOCKED   *)
(* that was read or a reopening, ends its reservation too early.           *)
QuietWhileLanding ==
  \A m \in Merge : MayLand(m) =>
    /\ state[m] = "HELD"
    /\ \A h \in Held : <<h, m>> \in Conflicting => h = m

(* A build does not wait for ever on a preparation or on a pull request    *)
(* that is closed: while one is queued a reservation ends, unless its      *)
(* request may still take effect.  Of other jobs the code promises that    *)
(* not: they recover nothing.                                              *)
ReservationEnds ==
  \A m \in Merge :
    state[m] = "HELD" /\ BuildWaits ~>
      \/ state[m] # "HELD" \/ ~BuildWaits
      \/ pr = "OPEN" /\ outcome[m] \in {"SUBMITTING", "UNKNOWN"}
===============================================================================
