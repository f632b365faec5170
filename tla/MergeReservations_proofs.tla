----------------------- MODULE MergeReservations_proofs -----------------------
(***************************************************************************)
(* A branch is quiet while a merge request for it may take effect, for     *)
(* every number of attempts, jobs, descriptors and stops.                  *)
(***************************************************************************)
EXTENDS MergeReservations, OperationLocks_proofs

(* A merge is no stage and has none, so nothing is admitted beside it. *)
LEMMA MergesStandAlone ==
  ASSUME NEW m \in Merge
  PROVE  m \in Holder /\ m \notin Job /\ Parent[m] = NoParent /\ Stages(m) = {}
BY NoParentAssumption, ParentAssumption DEF Merge, Job, Stages

(* What a step does to the table of holders, as far as merges can tell:    *)
(* one of them is admitted or released, or they stay as they are.          *)
Kept == \A m \in Merge : state'[m] = state[m]

LEMMA ReserveEffect ==
  ASSUME LockTypeOK, NEW m \in Merge, Reserve(m)
  PROVE  state[m] = "NONE" /\ state' = [state EXCEPT ![m] = "HELD"]
BY DEF Reserve, AdmitNow, Enter, Hold

LEMMA ReleaseEffect ==
  ASSUME LockTypeOK, NEW m \in Merge, Release(m, token[m])
  PROVE  state' = [state EXCEPT ![m] = "RELEASED"]
BY MergesStandAlone, ReleaseStep

LEMMA JobEffect ==
  ASSUME LockTypeOK, JobStep
  PROVE  Kept /\ UNCHANGED mergeVars
<1>1. ASSUME NEW h \in Job, Request(h)
      PROVE  Kept
  BY <1>1, MergesStandAlone DEF Request, Kept, LockTypeOK, Job
<1>2. ASSUME NEW h \in Job, Retire(h) \/ Finish(h)
      PROVE  Kept
  BY <1>2, MergesStandAlone, ReleaseStep DEF Retire, Finish, Kept, LockTypeOK, Job
<1>3. ASSUME NEW h \in Job, Recycle(h)
      PROVE  Kept
  BY <1>3, MergesStandAlone DEF Recycle, Kept, LockTypeOK, Job
<1>4. ASSUME NEW h \in Job, NEW t \in Token, AdmitJob(h, t)
      PROVE  Kept
  BY <1>4, MergesStandAlone DEF AdmitJob, Hold, Kept, LockTypeOK, Job
<1>5. ASSUME Tick
      PROVE  Kept
  BY <1>5 DEF Tick, Kept
<1>6. QED
  BY <1>1, <1>2, <1>3, <1>4, <1>5 DEF JobStep

-------------------------------------------------------------------------------
(* Merges use the table as OperationLocks allows *)

LEMMA MergeStepIsLockStep ==
  ASSUME LockTypeOK, [MergeNext \/ Stop \/ JobStep]_<<lockVars, mergeVars>>
  PROVE  [LockNext]_lockVars
<1>1. ASSUME NEW m \in Merge, Reserve(m)
      PROVE  LockNext
  BY <1>1, MergesStandAlone DEF Reserve, LockNext
<1>2. ASSUME NEW m \in Merge, state[m] = "HELD", Release(m, token[m])
      PROVE  LockNext
  <2>1. m \in Holder /\ Finish(m)
    BY <1>2, MergesStandAlone DEF Finish, Held
  <2>2. QED
    BY <2>1 DEF LockNext
<1>3. ASSUME NEW m \in Merge, EndAttempt(m)
      PROVE  [LockNext]_lockVars
  BY <1>2, <1>3 DEF EndAttempt
<1>4. CASE RecoverWrite
  BY <1>2, <1>4 DEF RecoverWrite
<1>5. CASE JobStep
  BY <1>5 DEF JobStep, LockNext, Job
<1>6. ASSUME NEW m \in Merge,
             \/ Validate(m) \/ MarkSubmitted(m) \/ Send(m) \/ Answered(m)
             \/ Observe(m) \/ Confirm(m) \/ Unanswered(m) \/ Begin(m) \/ Process(m) \/ Age(m)
      PROVE  UNCHANGED lockVars
  BY <1>6 DEF Validate, MarkSubmitted, Send, Answered, Observe, Confirm, Unanswered, Begin, Process, Age
<1>7. CASE RecoverRead \/ Close \/ Reopen \/ Stop \/ UNCHANGED <<lockVars, mergeVars>>
  BY <1>7 DEF RecoverRead, Close, Reopen, Stop
<1>8. QED
  BY <1>1, <1>3, <1>4, <1>5, <1>6, <1>7 DEF MergeNext, Attempt

(* Merges and the jobs beside them do nothing to the holders but what      *)
(* OperationLocks allows: what is proved of every table holds of theirs.   *)
THEOREM MergesUseOperationLocks == MergeSpec => LockSpec
<1>1. LockInit => LockTypeOK
  BY DEF LockInit, LockTypeOK, Live
<1>2. LockTypeOK /\ [MergeNext \/ Stop \/ JobStep]_<<lockVars, mergeVars>>
        => [LockNext]_lockVars
  BY MergeStepIsLockStep
<1>3. LockTypeOK /\ [LockNext]_lockVars => LockTypeOK'
  BY LockStepKeepsTypes
<1>4. QED
  BY <1>1, <1>2, <1>3, PTL DEF MergeSpec, LockSpec

-------------------------------------------------------------------------------
(* Types *)

LEMMA MergeStepKeepsTypes ==
  ASSUME LockTypeOK, MergeTypeOK, [MergeNext \/ Stop \/ JobStep]_<<lockVars, mergeVars>>
  PROVE  MergeTypeOK'
<1> USE StopsAssumption DEF provider, States
<1>1. ASSUME NEW m \in Merge, Reserve(m)
      PROVE  MergeTypeOK'
  BY <1>1, ReserveEffect, MergesStandAlone, ZenonT(60) DEF Reserve, Prepare, Record, Goto, MergeTypeOK, LockTypeOK
<1>2. ASSUME NEW m \in Merge, Validate(m) \/ MarkSubmitted(m) \/ Send(m) \/ Age(m)
      PROVE  MergeTypeOK'
  BY <1>2 DEF Validate, MarkSubmitted, Send, Age, Record, Goto, MergeTypeOK, lockVars
<1>3. ASSUME NEW m \in Merge, Answered(m) \/ Unanswered(m) \/ Observe(m) \/ Confirm(m)
      PROVE  MergeTypeOK'
  BY <1>3 DEF Answered, Unanswered, Observe, Confirm, Record, Goto, Answer, MergeTypeOK, lockVars
<1>4. ASSUME NEW m \in Merge, EndAttempt(m)
      PROVE  MergeTypeOK'
  <2>1. state' = [state EXCEPT ![m] = "RELEASED"] \/ UNCHANGED state
    BY <1>4, ReleaseEffect DEF EndAttempt, lockVars
  <2>2. QED
    BY <1>4, <2>1, MergesStandAlone DEF EndAttempt, Goto, MergeTypeOK, LockTypeOK
<1>5. ASSUME NEW m \in Merge, Begin(m) \/ Process(m)
      PROVE  MergeTypeOK'
  <2>1. CASE Begin(m)
    BY <2>1 DEF Begin, MergeTypeOK, lockVars
  <2>2. CASE Process(m)
    <3>1. pr' \in States /\ (m \in landing \/ UNCHANGED landing)
      BY <2>2 DEF Process, Merges, Refuses, MergeTypeOK
    <3>2. m \in landing => landing' = {}
      BY <2>2 DEF Process, MergeTypeOK
    <3>3. m \notin landing => pr' = pr \/ (pr = "OPEN" /\ landing = {})
      BY <2>2 DEF Process, Merges, Refuses, MergeTypeOK
    <3>4. answer' \in [Merge -> {"none", "merged", "refused"}]
      BY <2>2 DEF Process, Answer, MergeTypeOK
    <3>5. QED
      BY <2>2, <3>1, <3>2, <3>3, <3>4 DEF Process, MergeTypeOK, lockVars
  <2>3. QED
    BY <1>5, <2>1, <2>2
<1>6. CASE RecoverWrite
  <2>1. UNCHANGED state \/ \E m \in Merge : state' = [state EXCEPT ![m] = "RELEASED"]
    BY <1>6, ReleaseEffect DEF RecoverWrite, lockVars
  <2>2. QED
    BY <1>6, <2>1, MergesStandAlone DEF RecoverWrite, LostTo, MergeTypeOK, LockTypeOK
<1>7. CASE RecoverRead \/ Close \/ Reopen
  BY <1>7 DEF RecoverRead, Close, Reopen, MergeTypeOK, lockVars
<1>8. CASE Stop
  BY <1>8 DEF Stop, MergeTypeOK, lockVars
<1>9. CASE JobStep
  BY <1>9, JobEffect DEF Kept, MergeTypeOK, mergeVars
<1>10. CASE UNCHANGED <<lockVars, mergeVars>>
  BY <1>10 DEF MergeTypeOK, mergeVars, lockVars
<1>11. QED
  BY <1>1, <1>2, <1>3, <1>4, <1>5, <1>6, <1>7, <1>8, <1>9, <1>10 DEF MergeNext, Attempt

(* A reservation that is held always says how far its attempt came, which  *)
(* is all that recoverMergeReservations has to go by after a stop.         *)
THEOREM MergeTypeCorrect == MergeSpec => []MergeTypeOK
<1>1. LockInit /\ MergeInit => MergeTypeOK
  BY StopsAssumption, MergesStandAlone DEF LockInit, MergeInit, MergeTypeOK, States
<1>2. LockTypeOK /\ MergeTypeOK /\ [MergeNext \/ Stop \/ JobStep]_<<lockVars, mergeVars>>
        => MergeTypeOK'
  BY MergeStepKeepsTypes
<1>3. QED
  BY <1>1, <1>2, MergesUseOperationLocks, LockTypeCorrect, PTL DEF MergeSpec

-------------------------------------------------------------------------------
(* Quiet while a request may take effect *)

(* A request is on its way only for an attempt that came that far, ...     *)
Underway(m) == m \in flight \/ task[m] = "sending"

NotBegun ==
  \A m \in Merge : state[m] = "NONE" =>
    task[m] = "idle" /\ answer[m] = "none" /\ m \notin flight

NotSent ==
  \A m \in Merge : task[m] \in {"validating", "marking", "sending"} =>
    answer[m] = "none" /\ m \notin flight

(* ... the provider answers what it has processed, ...                     *)
AnsweredIsProcessed ==
  \A m \in Merge : answer[m] # "none" => task[m] = "sent" /\ m \notin flight

(* ... whoever ends an attempt knows that its request has no more effect,  *)
EndedIsHarmless ==
  \A m \in Merge :
    task[m] \in {"confirming", "releasing"} \/ outcome[m] = "CONFIRMED" =>
      m \notin flight \/ pr = "MERGED"

(* and what is under way is neither a preparation nor confirmed, unless    *)
(* it comes too late.                                                      *)
UnderwayIsRecorded ==
  \A m \in Merge :
    /\ task[m] = "sending" => outcome[m] = "SUBMITTING"
    /\ m \in flight => outcome[m] \in {"SUBMITTING", "UNKNOWN", "CONFIRMED"}

(* What a recovery goes by is still true, or a reopening of the pull       *)
(* request has exposed every attempt.  Of LOCKED that is not so.           *)
SeenIsTrue ==
  /\ seen = "MERGED" => pr = "MERGED"
  /\ seen = "CLOSED" /\ pr \in {"OPEN", "LOCKED"} => exposed = Merge

ReservedWhileLanding == \A m \in Merge : MayLand(m) => state[m] = "HELD"

QuietInv ==
  /\ NotBegun /\ NotSent /\ AnsweredIsProcessed /\ EndedIsHarmless
  /\ UnderwayIsRecorded /\ SeenIsTrue /\ ReservedWhileLanding

LEMMA AttemptIsQuiet ==
  ASSUME MergeTypeOK, QuietInv, NEW m \in Merge,
         \/ Validate(m) \/ MarkSubmitted(m) \/ Send(m) \/ Answered(m) \/ Unanswered(m)
         \/ Observe(m) \/ Confirm(m)
  PROVE  QuietInv'
<1> USE DEF MergeTypeOK, QuietInv, Goto, Record, Answer, lockVars, provider
<1>1. state' = state /\ pr' = pr /\ seen' = seen /\ exposed' = exposed
  BY DEF Validate, MarkSubmitted, Send, Answered, Unanswered, Observe, Confirm
<1>2. SeenIsTrue'
  BY <1>1 DEF SeenIsTrue
<1>3. CASE Validate(m) \/ MarkSubmitted(m)
  BY <1>1, <1>2, <1>3 DEF Validate, MarkSubmitted, Prepared, NotBegun, NotSent,
     AnsweredIsProcessed, EndedIsHarmless, UnderwayIsRecorded, ReservedWhileLanding, MayLand
<1>4. CASE Send(m)
  BY <1>1, <1>2, <1>4 DEF Send, NotBegun, NotSent,
     AnsweredIsProcessed, EndedIsHarmless, UnderwayIsRecorded, ReservedWhileLanding, MayLand
<1>5. CASE Answered(m) \/ Unanswered(m)
  BY <1>1, <1>2, <1>5 DEF Answered, Unanswered, NotBegun, NotSent,
     AnsweredIsProcessed, EndedIsHarmless, UnderwayIsRecorded, ReservedWhileLanding, MayLand
<1>6. CASE Observe(m) \/ Confirm(m)
  BY <1>1, <1>2, <1>6 DEF Observe, Confirm, NotBegun, NotSent,
     AnsweredIsProcessed, EndedIsHarmless, UnderwayIsRecorded, ReservedWhileLanding, MayLand
<1>7. QED
  BY <1>3, <1>4, <1>5, <1>6

(* A holder is released only when its request is not under way any more,   *)
(* or comes too late, or is exposed.                                       *)
LEMMA ReleasedIsHarmless ==
  ASSUME LockTypeOK, MergeTypeOK, QuietInv, NEW m \in Merge, Release(m, token[m]),
         ~MayLand(m) \/ m \in exposed',
         exposed' = exposed \/ exposed' = exposed \union {m},
         task[m] \in {"idle", "releasing"} \/ UNCHANGED task,
         task' = task \/ task' = [task EXCEPT ![m] = "idle"],
         UNCHANGED <<outcome, pr, flight, answer, seen>>
  PROVE  QuietInv'
<1>1. state' = [state EXCEPT ![m] = "RELEASED"] /\ state \in [Holder -> {"NONE", "REQUESTED", "HELD", "RELEASED"}]
  BY ReleaseEffect DEF LockTypeOK
<1>2. SeenIsTrue'
  BY DEF MergeTypeOK, QuietInv, SeenIsTrue
<1>3. QED
  BY <1>1, <1>2, MergesStandAlone DEF MergeTypeOK, QuietInv, NotBegun, NotSent, AnsweredIsProcessed,
     EndedIsHarmless, UnderwayIsRecorded, ReservedWhileLanding, MayLand

LEMMA EndIsQuiet ==
  ASSUME LockTypeOK, MergeTypeOK, QuietInv, NEW m \in Merge, EndAttempt(m)
  PROVE  QuietInv'
<1>1. task' = [task EXCEPT ![m] = "idle"] /\ UNCHANGED <<outcome, pr, flight, answer, exposed, seen>>
  BY DEF EndAttempt, Goto, provider
<1>2. task[m] = "releasing" /\ ~MayLand(m)
  BY DEF EndAttempt, QuietInv, EndedIsHarmless, MayLand
<1>3. CASE state[m] = "HELD"
  BY <1>1, <1>2, <1>3, ReleasedIsHarmless DEF EndAttempt
<1>4. CASE state[m] # "HELD"
  <2>1. state' = state
    BY <1>4 DEF EndAttempt, lockVars
  <2>2. QED
    BY <1>1, <1>2, <2>1 DEF MergeTypeOK, QuietInv, NotBegun, NotSent, AnsweredIsProcessed,
       EndedIsHarmless, UnderwayIsRecorded, SeenIsTrue, ReservedWhileLanding, MayLand
<1>5. QED
  BY <1>3, <1>4

LEMMA RecoveryIsQuiet ==
  ASSUME LockTypeOK, MergeTypeOK, QuietInv, RecoverWrite
  PROVE  QuietInv'
<1>1. UNCHANGED <<task, outcome, pr, flight, answer>>
  BY DEF RecoverWrite, provider
<1>2. CASE seen' = "none" /\ UNCHANGED <<lockVars, exposed>>
  BY <1>1, <1>2 DEF lockVars, QuietInv, NotBegun, NotSent, AnsweredIsProcessed,
     EndedIsHarmless, UnderwayIsRecorded, SeenIsTrue, ReservedWhileLanding, MayLand
<1>3. ASSUME NEW m \in Merge, state[m] = "HELD", Resolved(m), Release(m, token[m]),
             exposed' = exposed \union LostTo(m), UNCHANGED seen
      PROVE  QuietInv'
  <2>1. exposed' = exposed \/ exposed' = exposed \union {m}
    BY <1>3 DEF LostTo
  <2>2. CASE outcome[m] \in {"PREPARING", "CONFIRMED"}
    <3>1. ~MayLand(m)
      BY <2>2 DEF QuietInv, UnderwayIsRecorded, EndedIsHarmless, MayLand
    <3>2. QED
      BY <1>1, <1>3, <2>1, <3>1, ReleasedIsHarmless
  <2>3. CASE outcome[m] \in {"UNKNOWN", "SUBMITTING"} /\ seen = "LOCKED"
    <3>1. m \in exposed'
      BY <1>3, <2>3 DEF LostTo
    <3>2. QED
      BY <1>1, <1>3, <2>1, <3>1, ReleasedIsHarmless
  <2>4. CASE seen \in {"CLOSED", "MERGED"}
    <3>1. ~MayLand(m)
      BY <2>4 DEF MergeTypeOK, QuietInv, SeenIsTrue, MayLand
    <3>2. QED
      BY <1>1, <1>3, <2>1, <3>1, ReleasedIsHarmless
  <2>5. QED
    BY <1>3, <2>2, <2>3, <2>4 DEF Resolved, RecoverWrite, MergeTypeOK, States
<1>4. QED
  BY <1>2, <1>3 DEF RecoverWrite

LEMMA ProviderIsQuiet ==
  ASSUME MergeTypeOK, QuietInv,
         (\E m \in Merge : Begin(m) \/ Process(m)) \/ Close \/ Reopen \/ RecoverRead
  PROVE  QuietInv'
<1> USE DEF MergeTypeOK, QuietInv, lockVars, provider
<1>1. ASSUME NEW m \in Merge, Process(m)
      PROVE  QuietInv'
  BY <1>1 DEF Process, Merges, Refuses, Answer, NotBegun, NotSent, AnsweredIsProcessed, EndedIsHarmless,
     UnderwayIsRecorded, SeenIsTrue, ReservedWhileLanding, MayLand
<1>2. CASE Close \/ RecoverRead \/ \E m \in Merge : Begin(m)
  BY <1>2 DEF Close, RecoverRead, Begin, NotBegun, NotSent, AnsweredIsProcessed, EndedIsHarmless,
     UnderwayIsRecorded, SeenIsTrue, ReservedWhileLanding, MayLand
<1>3. CASE Reopen
  BY <1>3 DEF Reopen, NotBegun, NotSent, AnsweredIsProcessed, EndedIsHarmless,
     UnderwayIsRecorded, SeenIsTrue, ReservedWhileLanding, MayLand
<1>4. QED
  BY <1>1, <1>2, <1>3

LEMMA MergeStepIsQuiet ==
  ASSUME LockTypeOK, MergeTypeOK, QuietInv,
         [MergeNext \/ Stop \/ JobStep]_<<lockVars, mergeVars>>
  PROVE  QuietInv'
<1>1. ASSUME NEW m \in Merge, Reserve(m)
      PROVE  QuietInv'
  <2>1. /\ state[m] = "NONE" /\ state' = [state EXCEPT ![m] = "HELD"]
        /\ outcome' = [outcome EXCEPT ![m] = "PREPARING"]
        /\ task' = [task EXCEPT ![m] = "validating"]
        /\ UNCHANGED <<pr, flight, answer, exposed, seen>>
    BY <1>1, ReserveEffect DEF Reserve, Prepare, Record, Goto, provider
  <2>2. answer[m] = "none" /\ m \notin flight
    BY <2>1 DEF QuietInv, NotBegun
  <2>3. state \in [Holder -> {"NONE", "REQUESTED", "HELD", "RELEASED"}]
    BY DEF LockTypeOK
  <2>4. QED
    BY <2>1, <2>2, <2>3, MergesStandAlone DEF MergeTypeOK, QuietInv, NotBegun, NotSent,
       AnsweredIsProcessed, EndedIsHarmless, UnderwayIsRecorded, SeenIsTrue,
       ReservedWhileLanding, MayLand
<1>2. CASE Stop
  BY <1>2 DEF Stop, MergeTypeOK, QuietInv, NotBegun, NotSent, AnsweredIsProcessed, EndedIsHarmless,
     UnderwayIsRecorded, SeenIsTrue, ReservedWhileLanding, MayLand, lockVars, provider
<1>3. CASE JobStep \/ (\E m \in Merge : Age(m)) \/ UNCHANGED <<lockVars, mergeVars>>
  <2>1. Kept /\ UNCHANGED <<task, outcome, pr, flight, answer, exposed, seen>>
    BY <1>3, JobEffect DEF Age, Kept, lockVars, mergeVars, provider
  <2>2. QED
    BY <2>1 DEF Kept, QuietInv, NotBegun, NotSent, AnsweredIsProcessed, EndedIsHarmless,
       UnderwayIsRecorded, SeenIsTrue, ReservedWhileLanding, MayLand
<1>4. QED
  BY <1>1, <1>2, <1>3, AttemptIsQuiet, EndIsQuiet, RecoveryIsQuiet, ProviderIsQuiet
  DEF MergeNext, Attempt

(* While a merge request may take effect nothing that conflicts with it    *)
(* holds anything, whatever stops, whichever answers are lost and whatever *)
(* recoveries act on what they read before (withMergeReservation,          *)
(* recoverMergeReservations).                                              *)
THEOREM QuietWhileLandingHolds == MergeSpec => []QuietWhileLanding
<1>1. LockInit /\ MergeInit => QuietInv
  BY DEF MergeInit, QuietInv, NotBegun, NotSent, AnsweredIsProcessed, EndedIsHarmless,
     UnderwayIsRecorded, SeenIsTrue, ReservedWhileLanding, MayLand
<1>2. /\ LockTypeOK /\ MergeTypeOK /\ QuietInv
      /\ [MergeNext \/ Stop \/ JobStep]_<<lockVars, mergeVars>>
      => QuietInv'
  BY MergeStepIsQuiet
<1>3. QuietInv /\ MutualExclusion => QuietWhileLanding
  <2> SUFFICES ASSUME QuietInv, MutualExclusion, NEW m \in Merge, MayLand(m),
                      NEW h \in Held, <<h, m>> \in Conflicting
               PROVE  state[m] = "HELD" /\ h = m
    BY DEF QuietWhileLanding, QuietInv, ReservedWhileLanding
  <2>1. state[m] = "HELD" /\ m \in Held
    BY MergesStandAlone DEF QuietInv, ReservedWhileLanding, Held
  <2>2. h # Parent[m] /\ m # Parent[h]
    BY MergesStandAlone, NoParentAssumption DEF Stages, Held
  <2>3. QED
    BY <2>1, <2>2 DEF MutualExclusion
<1>4. QED
  BY <1>1, <1>2, <1>3, MergesUseOperationLocks, LockTypeCorrect, MergeTypeCorrect,
     MutualExclusionHolds, PTL DEF MergeSpec
===============================================================================
