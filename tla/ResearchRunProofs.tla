--------------------------- MODULE ResearchRunProofs ---------------------------
(***************************************************************************)
(* Machine-checked proofs about ResearchRun, for any number of users,      *)
(* runs, requests and workers and any number of faults.                    *)
(***************************************************************************)
EXTENDS ResearchRun, FiniteSetTheorems, TLAPS

(***************************************************************************)
(* Type correctness.  A request that has been admitted names a run, a      *)
(* message on the broker belongs to an admitted request, and a busy worker *)
(* holds a message: without Linked the rows that the actions touch could   *)
(* not be shown to exist.                                                  *)
(***************************************************************************)
Linked ==
    /\ \A p \in Requests : rpc[p] # "idle" => target[p] \in Runs
    /\ \A p \in Requests : at[p] # "unsent" => rpc[p] # "idle"
    /\ \A w \in Workers : wpc[w] # "idle" => job[w] \in Requests /\ at[job[w]] # "unsent"

TypeInv == TypeOK /\ Linked

LEMMA TypeInit == Init => TypeInv
  BY ResearchRunAssumption
  DEF Init, TypeInv, TypeOK, Linked, Statuses, Active, Terminal, Dispatch, NoDispatch, NoRow, EventTypes

\* What the helpers of the actions keep.
LEMMA SetStatusType ==
  ASSUME TypeOK, NEW r, NEW s \in Statuses, SetStatus(r, s)
  PROVE  status' \in [Runs -> Statuses]
  BY DEF TypeOK, SetStatus

LEMMA AppendEventType ==
  ASSUME TypeOK, NEW r \in Runs, NEW e \in EventTypes, AppendEvent(r, e)
  PROVE  log' \in [Runs -> Seq(EventTypes)]
<1>1. Append(log[r], e) \in Seq(EventTypes)
  BY DEF TypeOK
<1>. QED
  BY <1>1 DEF TypeOK, AppendEvent

LEMMA FinishCancellationType ==
  ASSUME TypeOK, NEW r \in Runs, FinishCancellation(r)
  PROVE  status' \in [Runs -> Statuses] /\ log' \in [Runs -> Seq(EventTypes)]
<1>1. CASE status[r] = "cancelling"
  BY <1>1, SetStatusType, AppendEventType DEF FinishCancellation, Statuses, Terminal, EventTypes
<1>2. CASE status[r] # "cancelling"
  BY <1>2 DEF FinishCancellation, TypeOK
<1>. QED
  BY <1>1, <1>2

LEMMA DispatchStateType ==
  ASSUME dispatch \in [Runs -> Dispatch], NEW r,
         NEW s \in {"none", "pending", "sending", "sent", "failed"}
  PROVE  [dispatch EXCEPT ![r].state = s] \in [Runs -> Dispatch]
<1>1. CASE r \in Runs
  <2>1. [dispatch[r] EXCEPT !.state = s] \in Dispatch
    BY <1>1 DEF Dispatch
  <2>. QED
    BY <1>1, <2>1
<1>2. CASE r \notin Runs
  BY <1>2
<1>. QED
  BY <1>1, <1>2

LEMMA RecordFailureType ==
  ASSUME TypeOK, NEW p, RecordFailure(p)
  PROVE  /\ status' \in [Runs -> Statuses]
         /\ dispatchFailed' \in [Runs -> BOOLEAN]
         /\ dispatch' \in [Runs -> Dispatch]
<1>1. CASE status[target[p]] = "queued" /\ dispatch[target[p]].token = p
  <2>1. status' \in [Runs -> Statuses]
    BY <1>1, SetStatusType DEF RecordFailure, Statuses, Terminal
  <2>2. dispatchFailed' = [dispatchFailed EXCEPT ![target[p]] = TRUE]
    BY <1>1 DEF RecordFailure
  <2>3. dispatch' = [dispatch EXCEPT ![target[p]].state = "failed"]
    BY <1>1 DEF RecordFailure
  <2>4. dispatch' \in [Runs -> Dispatch]
    BY <2>3, DispatchStateType DEF TypeOK
  <2>. QED
    BY <2>1, <2>2, <2>4 DEF TypeOK
<1>2. CASE ~(status[target[p]] = "queued" /\ dispatch[target[p]].token = p)
  BY <1>2 DEF RecordFailure, TypeOK
<1>. QED
  BY <1>1, <1>2

LEMMA RunOfType ==
  ASSUME TypeInv, NEW w \in Workers, wpc[w] # "idle"
  PROVE  job[w] \in Requests /\ RunOf(w) \in Runs
  BY DEF TypeInv, TypeOK, Linked, RunOf

\* A worker's step leaves requests, messages and faults alone: it is well typed when
\* what it writes to the row is.
LEMMA WorkFrame ==
  ASSUME TypeInv, NEW w \in Workers, wpc[w] # "idle",
         NEW pc \in {"claimed", "executing", "saved", "completed", "recovered", "returning"}, Step(w, pc),
         status' \in [Runs -> Statuses], log' \in [Runs -> Seq(EventTypes)],
         dispatch' \in [Runs -> Dispatch], executionStarted' \in [Runs -> BOOLEAN],
         age' \in [Runs -> 0..RecoveryDelay], executions' \in [Runs -> Nat],
         UNCHANGED <<owner, dispatchFailed, createdToday, requestVars, brokerVars, faultVars>>
  PROVE  TypeInv'
<1>1. NoRow \in [status: Statuses, dispatch: Dispatch]
  BY DEF NoRow, NoDispatch, Statuses, Dispatch
<1>. QED
  BY <1>1 DEF TypeInv, TypeOK, Linked, Step, requestVars, brokerVars, faultVars

LEMMA TypeAdmit ==
  ASSUME TypeInv, NEW p \in Requests, Admit(p)
  PROVE  TypeInv'
<1> USE DEF TypeInv, TypeOK, Linked, Statuses, Active, Terminal, Dispatch, EventTypes, Pending,
        SetStatus, AppendEvent, rowVars, requestVars, brokerVars, workerVars, faultVars
<1>. PICK u \in Users, r \in Runs : Create(p, u, r) \/ RetryDispatch(p, u, r) \/ Reuse(p, u, r)
  BY DEF Admit
<1>1. CASE Create(p, u, r)
  BY <1>1 DEF Create
<1>2. CASE RetryDispatch(p, u, r)
  BY <1>2 DEF RetryDispatch
<1>3. CASE Reuse(p, u, r)
  BY <1>3 DEF Reuse
<1>. QED
  BY <1>1, <1>2, <1>3

LEMMA TypeDeliver ==
  ASSUME TypeInv, NEW p \in Requests, Deliver(p) \/ WebCrash(p)
  PROVE  TypeInv'
<1> USE DEF TypeInv, TypeOK, Linked, Statuses, Active, Terminal, Dispatch,
        SetStatus, rowVars, requestVars, brokerVars, workerVars, faultVars
<1>1. CASE BeginDelivery(p)
  BY <1>1, ResearchRunAssumption DEF BeginDelivery
<1>2. CASE SkipDelivery(p)
  BY <1>2 DEF SkipDelivery
<1>3. CASE PublishReaches(p)
  BY <1>3 DEF PublishReaches
<1>4. CASE PublishIsLost(p)
  BY <1>4 DEF PublishIsLost
<1>b. [dispatch EXCEPT ![target[p]].state = "sent"] \in [Runs -> Dispatch]
  BY DispatchStateType
<1>5. CASE RecordFailure(p)
  <2>1. /\ status' \in [Runs -> Statuses]
        /\ dispatchFailed' \in [Runs -> BOOLEAN]
        /\ dispatch' \in [Runs -> Dispatch]
    BY <1>5, RecordFailureType
  <2>. QED
    BY <1>5, <2>1 DEF RecordFailure
<1>6. CASE RecordSuccess(p)
  BY <1>6, <1>b DEF RecordSuccess
<1>7. CASE WebCrash(p)
  BY <1>7 DEF WebCrash
<1>. QED
  BY <1>1, <1>2, <1>3, <1>4, <1>5, <1>6, <1>7 DEF Deliver

LEMMA TypeTake ==
  ASSUME TypeInv, NEW w \in Workers, NEW p \in Requests, TakeMessage(w, p)
  PROVE  TypeInv'
<1> USE DEF TypeInv, TypeOK, Linked, Deliverable,
        rowVars, requestVars, brokerVars, workerVars, faultVars
<1>0. ASSUME NEW pc \in {"claim", "recover", "cancel"}, Deliverable(w, p), Take(w, p, pc),
             UNCHANGED <<rowVars, requestVars, faultVars>>
      PROVE  TypeInv'
  BY <1>0, ResearchRunAssumption DEF Take
<1>1. CASE TakeToExecute(w, p)
  BY <1>0, <1>1 DEF TakeToExecute
<1>2. CASE DropDuplicate(w, p)
  BY <1>2 DEF DropDuplicate
<1>3. CASE DeferRecovery(w, p)
  <2>1. /\ at' \in [Requests -> {"unsent", "queued", "acked"} \cup Workers]
        /\ redelivered' \in [Requests -> BOOLEAN]
        /\ retries' \in [Requests -> 0..MaxRetries]
        /\ \A q \in Requests : at'[q] # "unsent" <=> at[q] # "unsent"
    <3>1. CASE retries[p] < MaxRetries
      <4>1. retries[p] + 1 \in 0..MaxRetries
        BY <3>1, ResearchRunAssumption
      <4>2. retries' \in [Requests -> 0..MaxRetries]
        BY <1>3, <3>1, <4>1 DEF DeferRecovery
      <4>. QED
        BY <1>3, <3>1, <4>2 DEF DeferRecovery
    <3>2. CASE ~(retries[p] < MaxRetries)
      BY <1>3, <3>2 DEF DeferRecovery
    <3>. QED
      BY <3>1, <3>2
  <2>. QED
    BY <1>3, <2>1 DEF DeferRecovery
<1>4. CASE TakeToRecover(w, p)
  BY <1>0, <1>4 DEF TakeToRecover
<1>5. CASE TakeToFinishCancellation(w, p)
  BY <1>0, <1>5 DEF TakeToFinishCancellation
<1>. QED
  BY <1>1, <1>2, <1>3, <1>4, <1>5 DEF TakeMessage

LEMMA ReleaseType ==
  ASSUME TypeInv, NEW w \in Workers, wpc[w] # "idle",
         NEW where \in {"acked", "queued"}, Release(w, where),
         UNCHANGED <<rowVars, requestVars, retries>>, lost' \in 0..MaxLost, killed' \in 0..MaxKilled
  PROVE  TypeInv'
<1>1. job[w] \in Requests
  BY RunOfType
<1>2. NoRow \in [status: Statuses, dispatch: Dispatch]
  BY DEF NoRow, NoDispatch, Statuses, Dispatch
<1>3. /\ at' \in [Requests -> {"unsent", "queued", "acked"} \cup Workers]
      /\ redelivered' \in [Requests -> BOOLEAN]
      /\ \A p \in Requests : at'[p] # "unsent" <=> at[p] # "unsent"
  BY <1>1, ResearchRunAssumption DEF Release, TypeInv, TypeOK, Linked
<1>4. /\ wpc' \in [Workers -> {"idle", "claim", "claimed", "executing", "saved", "completed",
                              "recover", "recovered", "cancel", "returning"}]
      /\ job' \in [Workers -> Requests \cup {Nobody}]
      /\ seen' \in [Workers -> [status: Statuses, dispatch: Dispatch]]
      /\ \A v \in Workers : wpc'[v] # "idle" => v # w /\ wpc[v] # "idle" /\ job'[v] = job[v]
  BY <1>2 DEF Release, TypeInv, TypeOK
<1>5. TypeOK'
  BY <1>3, <1>4 DEF TypeInv, TypeOK, rowVars, requestVars
<1>6. Linked'
  BY <1>3, <1>4 DEF TypeInv, TypeOK, Linked, rowVars, requestVars
<1>. QED
  BY <1>5, <1>6 DEF TypeInv

LEMMA TypeWork ==
  ASSUME TypeInv, NEW w \in Workers, Work(w)
  PROVE  TypeInv'
<1> DEFINE r == RunOf(w)
<1>a. TypeOK
  BY DEF TypeInv
<1>b. {"failed", "planning", "succeeded"} \subseteq Statuses /\ {"run.failed", "run.completed"} \subseteq EventTypes
  BY DEF Statuses, Active, Terminal, EventTypes
<1>c. /\ status \in [Runs -> Statuses] /\ log \in [Runs -> Seq(EventTypes)]
      /\ dispatch \in [Runs -> Dispatch] /\ executionStarted \in [Runs -> BOOLEAN]
      /\ age \in [Runs -> 0..RecoveryDelay] /\ executions \in [Runs -> Nat]
      /\ seen[w].dispatch \in Dispatch
  BY DEF TypeInv, TypeOK
<1>d. wpc[w] # "idle" => r \in Runs
  BY RunOfType
<1> HIDE DEF r
<1> USE <1>a, <1>b, <1>c, <1>d
<1>1. CASE FinishOrphan(w)
  <2>1. status' \in [Runs -> Statuses] /\ log' \in [Runs -> Seq(EventTypes)]
    BY <1>1, FinishCancellationType DEF FinishOrphan, r
  <2>. QED
    BY <1>1, <2>1, WorkFrame DEF FinishOrphan
<1>2. CASE Recover(w)
  <2>1. status' \in [Runs -> Statuses] /\ (Step(w, "recovered") \/ Step(w, "returning"))
    BY <1>2, SetStatusType DEF Recover
  <2>. QED
    BY <1>2, <2>1, WorkFrame DEF Recover
<1>3. CASE LogRecovered(w)
  <2>1. log' \in [Runs -> Seq(EventTypes)]
    BY <1>3, AppendEventType DEF LogRecovered, r
  <2>. QED
    BY <1>3, <2>1, WorkFrame DEF LogRecovered
<1>4. CASE Claim(w)
  <2>1. CASE status[r] = "queued"
    <3>1. ClaimRow(w)
      BY <1>4, <2>1 DEF Claim, r
    <3>2. status' \in [Runs -> Statuses]
      BY <3>1, SetStatusType DEF ClaimRow
    <3>3. dispatch' \in [Runs -> Dispatch]
      BY <3>1 DEF ClaimRow
    <3>4. executionStarted' \in [Runs -> BOOLEAN]
      BY <3>1 DEF ClaimRow
    <3>5. 0 \in 0..RecoveryDelay
      BY ResearchRunAssumption
    <3>6. age' \in [Runs -> 0..RecoveryDelay]
      BY <3>1, <3>5 DEF ClaimRow
    <3>. QED
      BY <1>4, <3>1, <3>2, <3>3, <3>4, <3>6, WorkFrame DEF Claim, ClaimRow
  <2>2. CASE status[r] # "queued"
    <3>1. Step(w, "returning") /\ UNCHANGED <<status, dispatch, executionStarted, age>>
      BY <1>4, <2>2 DEF Claim, r
    <3>. QED
      BY <1>4, <3>1, WorkFrame DEF Claim
  <2>. QED
    BY <2>1, <2>2
<1>5. CASE Begin(w)
  <2>1. CASE status[r] \in {"cancelled", "cancelling"}
    <3>1. FinishCancellation(r) /\ Step(w, "returning") /\ UNCHANGED executions
      BY <1>5, <2>1 DEF Begin, r
    <3>2. status' \in [Runs -> Statuses] /\ log' \in [Runs -> Seq(EventTypes)]
      BY <1>5, <3>1, FinishCancellationType DEF Begin
    <3>. QED
      BY <1>5, <3>1, <3>2, WorkFrame DEF Begin
  <2>2. CASE status[r] \notin {"cancelled", "cancelling"}
    <3>1. /\ executions' = [executions EXCEPT ![r] = @ + 1]
          /\ Step(w, "executing") /\ UNCHANGED <<status, log>>
      BY <1>5, <2>2 DEF Begin, r
    <3>2. executions[r] + 1 \in Nat
      BY <1>5 DEF Begin
    <3>3. executions' \in [Runs -> Nat]
      BY <3>1, <3>2
    <3>. QED
      BY <1>5, <3>1, <3>3, WorkFrame DEF Begin
  <2>. QED
    BY <2>1, <2>2
<1>6. CASE SaveOutcome(w)
  <2>1. CASE status[r] \in {"cancelled", "cancelling"}
    <3>1. FinishCancellation(r) /\ Step(w, "returning")
      BY <1>6, <2>1 DEF SaveOutcome, r
    <3>2. status' \in [Runs -> Statuses] /\ log' \in [Runs -> Seq(EventTypes)]
      BY <1>6, <3>1, FinishCancellationType DEF SaveOutcome
    <3>. QED
      BY <1>6, <3>1, <3>2, WorkFrame DEF SaveOutcome
  <2>2. CASE status[r] \notin {"cancelled", "cancelling"}
    <3>1. status' \in [Runs -> Statuses] /\ Step(w, "saved") /\ UNCHANGED log
      BY <1>6, <2>2, SetStatusType DEF SaveOutcome, r
    <3>. QED
      BY <1>6, <3>1, WorkFrame DEF SaveOutcome
  <2>. QED
    BY <2>1, <2>2
<1>7. CASE LogCompleted(w)
  <2>1. log' \in [Runs -> Seq(EventTypes)]
    BY <1>7, AppendEventType DEF LogCompleted, r
  <2>. QED
    BY <1>7, <2>1, WorkFrame DEF LogCompleted
<1>8. CASE Raise(w)
  <2>1. status' \in [Runs -> Statuses] /\ log' \in [Runs -> Seq(EventTypes)]
    <3>1. CASE status[r] \in {"cancelled", "cancelling"}
      BY <1>8, <3>1, FinishCancellationType DEF Raise, r
    <3>2. CASE status[r] \notin {"cancelled", "cancelling"}
      BY <1>8, <3>2, SetStatusType, AppendEventType DEF Raise, r
    <3>. QED
      BY <3>1, <3>2
  <2>. QED
    BY <1>8, <2>1, WorkFrame DEF Raise
<1>9. CASE Return(w)
  BY <1>9, ReleaseType DEF Return, rowVars, requestVars, faultVars, TypeOK
<1>. QED
  BY <1>1, <1>2, <1>3, <1>4, <1>5, <1>6, <1>7, <1>8, <1>9 DEF Work

LEMMA TypeFault ==
  ASSUME TypeInv, NEW w \in Workers, Fault(w)
  PROVE  TypeInv'
<1>1. CASE WorkerLost(w)
  <2>1. lost' \in 0..MaxLost
    BY <1>1, ResearchRunAssumption DEF WorkerLost, TypeInv, TypeOK
  <2>. QED
    BY <1>1, <2>1, ReleaseType DEF WorkerLost, TypeInv, TypeOK
<1>2. CASE Reconnect(w)
  <2>1. lost' \in 0..MaxLost
    BY <1>2, ResearchRunAssumption DEF Reconnect, TypeInv, TypeOK
  <2>2. /\ at' \in [Requests -> {"unsent", "queued", "acked"} \cup Workers]
        /\ redelivered' \in [Requests -> BOOLEAN]
        /\ \A p \in Requests : at'[p] # "unsent" => at[p] # "unsent"
        /\ \A p \in Requests : at[p] # "unsent" => at'[p] # "unsent"
    BY <1>2, ResearchRunAssumption, RunOfType DEF Reconnect, TypeInv, TypeOK, Linked
  <2>. QED
    BY <1>2, <2>1, <2>2 DEF Reconnect, TypeInv, TypeOK, Linked, rowVars, requestVars, workerVars
<1>3. CASE HardKill(w)
  <2>1. killed' \in 0..MaxKilled /\ wpc[w] # "idle"
    BY <1>3, ResearchRunAssumption DEF HardKill, Running, TypeInv, TypeOK
  <2>. QED
    BY <1>3, <2>1, ReleaseType DEF HardKill, TypeInv, TypeOK
<1>. QED
  BY <1>1, <1>2, <1>3 DEF Fault

LEMMA TypeEnvironment ==
  ASSUME TypeInv, Midnight \/ \E r \in Runs : Cancel(r) \/ Tick(r)
  PROVE  TypeInv'
<1> USE DEF TypeInv, TypeOK, Linked, Statuses, Active, Terminal, EventTypes, SetStatus, AppendEvent,
        requestVars, brokerVars, workerVars, faultVars
<1>1. CASE Midnight
  BY <1>1 DEF Midnight
<1>2. ASSUME NEW r \in Runs, Cancel(r) PROVE TypeInv'
  <2>1. status' \in [Runs -> Statuses] /\ log' \in [Runs -> Seq(EventTypes)]
    BY <1>2, SetStatusType, AppendEventType DEF Cancel
  <2>. QED
    BY <1>2, <2>1 DEF Cancel
<1>3. ASSUME NEW r \in Runs, Tick(r) PROVE TypeInv'
  BY <1>3, ResearchRunAssumption DEF Tick
<1>. QED
  BY <1>1, <1>2, <1>3

LEMMA TypeStep == TypeInv /\ [Next]_vars => TypeInv'
<1>. SUFFICES ASSUME TypeInv, [Next]_vars PROVE TypeInv'
  OBVIOUS
<1>1. CASE UNCHANGED vars
  BY <1>1 DEF TypeInv, TypeOK, Linked, vars, rowVars, requestVars, brokerVars, workerVars, faultVars
<1>2. CASE Next
  BY <1>2, TypeAdmit, TypeDeliver, TypeTake, TypeWork, TypeFault, TypeEnvironment DEF Next
<1>. QED
  BY <1>1, <1>2

\* Every reachable state is well typed.
THEOREM TypeCorrect == Spec => []TypeOK
<1>1. Spec => []TypeInv
  BY TypeInit, TypeStep, PTL DEF Spec
<1>2. TypeInv => TypeOK
  BY DEF TypeInv
<1>. QED
  BY <1>1, <1>2, PTL

(***************************************************************************)
(* Safety.  None of the safety invariants is inductive alone.  A worker is *)
(* committed to a run once it has claimed it or decided to recover it.     *)
(* What carries the argument is that a run that may still be claimed has   *)
(* nobody committed to it, so a successful claim makes its worker the only *)
(* one; and that the two limits separate the runs that execute (age up to  *)
(* HardLimit) from the runs that are recovered (age from RecoveryDelay).   *)
(***************************************************************************)
Unclaimed(r) == status[r] \in {"absent", "queued"} \/ dispatchFailed[r]
Committed(w) == Running(w) \/ wpc[w] \in {"recover", "recovered", "cancel"}

FailedDispatchIsFailed == \A r \in Runs : dispatchFailed[r] => status[r] = "failed"
UnclaimedIsFree ==
    \A r \in Runs : Unclaimed(r) => executions[r] = 0 /\ \A w \in Workers : Committed(w) => RunOf(w) # r
ClaimedIsUnpaid == \A w \in Workers : wpc[w] = "claimed" => executions[RunOf(w)] = 0
OneExecutor ==
    \A v, w \in Workers : Running(v) /\ Running(w) /\ RunOf(v) = RunOf(w) => v = w
ExecutionIsYoung == \A w \in Workers : Running(w) => age[RunOf(w)] <= HardLimit
RecoveryIsLate ==
    \A w \in Workers : wpc[w] \in {"recover", "cancel"} => age[RunOf(w)] >= RecoveryDelay
RecoverySawPlanning == \A w \in Workers : wpc[w] = "recover" => seen[w].status = "planning"

SafetyInv ==
    /\ TypeInv
    /\ FailedDispatchIsFailed
    /\ UnclaimedIsFree
    /\ ClaimedIsUnpaid
    /\ ExecutedAtMostOnce
    /\ OneExecutor
    /\ ExecutionIsYoung
    /\ RecoveryIsLate
    /\ RecoverySawPlanning
    /\ RecoverableRows

\* A step in which no worker commits itself to a run, or changes what it is committed to.
NoNewCommitment ==
    \A w \in Workers : Committed(w)' =>
        /\ Committed(w) /\ RunOf(w)' = RunOf(w)
        /\ Running(w)' => Running(w)
        /\ wpc'[w] = "claimed" => wpc[w] = "claimed"
        /\ wpc'[w] \in {"recover", "cancel"} => wpc'[w] = wpc[w] /\ seen'[w] = seen[w]

\* A step in which no run that was claimed becomes claimable again or younger.
RowsMoveOn ==
    /\ executions' = executions
    /\ \A r \in Runs : Unclaimed(r)' => Unclaimed(r)
    /\ \A r \in Runs : ~Unclaimed(r) => age'[r] >= age[r]
    /\ \A w \in Workers : Running(w) => age'[RunOf(w)] <= HardLimit
    /\ FailedDispatchIsFailed' /\ RecoverableRows'

LEMMA CommittedRun ==
  ASSUME TypeInv, NEW w \in Workers, wpc[w] # "idle"
  PROVE  job[w] \in Requests /\ rpc[job[w]] # "idle" /\ RunOf(w) \in Runs
  BY DEF TypeInv, TypeOK, Linked, RunOf

LEMMA CommittedIsBusy ==
  ASSUME NEW w \in Workers, Committed(w)
  PROVE  wpc[w] # "idle"
  BY DEF Committed, Running

LEMMA QuietStep ==
  ASSUME SafetyInv, TypeInv', NoNewCommitment, RowsMoveOn
  PROVE  SafetyInv'
<1>0. \A w \in Workers : Committed(w) => RunOf(w) \in Runs /\ ~Unclaimed(RunOf(w))
  BY CommittedRun, CommittedIsBusy DEF SafetyInv, UnclaimedIsFree
<1>1. UnclaimedIsFree'
  BY DEF UnclaimedIsFree, SafetyInv, NoNewCommitment, RowsMoveOn
<1>2. ClaimedIsUnpaid'
  <2>. SUFFICES ASSUME NEW w \in Workers, wpc'[w] = "claimed" PROVE executions'[RunOf(w)'] = 0
    BY DEF ClaimedIsUnpaid
  <2>1. Committed(w)'
    BY DEF Committed, Running
  <2>. QED
    BY <2>1 DEF ClaimedIsUnpaid, SafetyInv, NoNewCommitment, RowsMoveOn
<1>3. ExecutedAtMostOnce'
  BY DEF ExecutedAtMostOnce, SafetyInv, RowsMoveOn
<1>4. OneExecutor' /\ ExecutionIsYoung'
  BY DEF Committed, OneExecutor, ExecutionIsYoung, SafetyInv, NoNewCommitment, RowsMoveOn
<1>5. RecoveryIsLate' /\ RecoverySawPlanning'
  <2>. SUFFICES ASSUME NEW w \in Workers, wpc'[w] \in {"recover", "cancel"}
                PROVE  /\ age'[RunOf(w)'] >= RecoveryDelay
                       /\ wpc'[w] = "recover" => seen'[w].status = "planning"
    BY DEF RecoveryIsLate, RecoverySawPlanning
  <2>1. Committed(w)' /\ wpc'[w] = wpc[w] /\ seen'[w] = seen[w] /\ RunOf(w)' = RunOf(w) /\ Committed(w)
    BY DEF Committed, NoNewCommitment
  <2>2. age[RunOf(w)] >= RecoveryDelay /\ (wpc[w] = "recover" => seen[w].status = "planning")
    BY <2>1 DEF SafetyInv, RecoveryIsLate, RecoverySawPlanning
  <2>3. age'[RunOf(w)] >= age[RunOf(w)]
    BY <1>0, <2>1 DEF RowsMoveOn
  <2>4. age[RunOf(w)] \in Nat /\ age'[RunOf(w)] \in Nat /\ RecoveryDelay \in Nat
    BY <1>0, <2>1, ResearchRunAssumption DEF SafetyInv, TypeInv, TypeOK
  <2>. QED
    BY <2>1, <2>2, <2>3, <2>4
<1>. QED
  BY <1>1, <1>2, <1>3, <1>4, <1>5 DEF SafetyInv, RowsMoveOn

LEMMA SafetyInit == Init => SafetyInv
  BY TypeInit, ResearchRunAssumption
  DEF Init, SafetyInv, FailedDispatchIsFailed, UnclaimedIsFree, ClaimedIsUnpaid, ExecutedAtMostOnce,
      OneExecutor, ExecutionIsYoung, RecoveryIsLate, RecoverySawPlanning, RecoverableRows,
      Committed, Running, Active

\* Requests, the user and the clock.
LEMMA SafetyAdmit ==
  ASSUME SafetyInv, TypeInv', NEW p \in Requests, Admit(p)
  PROVE  SafetyInv'
<1>. PICK u \in Users, r \in Runs : Create(p, u, r) \/ RetryDispatch(p, u, r) \/ Reuse(p, u, r)
  BY DEF Admit
<1>1. workerVars' = workerVars /\ rpc[p] = "idle" /\ target' = [target EXCEPT ![p] = r]
      /\ executions' = executions /\ age' = age
  BY DEF Create, RetryDispatch, Reuse, rowVars
<1>2. \A w \in Workers : wpc[w] # "idle" => RunOf(w)' = RunOf(w)
  BY <1>1, CommittedRun DEF RunOf, workerVars, SafetyInv, TypeInv, TypeOK
<1>3. NoNewCommitment
  BY <1>1, <1>2, CommittedIsBusy DEF NoNewCommitment, Committed, Running, workerVars
<1>4. /\ \A s \in Runs : Unclaimed(s)' => Unclaimed(s)
      /\ FailedDispatchIsFailed' /\ RecoverableRows'
  <2>. USE DEF SafetyInv, TypeInv, TypeOK, Unclaimed, FailedDispatchIsFailed, RecoverableRows, Active, SetStatus
  <2>1. CASE Create(p, u, r)
    BY <2>1 DEF Create
  <2>2. CASE RetryDispatch(p, u, r)
    BY <2>2 DEF RetryDispatch
  <2>3. CASE Reuse(p, u, r)
    BY <2>3 DEF Reuse, rowVars
  <2>. QED
    BY <2>1, <2>2, <2>3
<1>5. RowsMoveOn
  BY <1>1, <1>4 DEF RowsMoveOn, SafetyInv, ExecutionIsYoung, TypeInv, TypeOK
<1>. QED
  BY <1>3, <1>5, QuietStep

LEMMA WorkersUntouched ==
  ASSUME UNCHANGED <<workerVars, target>>
  PROVE  NoNewCommitment
  BY DEF NoNewCommitment, Committed, Running, RunOf, workerVars

LEMMA SafetyDeliver ==
  ASSUME SafetyInv, TypeInv', NEW p \in Requests, Deliver(p) \/ WebCrash(p)
  PROVE  SafetyInv'
<1>1. NoNewCommitment /\ executions' = executions
  BY WorkersUntouched
  DEF Deliver, BeginDelivery, SkipDelivery, PublishReaches, PublishIsLost, RecordFailure, RecordSuccess,
      WebCrash, rowVars
<1>2. CASE UNCHANGED <<status, dispatchFailed, executionStarted, age>>
  <2>1. RowsMoveOn
    BY <1>1, <1>2
    DEF RowsMoveOn, SafetyInv, TypeInv, TypeOK, Unclaimed, FailedDispatchIsFailed, RecoverableRows, ExecutionIsYoung
  <2>. QED
    BY <1>1, <2>1, QuietStep
<1>3. CASE BeginDelivery(p)
  <2>1. status[target[p]] = "queued" /\ age' = [age EXCEPT ![target[p]] = 0]
        /\ UNCHANGED <<status, dispatchFailed, executionStarted>>
    BY <1>3 DEF BeginDelivery, MayPublish
  <2>2. \A w \in Workers : Running(w) => RunOf(w) # target[p] /\ RunOf(w) \in Runs
    <3>. SUFFICES ASSUME NEW w \in Workers, Running(w) PROVE RunOf(w) # target[p] /\ RunOf(w) \in Runs
      OBVIOUS
    <3>1. Committed(w) /\ RunOf(w) \in Runs
      BY CommittedRun, CommittedIsBusy DEF Committed, SafetyInv
    <3>. QED
      BY <2>1, <3>1 DEF SafetyInv, UnclaimedIsFree, Unclaimed
  <2>3. \A w \in Workers : Running(w) => age'[RunOf(w)] = age[RunOf(w)]
    BY <2>1, <2>2 DEF SafetyInv, TypeInv, TypeOK
  <2>4. RowsMoveOn
    BY <1>1, <2>1, <2>3
    DEF RowsMoveOn, SafetyInv, TypeInv, TypeOK, Unclaimed, FailedDispatchIsFailed, RecoverableRows, ExecutionIsYoung
  <2>. QED
    BY <1>1, <2>4, QuietStep
<1>4. CASE RecordFailure(p)
  <2>1. UNCHANGED <<executionStarted, age>>
    BY <1>4 DEF RecordFailure
  <2>2. CASE status[target[p]] = "queued" /\ dispatch[target[p]].token = p
    <3>1. /\ status' = [status EXCEPT ![target[p]] = "failed"]
          /\ dispatchFailed' = [dispatchFailed EXCEPT ![target[p]] = TRUE]
      BY <1>4, <2>2 DEF RecordFailure, SetStatus
    <3>2. /\ \A s \in Runs : Unclaimed(s)' => Unclaimed(s)
          /\ FailedDispatchIsFailed' /\ RecoverableRows'
      BY <2>1, <2>2, <3>1 DEF SafetyInv, TypeInv, TypeOK, Unclaimed, FailedDispatchIsFailed, RecoverableRows, Active
    <3>3. RowsMoveOn
      BY <1>1, <2>1, <3>2 DEF RowsMoveOn, SafetyInv, TypeInv, TypeOK, ExecutionIsYoung
    <3>. QED
      BY <1>1, <3>3, QuietStep
  <2>3. CASE ~(status[target[p]] = "queued" /\ dispatch[target[p]].token = p)
    BY <1>2, <1>4, <2>1, <2>3 DEF RecordFailure
  <2>. QED
    BY <2>2, <2>3
<1>. QED
  BY <1>2, <1>3, <1>4
  DEF Deliver, SkipDelivery, PublishReaches, PublishIsLost, RecordSuccess, WebCrash, rowVars

LEMMA SafetyEnvironment ==
  ASSUME SafetyInv, TypeInv', Midnight \/ \E r \in Runs : Cancel(r) \/ Tick(r)
  PROVE  SafetyInv'
<1>1. NoNewCommitment /\ executions' = executions
  BY WorkersUntouched DEF Midnight, Cancel, Tick, requestVars
<1>2. CASE Midnight
  <2>1. UNCHANGED <<status, dispatchFailed, executionStarted, age>>
    BY <1>2 DEF Midnight
  <2>2. RowsMoveOn
    BY <1>1, <2>1
    DEF RowsMoveOn, SafetyInv, TypeInv, TypeOK, Unclaimed, FailedDispatchIsFailed, RecoverableRows, ExecutionIsYoung
  <2>. QED
    BY <1>1, <2>2, QuietStep
<1>3. ASSUME NEW r \in Runs, Cancel(r) PROVE SafetyInv'
  <2>1. UNCHANGED <<dispatchFailed, executionStarted, age>>
    BY <1>3 DEF Cancel
  <2>2. /\ \A s \in Runs : Unclaimed(s)' => Unclaimed(s)
        /\ FailedDispatchIsFailed' /\ RecoverableRows'
    BY <1>3 DEF Cancel, SetStatus, SafetyInv, TypeInv, TypeOK, Statuses, Active, Terminal, Unclaimed,
       FailedDispatchIsFailed, RecoverableRows
  <2>3. RowsMoveOn
    BY <1>1, <2>1, <2>2 DEF RowsMoveOn, SafetyInv, TypeInv, TypeOK, ExecutionIsYoung
  <2>. QED
    BY <1>1, <2>3, QuietStep
<1>4. ASSUME NEW r \in Runs, Tick(r) PROVE SafetyInv'
  <2>1. UNCHANGED <<status, dispatchFailed, executionStarted>> /\ age' = [age EXCEPT ![r] = @ + 1]
        /\ (RunningOn(r) => age[r] < HardLimit)
    BY <1>4 DEF Tick
  <2>2. \A w \in Workers : Running(w) => age'[RunOf(w)] <= HardLimit
    <3>. SUFFICES ASSUME NEW w \in Workers, Running(w) PROVE age'[RunOf(w)] <= HardLimit
      OBVIOUS
    <3>a. Committed(w)
      BY DEF Committed
    <3>b. RunOf(w) \in Runs
      BY <3>a, CommittedRun, CommittedIsBusy DEF SafetyInv
    <3>1. RunOf(w) \in Runs /\ age[RunOf(w)] \in Nat /\ age[RunOf(w)] <= HardLimit
      BY <3>b DEF SafetyInv, ExecutionIsYoung, TypeInv, TypeOK
    <3>2. RunOf(w) = r => age[r] < HardLimit
      BY <2>1 DEF RunningOn
    <3>. QED
      BY <2>1, <3>1, <3>2, ResearchRunAssumption DEF SafetyInv, TypeInv, TypeOK
  <2>3. RowsMoveOn
    BY <1>1, <2>1, <2>2
    DEF RowsMoveOn, SafetyInv, TypeInv, TypeOK, Unclaimed, FailedDispatchIsFailed, RecoverableRows
  <2>. QED
    BY <1>1, <2>3, QuietStep
<1>. QED
  BY <1>2, <1>3, <1>4

\* Taking a message for recovery commits the worker to a claimed run that is old.
LEMMA SafetyTakeToRecover ==
  ASSUME SafetyInv, TypeInv', NEW w \in Workers, NEW p \in Requests,
         TakeToRecover(w, p) \/ TakeToFinishCancellation(w, p)
  PROVE  SafetyInv'
<1> DEFINE r == target[p]
<1>1. /\ wpc[w] = "idle" /\ at[p] # "unsent"
      /\ status[r] \in Active /\ age[r] >= RecoveryDelay
      /\ job' = [job EXCEPT ![w] = p] /\ UNCHANGED <<rowVars, requestVars>>
  BY DEF TakeToRecover, TakeToFinishCancellation, Deliverable, NeedsRecovery, Take
<1>2. /\ wpc'[w] \in {"recover", "cancel"} /\ wpc' = [wpc EXCEPT ![w] = wpc'[w]]
      /\ wpc'[w] = "recover" => seen'[w].status = "planning"
      /\ \A v \in Workers : v # w => seen'[v] = seen[v]
  BY DEF TakeToRecover, TakeToFinishCancellation, Deliverable, NeedsRecovery, Active, Take, SafetyInv, TypeInv, TypeOK
<1>3. r \in Runs /\ ~Unclaimed(r)
  BY <1>1 DEF SafetyInv, TypeInv, TypeOK, Linked, FailedDispatchIsFailed, Unclaimed, Active
<1>4. \A v \in Workers : v # w => /\ (Committed(v)' <=> Committed(v)) /\ (Running(v)' <=> Running(v))
                                  /\ wpc'[v] = wpc[v] /\ RunOf(v)' = RunOf(v)
  BY <1>1, <1>2 DEF Committed, Running, RunOf, requestVars, SafetyInv, TypeInv, TypeOK
<1>5. ~Running(w)' /\ wpc'[w] # "claimed" /\ RunOf(w)' = r
  BY <1>1, <1>2 DEF Running, RunOf, requestVars, SafetyInv, TypeInv, TypeOK
<1>6. UnclaimedIsFree'
  BY <1>1, <1>3, <1>4, <1>5 DEF UnclaimedIsFree, Unclaimed, SafetyInv, rowVars
<1>7. FailedDispatchIsFailed' /\ ExecutedAtMostOnce' /\ RecoverableRows'
  BY <1>1 DEF FailedDispatchIsFailed, ExecutedAtMostOnce, RecoverableRows, SafetyInv, rowVars
<1>8. ClaimedIsUnpaid' /\ OneExecutor' /\ ExecutionIsYoung'
  BY <1>1, <1>4, <1>5 DEF ClaimedIsUnpaid, OneExecutor, ExecutionIsYoung, SafetyInv, rowVars
<1>9. RecoveryIsLate' /\ RecoverySawPlanning'
  BY <1>1, <1>2, <1>4, <1>5 DEF RecoveryIsLate, RecoverySawPlanning, SafetyInv, rowVars
<1>. QED
  BY <1>6, <1>7, <1>8, <1>9 DEF SafetyInv

LEMMA SafetyTake ==
  ASSUME SafetyInv, TypeInv', NEW w \in Workers, NEW p \in Requests, TakeMessage(w, p)
  PROVE  SafetyInv'
<1>1. CASE TakeToRecover(w, p) \/ TakeToFinishCancellation(w, p)
  BY <1>1, SafetyTakeToRecover
<1>2. CASE TakeToExecute(w, p) \/ DropDuplicate(w, p) \/ DeferRecovery(w, p)
  <2>1. UNCHANGED <<rowVars, requestVars>>
    BY <1>2 DEF TakeToExecute, DropDuplicate, DeferRecovery
  <2>2. \A v \in Workers : \/ wpc'[v] = wpc[v] /\ job'[v] = job[v] /\ seen'[v] = seen[v]
                           \/ wpc'[v] = "claim"
    BY <1>2 DEF TakeToExecute, DropDuplicate, DeferRecovery, Take, workerVars, SafetyInv, TypeInv, TypeOK
  <2>3. NoNewCommitment
    BY <2>1, <2>2 DEF NoNewCommitment, Committed, Running, RunOf, requestVars
  <2>4. RowsMoveOn
    BY <2>1 DEF RowsMoveOn, SafetyInv, TypeInv, TypeOK, Unclaimed, FailedDispatchIsFailed, RecoverableRows,
       ExecutionIsYoung, rowVars
  <2>. QED
    BY <2>3, <2>4, QuietStep
<1>. QED
  BY <1>1, <1>2 DEF TakeMessage

(***************************************************************************)
(* The steps of a worker.                                                  *)
(***************************************************************************)
LEMMA StepIsLocal ==
  ASSUME TypeInv, NEW w \in Workers, wpc[w] # "idle", NEW pc, Step(w, pc), UNCHANGED requestVars
  PROVE  /\ wpc'[w] = pc
         /\ \A v \in Workers : RunOf(v)' = RunOf(v)
         /\ \A v \in Workers : v # w => wpc'[v] = wpc[v] /\ seen'[v] = seen[v]
  BY DEF Step, RunOf, requestVars, TypeInv, TypeOK

\* A committed worker that finishes, logs or lets go of its run writes only a status
\* that no claim accepts.
LEMMA CommittedStep ==
  ASSUME SafetyInv, TypeInv', NEW w \in Workers, Committed(w),
         NEW pc \in {"executing", "saved", "completed", "recovered", "returning"}, Step(w, pc),
         Running(w) \/ pc \in {"recovered", "returning"},
         \/ status' = status
         \/ \E s \in Terminal : SetStatus(RunOf(w), s),
         UNCHANGED <<executions, dispatchFailed, executionStarted, age, requestVars>>
  PROVE  SafetyInv'
<1>1. wpc[w] # "idle" /\ RunOf(w) \in Runs /\ ~Unclaimed(RunOf(w))
  BY CommittedRun, CommittedIsBusy DEF SafetyInv, UnclaimedIsFree
<1>2. NoNewCommitment
  BY <1>1, StepIsLocal DEF NoNewCommitment, Committed, Running, SafetyInv
<1>3. \A r \in Runs : status'[r] = status[r] \/ (r = RunOf(w) /\ status'[r] \in Terminal)
  BY <1>1 DEF SetStatus, SafetyInv, TypeInv, TypeOK
<1>4. /\ \A r \in Runs : Unclaimed(r)' => Unclaimed(r)
      /\ FailedDispatchIsFailed' /\ RecoverableRows'
  BY <1>1, <1>3 DEF SafetyInv, Unclaimed, FailedDispatchIsFailed, RecoverableRows, Active, Terminal
<1>5. RowsMoveOn
  BY <1>4 DEF RowsMoveOn, SafetyInv, TypeInv, TypeOK, ExecutionIsYoung
<1>. QED
  BY <1>2, <1>5, QuietStep

\* The claim: nobody was committed to a queued run, so its worker is now the only one.
LEMMA SafetyClaim ==
  ASSUME SafetyInv, TypeInv', NEW w \in Workers, Claim(w), status[RunOf(w)] = "queued"
  PROVE  SafetyInv'
<1> DEFINE r == RunOf(w)
<1>1. /\ ClaimRow(w) /\ Step(w, "claimed") /\ wpc[w] # "idle" /\ r \in Runs
      /\ UNCHANGED <<dispatchFailed, executions, requestVars>>
  BY CommittedRun DEF Claim, ClaimRow, SafetyInv
<1>2. /\ wpc'[w] = "claimed" /\ \A v \in Workers : RunOf(v)' = RunOf(v)
      /\ \A v \in Workers : v # w => wpc'[v] = wpc[v] /\ seen'[v] = seen[v]
  BY <1>1, StepIsLocal DEF SafetyInv
<1>3. /\ status' = [status EXCEPT ![r] = "planning"] /\ age' = [age EXCEPT ![r] = 0]
      /\ executionStarted' = [executionStarted EXCEPT ![r] = TRUE]
  BY <1>1 DEF ClaimRow, SetStatus
<1>4. Unclaimed(r) /\ ~dispatchFailed[r]
  BY <1>1 DEF Unclaimed, SafetyInv, FailedDispatchIsFailed
<1>5. executions[r] = 0 /\ \A v \in Workers : Committed(v) => RunOf(v) # r
  BY <1>1, <1>4 DEF SafetyInv, UnclaimedIsFree
<1>6. \A v \in Workers : v # w => (Committed(v)' <=> Committed(v)) /\ (Running(v)' <=> Running(v))
  BY <1>2 DEF Committed, Running
<1>7. \A v \in Workers : v # w /\ Committed(v) => age'[RunOf(v)] = age[RunOf(v)]
  BY <1>3, <1>5, CommittedRun, CommittedIsBusy DEF SafetyInv, TypeInv, TypeOK
<1>8. \A s \in Runs : Unclaimed(s)' => Unclaimed(s) /\ s # r
  BY <1>1, <1>3, <1>4 DEF Unclaimed, SafetyInv, TypeInv, TypeOK
<1>9. UnclaimedIsFree'
  BY <1>1, <1>2, <1>6, <1>8 DEF UnclaimedIsFree, SafetyInv
<1>10. FailedDispatchIsFailed' /\ RecoverableRows'
  BY <1>1, <1>3, <1>4 DEF FailedDispatchIsFailed, RecoverableRows, SafetyInv, TypeInv, TypeOK
<1>11. ClaimedIsUnpaid' /\ ExecutedAtMostOnce'
  BY <1>1, <1>2, <1>5 DEF ClaimedIsUnpaid, ExecutedAtMostOnce, SafetyInv
<1>12. OneExecutor'
  BY <1>2, <1>5, <1>6 DEF OneExecutor, Committed, SafetyInv
<1>13. ExecutionIsYoung'
  <2>1. age'[r] = 0
    BY <1>1, <1>3 DEF SafetyInv, TypeInv, TypeOK
  <2>. QED
    BY <1>2, <1>6, <1>7, <2>1, ResearchRunAssumption DEF ExecutionIsYoung, Committed, SafetyInv
<1>14. RecoveryIsLate' /\ RecoverySawPlanning'
  BY <1>2, <1>7 DEF RecoveryIsLate, RecoverySawPlanning, Committed, SafetyInv
<1>. QED
  BY <1>9, <1>10, <1>11, <1>12, <1>13, <1>14 DEF SafetyInv

\* The start of the paid work: only the worker that claimed the run gets here.
LEMMA SafetyBegin ==
  ASSUME SafetyInv, TypeInv', NEW w \in Workers, Begin(w), status[RunOf(w)] \notin {"cancelled", "cancelling"}
  PROVE  SafetyInv'
<1> DEFINE r == RunOf(w)
<1>1. /\ wpc[w] = "claimed" /\ Step(w, "executing") /\ r \in Runs
      /\ executions' = [executions EXCEPT ![r] = @ + 1]
      /\ UNCHANGED <<status, dispatchFailed, executionStarted, age, requestVars>>
  BY CommittedRun DEF Begin, SafetyInv
<1>2. /\ wpc'[w] = "executing" /\ \A v \in Workers : RunOf(v)' = RunOf(v)
      /\ \A v \in Workers : v # w => wpc'[v] = wpc[v] /\ seen'[v] = seen[v]
  BY <1>1, StepIsLocal DEF SafetyInv
<1>3. Running(w) /\ Committed(w) /\ executions[r] = 0 /\ ~Unclaimed(r)
  BY <1>1 DEF Running, Committed, SafetyInv, ClaimedIsUnpaid, UnclaimedIsFree
<1>4. \A v \in Workers : (Committed(v)' <=> Committed(v)) /\ (Running(v)' <=> Running(v))
  BY <1>1, <1>2 DEF Committed, Running
<1>5. \A s \in Runs : Unclaimed(s)' = Unclaimed(s)
  BY <1>1 DEF Unclaimed
<1>6. executions'[r] = 1 /\ \A s \in Runs : s # r => executions'[s] = executions[s]
  BY <1>1, <1>3 DEF SafetyInv, TypeInv, TypeOK
<1>7. UnclaimedIsFree'
  BY <1>2, <1>3, <1>4, <1>5, <1>6 DEF UnclaimedIsFree, SafetyInv
<1>8. ExecutedAtMostOnce'
  BY <1>6 DEF ExecutedAtMostOnce, SafetyInv
<1>9. ClaimedIsUnpaid'
  <2>. SUFFICES ASSUME NEW v \in Workers, wpc'[v] = "claimed" PROVE executions'[RunOf(v)'] = 0
    BY DEF ClaimedIsUnpaid
  <2>1. v # w /\ wpc[v] = "claimed" /\ Running(v) /\ RunOf(v)' = RunOf(v) /\ RunOf(v) \in Runs
    BY <1>2, CommittedRun DEF Running, SafetyInv
  <2>2. RunOf(v) # r
    BY <1>3, <2>1 DEF OneExecutor, SafetyInv
  <2>. QED
    BY <1>6, <2>1, <2>2 DEF ClaimedIsUnpaid, SafetyInv
<1>10. OneExecutor' /\ ExecutionIsYoung' /\ FailedDispatchIsFailed' /\ RecoverableRows'
  BY <1>1, <1>2, <1>4 DEF OneExecutor, ExecutionIsYoung, FailedDispatchIsFailed, RecoverableRows, SafetyInv
<1>11. RecoveryIsLate' /\ RecoverySawPlanning'
  BY <1>1, <1>2 DEF RecoveryIsLate, RecoverySawPlanning, SafetyInv
<1>. QED
  BY <1>7, <1>8, <1>9, <1>10, <1>11 DEF SafetyInv

\* A worker that lets go of its message, in whatever way.
LEMMA SafetyRelease ==
  ASSUME SafetyInv, TypeInv', NEW w \in Workers, NEW where, Release(w, where), UNCHANGED <<rowVars, requestVars>>
  PROVE  SafetyInv'
<1>1. \A v \in Workers : \/ wpc'[v] = "idle"
                         \/ wpc'[v] = wpc[v] /\ job'[v] = job[v] /\ seen'[v] = seen[v]
  BY DEF Release, SafetyInv, TypeInv, TypeOK
<1>2. NoNewCommitment
  BY <1>1 DEF NoNewCommitment, Committed, Running, RunOf, requestVars
<1>3. RowsMoveOn
  BY DEF RowsMoveOn, SafetyInv, TypeInv, TypeOK, Unclaimed, FailedDispatchIsFailed, RecoverableRows,
     ExecutionIsYoung, rowVars
<1>. QED
  BY <1>2, <1>3, QuietStep

LEMMA SafetyWork ==
  ASSUME SafetyInv, TypeInv', NEW w \in Workers, Work(w)
  PROVE  SafetyInv'
<1> DEFINE r == RunOf(w)
<1>0. \A s : FinishCancellation(s) => status' = status \/ SetStatus(s, "cancelled")
  BY DEF FinishCancellation
<1>t. {"failed", "succeeded", "cancelled"} \subseteq Terminal
  BY DEF Terminal
<1>1. CASE FinishOrphan(w)
  BY <1>0, <1>1, <1>t, CommittedStep DEF FinishOrphan, Committed
<1>2. CASE Recover(w)
  BY <1>2, <1>t, CommittedStep DEF Recover, Committed
<1>3. CASE LogRecovered(w)
  BY <1>3, CommittedStep DEF LogRecovered, Committed
<1>4. CASE Claim(w)
  <2>1. CASE status[r] # "queued"
    <3>1. wpc[w] # "idle" /\ Step(w, "returning") /\ UNCHANGED <<rowVars, requestVars>>
      BY <1>4, <2>1 DEF Claim, rowVars
    <3>2. NoNewCommitment
      BY <3>1, StepIsLocal DEF NoNewCommitment, Committed, Running, SafetyInv
    <3>3. RowsMoveOn
      BY <3>1 DEF RowsMoveOn, SafetyInv, TypeInv, TypeOK, Unclaimed, FailedDispatchIsFailed, RecoverableRows,
         ExecutionIsYoung, rowVars
    <3>. QED
      BY <3>2, <3>3, QuietStep
  <2>. QED
    BY <1>4, <2>1, SafetyClaim
<1>5. CASE Begin(w)
  <2>1. CASE status[r] \in {"cancelled", "cancelling"}
    BY <1>0, <1>5, <1>t, <2>1, CommittedStep DEF Begin, Committed, Running
  <2>. QED
    BY <1>5, <2>1, SafetyBegin
<1>6. CASE SaveOutcome(w)
  <2>1. CASE status[r] \in {"cancelled", "cancelling"}
    BY <1>0, <1>6, <1>t, <2>1, CommittedStep DEF SaveOutcome, Committed, Running
  <2>2. CASE status[r] \notin {"cancelled", "cancelling"}
    BY <1>6, <1>t, <2>2, CommittedStep DEF SaveOutcome, Committed, Running
  <2>. QED
    BY <2>1, <2>2
<1>7. CASE LogCompleted(w)
  BY <1>7, CommittedStep DEF LogCompleted, Committed, Running
<1>8. CASE Raise(w)
  BY <1>0, <1>8, <1>t, CommittedStep DEF Raise, Committed, Running
<1>9. CASE Return(w)
  BY <1>9, SafetyRelease DEF Return
<1>. QED
  BY <1>1, <1>2, <1>3, <1>4, <1>5, <1>6, <1>7, <1>8, <1>9 DEF Work

LEMMA SafetyFault ==
  ASSUME SafetyInv, TypeInv', NEW w \in Workers, Fault(w)
  PROVE  SafetyInv'
<1>1. CASE WorkerLost(w) \/ HardKill(w)
  BY <1>1, SafetyRelease DEF WorkerLost, HardKill
<1>2. CASE Reconnect(w)
  <2>1. NoNewCommitment
    BY <1>2, WorkersUntouched DEF Reconnect, requestVars
  <2>2. RowsMoveOn
    BY <1>2 DEF Reconnect, RowsMoveOn, SafetyInv, TypeInv, TypeOK, Unclaimed, FailedDispatchIsFailed,
       RecoverableRows, ExecutionIsYoung, rowVars
  <2>. QED
    BY <2>1, <2>2, QuietStep
<1>. QED
  BY <1>1, <1>2 DEF Fault

LEMMA SafetyStep == SafetyInv /\ [Next]_vars => SafetyInv'
<1>. SUFFICES ASSUME SafetyInv, [Next]_vars PROVE SafetyInv'
  OBVIOUS
<1>1. TypeInv'
  BY TypeStep DEF SafetyInv
<1>2. CASE UNCHANGED vars
  <2>1. NoNewCommitment
    BY <1>2, WorkersUntouched DEF vars, requestVars
  <2>2. RowsMoveOn
    BY <1>2 DEF vars, RowsMoveOn, SafetyInv, TypeInv, TypeOK, Unclaimed, FailedDispatchIsFailed,
       RecoverableRows, ExecutionIsYoung, rowVars
  <2>. QED
    BY <1>1, <2>1, <2>2, QuietStep
<1>3. CASE Next
  BY <1>1, <1>3, SafetyAdmit, SafetyDeliver, SafetyTake, SafetyWork, SafetyFault, SafetyEnvironment DEF Next
<1>. QED
  BY <1>2, <1>3

LEMMA SafetyInvariant == Spec => []SafetyInv
  BY SafetyInit, SafetyStep, PTL DEF Spec

\* The paid graph is started at most once for a run (tasks.py: "Never repeat an
\* uncertain paid operation").
THEOREM AtMostOneExecution == Spec => []ExecutedAtMostOnce
<1>1. SafetyInv => ExecutedAtMostOnce
  BY DEF SafetyInv
<1>. QED
  BY <1>1, SafetyInvariant, PTL

\* A run in the queue, or reported as not dispatched, is neither paid for nor at work.
THEOREM UnclaimedRunsAreIdle == Spec => []UnclaimedNotExecuted
<1>1. SafetyInv => UnclaimedNotExecuted
  BY DEF SafetyInv, UnclaimedIsFree, UnclaimedNotExecuted, Unclaimed, Committed, RunningOn
<1>. QED
  BY <1>1, SafetyInvariant, PTL

\* HardLimit < RecoveryDelay keeps recovery away from a run that is still executing.
THEOREM RecoveryWaitsForExecution == Spec => []NoRecoveryWhileRunning
<1>1. SafetyInv => NoRecoveryWhileRunning
  <2>. SUFFICES ASSUME SafetyInv, NEW v \in Workers, NEW w \in Workers,
                       Running(v), wpc[w] \in {"recover", "cancel"}
                PROVE  RunOf(v) # RunOf(w)
    BY DEF NoRecoveryWhileRunning
  <2>1. age[RunOf(v)] <= HardLimit /\ age[RunOf(w)] >= RecoveryDelay
    BY DEF SafetyInv, ExecutionIsYoung, RecoveryIsLate
  <2>2. RunOf(v) \in Runs /\ age[RunOf(v)] \in Nat
    BY CommittedRun, CommittedIsBusy DEF Committed, SafetyInv, TypeInv, TypeOK
  <2>. QED
    BY <2>1, <2>2, ResearchRunAssumption
<1>. QED
  BY <1>1, SafetyInvariant, PTL

\* Every claimed run can be recovered when its worker is lost.
THEOREM ClaimedRunsAreRecoverable == Spec => []RecoverableRows
<1>1. SafetyInv => RecoverableRows
  BY DEF SafetyInv
<1>. QED
  BY <1>1, SafetyInvariant, PTL

(***************************************************************************)
(* A requested cancellation is honoured: whoever writes the row reads the  *)
(* status under the lock, or compares it with one that was not cancelling. *)
(***************************************************************************)
KeepsCancelling == \A r \in Runs : status[r] = "cancelling" => status'[r] \in {"cancelling", "cancelled"}

LEMMA WorkKeepsCancelling ==
  ASSUME SafetyInv, NEW w \in Workers, Work(w)
  PROVE  KeepsCancelling
<1>. USE DEF KeepsCancelling, SafetyInv, TypeInv, TypeOK, SetStatus
<1>1. \A r : FinishCancellation(r) => KeepsCancelling
  BY DEF FinishCancellation
<1>2. CASE FinishOrphan(w)
  BY <1>1, <1>2 DEF FinishOrphan
<1>3. CASE Recover(w)
  BY <1>3 DEF Recover, RecoverySawPlanning
<1>4. CASE LogRecovered(w) \/ LogCompleted(w) \/ Return(w)
  BY <1>4 DEF LogRecovered, LogCompleted, Return, rowVars
<1>5. CASE Claim(w)
  BY <1>5 DEF Claim, ClaimRow
<1>6. CASE Begin(w)
  BY <1>1, <1>6 DEF Begin
<1>7. CASE SaveOutcome(w)
  BY <1>1, <1>7 DEF SaveOutcome
<1>8. CASE Raise(w)
  BY <1>1, <1>8 DEF Raise
<1>. QED
  BY <1>2, <1>3, <1>4, <1>5, <1>6, <1>7, <1>8 DEF Work

LEMMA StepKeepsCancelling == SafetyInv /\ [Next]_vars => KeepsCancelling
<1>. SUFFICES ASSUME SafetyInv, [Next]_vars PROVE KeepsCancelling
  OBVIOUS
<1>. USE DEF KeepsCancelling, SafetyInv, TypeInv, TypeOK
<1>1. CASE UNCHANGED <<status>>
  BY <1>1
<1>2. ASSUME NEW p \in Requests, Admit(p) \/ RecordFailure(p) PROVE KeepsCancelling
  BY <1>2 DEF Admit, Create, RetryDispatch, Reuse, RecordFailure, SetStatus, rowVars
<1>3. ASSUME NEW p \in Requests, Deliver(p) \/ WebCrash(p) PROVE KeepsCancelling
  BY <1>1, <1>2, <1>3 DEF Deliver, BeginDelivery, SkipDelivery, PublishReaches, PublishIsLost, RecordSuccess,
     WebCrash, rowVars
<1>4. ASSUME NEW w \in Workers, Work(w) PROVE KeepsCancelling
  BY <1>4, WorkKeepsCancelling
<1>5. ASSUME NEW w \in Workers, (\E p \in Requests : TakeMessage(w, p)) \/ Fault(w) PROVE KeepsCancelling
  BY <1>1, <1>5 DEF TakeMessage, TakeToExecute, DropDuplicate, DeferRecovery, TakeToRecover,
     TakeToFinishCancellation, Fault, WorkerLost, Reconnect, HardKill, rowVars
<1>6. ASSUME NEW r \in Runs, Cancel(r) \/ Tick(r) PROVE KeepsCancelling
  BY <1>6 DEF Cancel, Tick, SetStatus
<1>7. CASE Midnight
  BY <1>1, <1>7 DEF Midnight
<1>8. CASE UNCHANGED vars
  BY <1>1, <1>8 DEF vars, rowVars
<1>. QED
  BY <1>2, <1>3, <1>4, <1>5, <1>6, <1>7, <1>8 DEF Next

\* No outcome, failure or recovery overwrites a requested cancellation.
THEOREM CancellationIsHonoured == Spec => CancelIsHonoured
<1>1. SafetyInv /\ [Next]_vars => [KeepsCancelling]_vars
  BY StepKeepsCancelling
<1>. QED
  BY <1>1, SafetyInvariant, PTL DEF Spec, CancelIsHonoured, KeepsCancelling

(***************************************************************************)
(* Cancellations and the log.  "run.cancelled" is appended by the very     *)
(* transaction that makes the run cancelled, and no step leaves that       *)
(* status: the recovery, the only writer that does not read the row under  *)
(* its lock, compares the status with "planning" (RecoverySawPlanning).    *)
(***************************************************************************)
Cancellations(s) == {i \in DOMAIN s : s[i] = "run.cancelled"}

\* Appending an event adds one cancellation exactly when the event is one.
LEMMA AppendCounts ==
  ASSUME NEW s \in Seq(EventTypes), NEW e \in EventTypes
  PROVE  Cardinality(Cancellations(Append(s, e)))
            = Cardinality(Cancellations(s)) + (IF e = "run.cancelled" THEN 1 ELSE 0)
<1>1. DOMAIN s = 1..Len(s) /\ Len(s) \in Nat /\ DOMAIN Append(s, e) = 1..Len(s) + 1
  OBVIOUS
<1>2. IsFiniteSet(Cancellations(s)) /\ Len(s) + 1 \notin Cancellations(s)
  <2>1. IsFiniteSet(1..Len(s))
    BY <1>1, FS_Interval
  <2>2. Cancellations(s) \subseteq 1..Len(s)
    BY <1>1 DEF Cancellations
  <2>. QED
    BY <1>1, <2>1, <2>2, FS_Subset
<1>3. Cardinality(Cancellations(s)) \in Nat
  BY <1>2, FS_CardinalityType
<1>4. \A i \in 1..Len(s) : Append(s, e)[i] = s[i]
  OBVIOUS
<1>5. Append(s, e)[Len(s) + 1] = e
  OBVIOUS
<1>6. CASE e = "run.cancelled"
  <2>1. Cancellations(Append(s, e)) = Cancellations(s) \cup {Len(s) + 1}
    BY <1>1, <1>4, <1>5, <1>6 DEF Cancellations
  <2>. QED
    BY <1>2, <1>6, <2>1, FS_AddElement
<1>7. CASE e # "run.cancelled"
  <2>1. Cancellations(Append(s, e)) = Cancellations(s)
    BY <1>1, <1>4, <1>5, <1>7 DEF Cancellations
  <2>. QED
    BY <1>3, <1>7, <2>1
<1>. QED
  BY <1>6, <1>7

\* What one step does to a run's log and to its being cancelled.
Becomes(r) == status[r] # "cancelled" /\ status'[r] = "cancelled"
Stays(r) == status'[r] = "cancelled" <=> status[r] = "cancelled"
CancellationStep ==
    \A r \in Runs :
        \/ Stays(r) /\ log'[r] = log[r]
        \/ Stays(r) /\ \E e \in EventTypes \ {"run.cancelled"} : log'[r] = Append(log[r], e)
        \/ Becomes(r) /\ log'[r] = Append(log[r], "run.cancelled")

LEMMA OtherEvent ==
  ASSUME TypeInv, NEW r, NEW e \in EventTypes \ {"run.cancelled"}, AppendEvent(r, e), \A s \in Runs : Stays(s)
  PROVE  CancellationStep
<1>1. \A s \in Runs : log'[s] = log[s] \/ log'[s] = Append(log[s], e)
  BY DEF AppendEvent, TypeInv, TypeOK
<1>. QED
  BY <1>1 DEF CancellationStep

LEMMA WorkCancellation ==
  ASSUME SafetyInv, NEW w \in Workers, Work(w)
  PROVE  CancellationStep
<1>. USE DEF CancellationStep, Becomes, Stays, SafetyInv, TypeInv, TypeOK, SetStatus, AppendEvent, EventTypes
<1>1. \A r : FinishCancellation(r) => CancellationStep
  BY DEF FinishCancellation
<1>2. CASE FinishOrphan(w)
  BY <1>1, <1>2 DEF FinishOrphan
<1>3. CASE Recover(w)
  BY <1>3 DEF Recover, RecoverySawPlanning
<1>4. CASE LogRecovered(w)
  BY <1>4, OtherEvent DEF LogRecovered
<1>5. CASE LogCompleted(w)
  BY <1>5, OtherEvent DEF LogCompleted
<1>6. CASE Return(w)
  BY <1>6 DEF Return, rowVars
<1>7. CASE Claim(w)
  BY <1>7 DEF Claim, ClaimRow
<1>8. CASE Begin(w)
  BY <1>1, <1>8 DEF Begin
<1>9. CASE SaveOutcome(w)
  BY <1>1, <1>9 DEF SaveOutcome
<1>10. CASE Raise(w)
  <2>1. CASE status[RunOf(w)] \in {"cancelled", "cancelling"}
    BY <1>1, <1>10, <2>1 DEF Raise
  <2>2. CASE status[RunOf(w)] \notin {"cancelled", "cancelling"}
    <3>1. SetStatus(RunOf(w), "failed") /\ AppendEvent(RunOf(w), "run.failed")
      BY <1>10, <2>2 DEF Raise
    <3>2. \A s \in Runs : Stays(s)
      BY <2>2, <3>1
    <3>. QED
      BY <3>1, <3>2, OtherEvent
  <2>. QED
    BY <2>1, <2>2
<1>. QED
  BY <1>2, <1>3, <1>4, <1>5, <1>6, <1>7, <1>8, <1>9, <1>10 DEF Work

LEMMA StepCancellation == SafetyInv /\ [Next]_vars => CancellationStep
<1>. SUFFICES ASSUME SafetyInv, [Next]_vars PROVE CancellationStep
  OBVIOUS
<1>. USE DEF CancellationStep, Becomes, Stays, SafetyInv, TypeInv, TypeOK, EventTypes
<1>1. CASE UNCHANGED <<status, log>>
  BY <1>1
<1>2. ASSUME NEW p \in Requests, Admit(p) \/ RecordFailure(p) PROVE CancellationStep
  <2>1. ASSUME NEW u \in Users, NEW r \in Runs, Create(p, u, r) PROVE CancellationStep
    <3>1. AppendEvent(r, "run.created") /\ \A s \in Runs : Stays(s)
      BY <2>1 DEF Create, SetStatus
    <3>. QED
      BY <3>1, OtherEvent
  <2>2. ASSUME NEW u \in Users, NEW r \in Runs, RetryDispatch(p, u, r) \/ Reuse(p, u, r) PROVE CancellationStep
    BY <2>2 DEF RetryDispatch, Reuse, SetStatus, rowVars
  <2>3. CASE RecordFailure(p)
    BY <2>3 DEF RecordFailure, SetStatus
  <2>. QED
    BY <1>2, <2>1, <2>2, <2>3 DEF Admit
<1>3. ASSUME NEW p \in Requests, Deliver(p) \/ WebCrash(p) PROVE CancellationStep
  BY <1>1, <1>2, <1>3 DEF Deliver, BeginDelivery, SkipDelivery, PublishReaches, PublishIsLost, RecordSuccess,
     WebCrash, rowVars
<1>4. ASSUME NEW w \in Workers, Work(w) PROVE CancellationStep
  BY <1>4, WorkCancellation
<1>5. ASSUME NEW w \in Workers, (\E p \in Requests : TakeMessage(w, p)) \/ Fault(w) PROVE CancellationStep
  BY <1>1, <1>5 DEF TakeMessage, TakeToExecute, DropDuplicate, DeferRecovery, TakeToRecover,
     TakeToFinishCancellation, Fault, WorkerLost, Reconnect, HardKill, rowVars
<1>6. ASSUME NEW r \in Runs, Cancel(r) \/ Tick(r) PROVE CancellationStep
  <2>1. CASE Cancel(r) /\ status[r] = "queued"
    BY <2>1 DEF Cancel, SetStatus, AppendEvent
  <2>2. CASE Cancel(r) /\ status[r] # "queued"
    <3>1. AppendEvent(r, "run.cancel.requested") /\ \A s \in Runs : Stays(s)
      BY <2>2 DEF Cancel, SetStatus, Terminal
    <3>. QED
      BY <3>1, OtherEvent
  <2>3. CASE Tick(r)
    BY <2>3 DEF Tick
  <2>. QED
    BY <1>6, <2>1, <2>2, <2>3
<1>7. CASE Midnight
  BY <1>1, <1>7 DEF Midnight
<1>8. CASE UNCHANGED vars
  BY <1>1, <1>8 DEF vars, rowVars
<1>. QED
  BY <1>2, <1>3, <1>4, <1>5, <1>6, <1>7, <1>8 DEF Next

\* The log names a cancellation once, and exactly when the run is cancelled.
THEOREM CancellationsAreRecorded == Spec => []CancellationRecorded
<1>1. Init => CancellationRecorded
  <2>. SUFFICES ASSUME Init, NEW r \in Runs
                PROVE  Cardinality(Cancellations(log[r])) = (IF status[r] = "cancelled" THEN 1 ELSE 0)
    BY DEF CancellationRecorded, Cancellations
  <2>1. Cancellations(log[r]) = {} /\ status[r] = "absent"
    BY DEF Init, Cancellations
  <2>. QED
    BY <2>1, FS_EmptySet
<1>2. SafetyInv /\ CancellationRecorded /\ [Next]_vars => CancellationRecorded'
  <2>. SUFFICES ASSUME SafetyInv, CancellationRecorded, CancellationStep, NEW r \in Runs
                PROVE  Cardinality(Cancellations(log'[r])) = (IF status'[r] = "cancelled" THEN 1 ELSE 0)
    BY StepCancellation DEF CancellationRecorded, Cancellations
  <2>1. Cardinality(Cancellations(log[r])) = (IF status[r] = "cancelled" THEN 1 ELSE 0)
    BY DEF CancellationRecorded, Cancellations
  <2>2. log[r] \in Seq(EventTypes)
    BY DEF SafetyInv, TypeInv, TypeOK
  <2>3. CASE Stays(r) /\ log'[r] = log[r]
    BY <2>1, <2>3 DEF Stays
  <2>4. ASSUME NEW e \in EventTypes \ {"run.cancelled"}, Stays(r), log'[r] = Append(log[r], e)
        PROVE  Cardinality(Cancellations(log'[r])) = (IF status'[r] = "cancelled" THEN 1 ELSE 0)
    <3>1. Cardinality(Cancellations(Append(log[r], e))) = Cardinality(Cancellations(log[r])) + 0
      BY <2>2, <2>4, AppendCounts
    <3>. QED
      BY <2>1, <2>4, <3>1 DEF Stays
  <2>5. CASE Becomes(r) /\ log'[r] = Append(log[r], "run.cancelled")
    <3>1. "run.cancelled" \in EventTypes
      BY DEF EventTypes
    <3>2. Cardinality(Cancellations(Append(log[r], "run.cancelled"))) = Cardinality(Cancellations(log[r])) + 1
      BY <2>2, <3>1, AppendCounts
    <3>. QED
      BY <2>1, <2>5, <3>2 DEF Becomes
  <2>. QED
    BY <2>3, <2>4, <2>5 DEF CancellationStep
<1>. QED
  BY <1>1, <1>2, SafetyInvariant, PTL DEF Spec

(***************************************************************************)
(* The quotas.  Only an admission adds a run to what an owner's quota      *)
(* counts, one run at a time, and it has counted under the owner's lock;   *)
(* every other step keeps the counted sets or shrinks them.  A failed      *)
(* dispatch is not counted, so that its retry counts again.                *)
(***************************************************************************)
Alive(u) == {r \in Runs : owner[r] = u /\ status[r] \in {"queued"} \cup Active}
Today(u) == Owned(u) \cap createdToday

\* A count below the limit leaves room for one more element.
LEMMA RoomForOne ==
  ASSUME NEW S, NEW T, NEW x, NEW n \in Nat, IsFiniteSet(S), T \subseteq S \cup {x}, Cardinality(S) < n
  PROVE  Cardinality(T) <= n
<1>0. Cardinality(S) \in Nat /\ Cardinality(S) + 1 <= n
  BY FS_CardinalityType
<1>1. /\ IsFiniteSet(S \cup {x})
      /\ Cardinality(S \cup {x}) = Cardinality(S) \/ Cardinality(S \cup {x}) = Cardinality(S) + 1
  BY FS_AddElement
<1>2. Cardinality(T) <= Cardinality(S \cup {x}) /\ IsFiniteSet(T)
  BY <1>1, FS_Subset
<1>3. Cardinality(T) \in Nat
  BY <1>2, FS_CardinalityType
<1>. QED
  BY <1>0, <1>1, <1>2, <1>3

LEMMA NoMoreRuns ==
  ASSUME NEW S, NEW T, NEW n \in Nat, IsFiniteSet(S), T \subseteq S, Cardinality(S) <= n
  PROVE  Cardinality(T) <= n
<1>1. IsFiniteSet(T) /\ Cardinality(T) <= Cardinality(S)
  BY FS_Subset
<1>. QED
  BY <1>1, FS_CardinalityType

LEMMA CountedIsFinite == \A u : IsFiniteSet(Alive(u)) /\ IsFiniteSet(Today(u))
<1>. SUFFICES ASSUME NEW u PROVE IsFiniteSet(Alive(u)) /\ IsFiniteSet(Today(u))
  OBVIOUS
<1>1. IsFiniteSet(Runs) /\ Alive(u) \subseteq Runs /\ Today(u) \subseteq Runs
  BY ResearchRunAssumption DEF Alive, Today, Owned
<1>. QED
  BY <1>1, FS_Subset

\* What admission counts as active is every run of the owner that is alive.
LEMMA AdmissionCountsAll ==
  ASSUME FailedDispatchIsFailed, NEW u
  PROVE  Alive(u) = {r \in Owned(u) : CountsAsActive(status[r])}
  BY DEF Alive, Owned, CountsAsActive, FailedDispatchIsFailed, Active

\* A step that admits nothing.
NothingAdmitted ==
    /\ owner' = owner
    /\ createdToday' \subseteq createdToday
    /\ \A r \in Runs : dispatchFailed[r] => dispatchFailed'[r]
    /\ \A r \in Runs : status'[r] \in {"queued"} \cup Active => status[r] \in {"queued"} \cup Active

LEMMA WorkAdmitsNothing ==
  ASSUME SafetyInv, NEW w \in Workers, Work(w)
  PROVE  NothingAdmitted
<1>. USE DEF NothingAdmitted, SafetyInv, TypeInv, TypeOK, SetStatus, Active
<1>1. \A r : FinishCancellation(r) /\ UNCHANGED <<owner, createdToday, dispatchFailed>> => NothingAdmitted
  BY DEF FinishCancellation
<1>2. CASE FinishOrphan(w)
  BY <1>1, <1>2 DEF FinishOrphan
<1>3. CASE Recover(w)
  BY <1>3 DEF Recover
<1>4. CASE LogRecovered(w) \/ LogCompleted(w) \/ Return(w)
  BY <1>4 DEF LogRecovered, LogCompleted, Return, rowVars
<1>5. CASE Claim(w)
  BY <1>5 DEF Claim, ClaimRow
<1>6. CASE Begin(w)
  BY <1>1, <1>6 DEF Begin
<1>7. CASE SaveOutcome(w)
  BY <1>1, <1>7 DEF SaveOutcome
<1>8. CASE Raise(w)
  BY <1>1, <1>8 DEF Raise
<1>. QED
  BY <1>2, <1>3, <1>4, <1>5, <1>6, <1>7, <1>8 DEF Work

LEMMA OnlyAdmissionAdmits ==
  ASSUME SafetyInv, [Next]_vars
  PROVE  NothingAdmitted \/ \E p \in Requests, u \in Users, r \in Runs : Create(p, u, r) \/ RetryDispatch(p, u, r)
<1>. DEFINE Admitted == \E p \in Requests, u \in Users, r \in Runs : Create(p, u, r) \/ RetryDispatch(p, u, r)
<1>1. CASE UNCHANGED <<owner, createdToday, dispatchFailed, status>>
  BY <1>1 DEF NothingAdmitted
<1>2. ASSUME NEW p \in Requests, Admit(p) PROVE NothingAdmitted \/ Admitted
  BY <1>1, <1>2 DEF Admit, Reuse, rowVars
<1>3. ASSUME NEW p \in Requests, RecordFailure(p) PROVE NothingAdmitted
  BY <1>3 DEF RecordFailure, SetStatus, NothingAdmitted, SafetyInv, TypeInv, TypeOK, Active
<1>4. ASSUME NEW p \in Requests, Deliver(p) \/ WebCrash(p) PROVE NothingAdmitted
  <2>1. RecordFailure(p) \/ UNCHANGED <<owner, createdToday, dispatchFailed, status>>
    BY <1>4 DEF Deliver, BeginDelivery, SkipDelivery, PublishReaches, PublishIsLost, RecordSuccess,
       WebCrash, rowVars
  <2>. QED
    BY <1>3, <2>1 DEF NothingAdmitted
<1>5. ASSUME NEW w \in Workers, (\E p \in Requests : TakeMessage(w, p)) \/ Fault(w) PROVE NothingAdmitted
  <2>1. UNCHANGED <<owner, createdToday, dispatchFailed, status>>
    BY <1>5 DEF TakeMessage, TakeToExecute, DropDuplicate, DeferRecovery, TakeToRecover,
       TakeToFinishCancellation, Fault, WorkerLost, Reconnect, HardKill, rowVars
  <2>. QED
    BY <2>1 DEF NothingAdmitted
<1>6. ASSUME NEW r \in Runs, Cancel(r) \/ Tick(r) PROVE NothingAdmitted
  BY <1>6 DEF Cancel, Tick, SetStatus, NothingAdmitted, SafetyInv, TypeInv, TypeOK, Statuses, Active, Terminal
<1>7. CASE Midnight
  BY <1>7 DEF Midnight, NothingAdmitted
<1>8. CASE UNCHANGED vars
  BY <1>1, <1>8 DEF vars, rowVars
<1>. QED
  BY <1>2, <1>3, <1>4, <1>5, <1>6, <1>7, <1>8, WorkAdmitsNothing DEF Next

\* An admission adds its one run, and only to the sets of its owner.
LEMMA AdmissionAddsOne ==
  ASSUME SafetyInv, NEW p \in Requests, NEW u \in Users, NEW r \in Runs, Create(p, u, r) \/ RetryDispatch(p, u, r),
         NEW v \in Users
  PROVE  IF v = u THEN Alive(v)' \subseteq Alive(v) \cup {r} /\ Today(v)' \subseteq Today(v) \cup {r}
                  ELSE Alive(v)' \subseteq Alive(v) /\ Today(v)' \subseteq Today(v)
<1>1. CASE Create(p, u, r)
  BY <1>1 DEF Create, SetStatus, Alive, Today, Owned, SafetyInv, TypeInv, TypeOK
<1>2. CASE RetryDispatch(p, u, r)
  BY <1>2 DEF RetryDispatch, SetStatus, Alive, Today, Owned, SafetyInv, TypeInv, TypeOK
<1>. QED
  BY <1>1, <1>2

\* No interleaving of requests, retries, cancellations and workers takes an owner
\* above ConcurrentLimit runs that are queued, at work or being cancelled.
THEOREM ConcurrencyQuotaHolds == Spec => []ConcurrencyQuota
<1>1. Init => ConcurrencyQuota
  <2>. SUFFICES ASSUME Init, NEW u \in Users PROVE Cardinality(Alive(u)) <= ConcurrentLimit
    BY DEF ConcurrencyQuota, Alive
  <2>1. Alive(u) = {}
    BY DEF Init, Alive, Active
  <2>. QED
    BY <2>1, FS_EmptySet, ResearchRunAssumption
<1>2. SafetyInv /\ ConcurrencyQuota /\ [Next]_vars => ConcurrencyQuota'
  <2>. SUFFICES ASSUME SafetyInv, ConcurrencyQuota, [Next]_vars, NEW u \in Users
                PROVE  Cardinality(Alive(u)') <= ConcurrentLimit
    BY DEF ConcurrencyQuota, Alive
  <2>1. ConcurrentLimit \in Nat /\ IsFiniteSet(Alive(u)) /\ Cardinality(Alive(u)) <= ConcurrentLimit
    BY CountedIsFinite, ResearchRunAssumption DEF ConcurrencyQuota, Alive
  <2>2. CASE NothingAdmitted
    <3>1. Alive(u)' \subseteq Alive(u)
      BY <2>2 DEF NothingAdmitted, Alive
    <3>. QED
      BY <2>1, <3>1, NoMoreRuns
  <2>3. ASSUME NEW p \in Requests, NEW v \in Users, NEW r \in Runs, Create(p, v, r) \/ RetryDispatch(p, v, r)
        PROVE  Cardinality(Alive(u)') <= ConcurrentLimit
    <3>1. CASE u = v
      <4>1. Cardinality(Alive(u)) < ConcurrentLimit
        BY <2>3, <3>1, AdmissionCountsAll DEF Create, RetryDispatch, WithinQuota, SafetyInv
      <4>2. Alive(u)' \subseteq Alive(u) \cup {r}
        BY <2>3, <3>1, AdmissionAddsOne
      <4>. QED
        BY <2>1, <4>1, <4>2, RoomForOne
    <3>2. CASE u # v
      <4>1. Alive(u)' \subseteq Alive(u)
        BY <2>3, <3>2, AdmissionAddsOne
      <4>. QED
        BY <2>1, <4>1, NoMoreRuns
    <3>. QED
      BY <3>1, <3>2
  <2>. QED
    BY <2>2, <2>3, OnlyAdmissionAdmits
<1>. QED
  BY <1>1, <1>2, SafetyInvariant, PTL DEF Spec

\* An owner's runs of one day, failed dispatches apart, never exceed DailyLimit.
THEOREM DailyQuotaHolds == Spec => []DailyQuota
<1>1. Init => DailyQuota
  <2>. SUFFICES ASSUME Init, NEW u \in Users PROVE Cardinality(Today(u)) <= DailyLimit
    BY DEF DailyQuota, Today
  <2>1. Today(u) = {}
    BY DEF Init, Today
  <2>. QED
    BY <2>1, FS_EmptySet, ResearchRunAssumption
<1>2. SafetyInv /\ DailyQuota /\ [Next]_vars => DailyQuota'
  <2>. SUFFICES ASSUME SafetyInv, DailyQuota, [Next]_vars, NEW u \in Users
                PROVE  Cardinality(Today(u)') <= DailyLimit
    BY DEF DailyQuota, Today
  <2>1. DailyLimit \in Nat /\ IsFiniteSet(Today(u)) /\ Cardinality(Today(u)) <= DailyLimit
    BY CountedIsFinite, ResearchRunAssumption DEF DailyQuota, Today
  <2>2. CASE NothingAdmitted
    <3>1. Today(u)' \subseteq Today(u)
      BY <2>2 DEF NothingAdmitted, Today, Owned
    <3>. QED
      BY <2>1, <3>1, NoMoreRuns
  <2>3. ASSUME NEW p \in Requests, NEW v \in Users, NEW r \in Runs, Create(p, v, r) \/ RetryDispatch(p, v, r)
        PROVE  Cardinality(Today(u)') <= DailyLimit
    <3>1. CASE u = v
      <4>1. Cardinality(Today(u)) < DailyLimit
        BY <2>3, <3>1 DEF Create, RetryDispatch, WithinQuota, Today
      <4>2. Today(u)' \subseteq Today(u) \cup {r}
        BY <2>3, <3>1, AdmissionAddsOne
      <4>. QED
        BY <2>1, <4>1, <4>2, RoomForOne
    <3>2. CASE u # v
      <4>1. Today(u)' \subseteq Today(u)
        BY <2>3, <3>2, AdmissionAddsOne
      <4>. QED
        BY <2>1, <4>1, NoMoreRuns
    <3>. QED
      BY <3>1, <3>2
  <2>. QED
    BY <2>2, <2>3, OnlyAdmissionAdmits
<1>. QED
  BY <1>1, <1>2, SafetyInvariant, PTL DEF Spec

(***************************************************************************)
(* No accepted run is silently lost.  The run named by a queued row's      *)
(* token has been published when the row says "sent"; it remains to see    *)
(* that nobody has acknowledged that message.  A message is spent once its *)
(* run has left the queue or is published under another token; spent it    *)
(* stays, since only a new token takes a run back to the queue, and a      *)
(* worker goes past the claim, or acknowledges, only with a spent message. *)
(***************************************************************************)
Spent(p) == ~(status[target[p]] = "queued" /\ dispatch[target[p]].token = p)
Kept(w) == wpc[w] \notin {"idle", "claim"}

NotYetSent == \A p \in Requests : rpc[p] \in {"idle", "deliver", "publishing"} => at[p] = "unsent"
PublishedIsSent == \A p \in Requests : rpc[p] = "published" => at[p] # "unsent"
AckedIsSpent == \A p \in Requests : at[p] = "acked" => Spent(p)
KeptIsSpent == \A w \in Workers : Kept(w) => Spent(job[w])
SentHasMessage ==
    \A r \in Runs :
        status[r] = "queued" /\ dispatch[r].state = "sent"
            => LET p == dispatch[r].token IN p \in Requests /\ target[p] = r /\ at[p] # "unsent"

DeliveryInv ==
    /\ SafetyInv
    /\ NotYetSent
    /\ PublishedIsSent
    /\ AckedIsSpent
    /\ KeptIsSpent
    /\ SentHasMessage

LEMMA DeliveryInit == Init => DeliveryInv
  BY SafetyInit, ResearchRunAssumption
  DEF Init, DeliveryInv, NotYetSent, PublishedIsSent, AckedIsSpent, KeptIsSpent, Kept, SentHasMessage

\* A step that publishes nothing and puts no run in the queue: it keeps the
\* requests, brings no message back to "unsent" and acknowledges only what is spent.
NothingPublished ==
    /\ \A p \in Requests : \/ rpc'[p] = rpc[p]
                           \/ rpc'[p] \in {"failing", "done"}
    /\ target' = target
    /\ \A p \in Requests : at'[p] # at[p] => at[p] # "unsent" /\ at'[p] # "unsent"
    /\ \A p \in Requests : at'[p] = "acked" /\ at[p] # "acked" => Spent(p)'
    /\ \A r \in Runs : status'[r] = "queued" => status[r] = "queued" /\ dispatch'[r] = dispatch[r]
    /\ \A w \in Workers : Kept(w)' => Spent(job[w])' \/ (Kept(w) /\ job'[w] = job[w])

LEMMA SpentStays ==
  ASSUME SafetyInv, NothingPublished, NEW p \in Requests, at[p] # "unsent", Spent(p)
  PROVE  Spent(p)'
<1>1. target[p] \in Runs
  BY DEF SafetyInv, TypeInv, Linked
<1>. QED
  BY <1>1 DEF NothingPublished, Spent

LEMMA NothingPublishedStep ==
  ASSUME DeliveryInv, SafetyInv', NothingPublished
  PROVE  DeliveryInv'
<1>1. NotYetSent' /\ PublishedIsSent'
  BY DEF DeliveryInv, NotYetSent, PublishedIsSent, NothingPublished
<1>2. AckedIsSpent'
  BY SpentStays DEF DeliveryInv, AckedIsSpent, NothingPublished
<1>3. KeptIsSpent'
  <2>. SUFFICES ASSUME NEW w \in Workers, Kept(w)' PROVE Spent(job[w])'
    BY DEF KeptIsSpent
  <2>1. CASE Spent(job[w])'
    BY <2>1
  <2>2. CASE Kept(w) /\ job'[w] = job[w]
    <3>1. job[w] \in Requests /\ at[job[w]] # "unsent" /\ Spent(job[w])
      BY <2>2 DEF DeliveryInv, KeptIsSpent, Kept, SafetyInv, TypeInv, Linked
    <3>. QED
      BY <2>2, <3>1, SpentStays DEF DeliveryInv, Spent
  <2>. QED
    BY <2>1, <2>2 DEF NothingPublished
<1>4. SentHasMessage'
  BY DEF DeliveryInv, SentHasMessage, NothingPublished
<1>. QED
  BY <1>1, <1>2, <1>3, <1>4 DEF DeliveryInv

LEMMA DeliveryAdmit ==
  ASSUME DeliveryInv, SafetyInv', NEW p \in Requests, Admit(p)
  PROVE  DeliveryInv'
<1>. PICK u \in Users, r \in Runs : Create(p, u, r) \/ RetryDispatch(p, u, r) \/ Reuse(p, u, r)
  BY DEF Admit
<1>1. /\ rpc[p] = "idle" /\ at[p] = "unsent" /\ target' = [target EXCEPT ![p] = r]
      /\ rpc' = [rpc EXCEPT ![p] = "deliver"] /\ at' = at /\ workerVars' = workerVars
  BY DEF Create, RetryDispatch, Reuse, DeliveryInv, NotYetSent, brokerVars
<1>2. \A s \in Runs : \/ status'[s] = status[s] /\ dispatch'[s] = dispatch[s]
                      \/ dispatch'[s] = Pending
  BY DEF Create, RetryDispatch, Reuse, SetStatus, rowVars, DeliveryInv, SafetyInv, TypeInv, TypeOK
<1>3. NotYetSent' /\ PublishedIsSent'
  BY <1>1 DEF DeliveryInv, NotYetSent, PublishedIsSent, SafetyInv, TypeInv, TypeOK
<1>4. ASSUME NEW q \in Requests, at[q] # "unsent", Spent(q) PROVE Spent(q)'
  <2>1. target'[q] = target[q] /\ target[q] \in Runs
    BY <1>1, <1>4 DEF DeliveryInv, SafetyInv, TypeInv, TypeOK, Linked
  <2>. QED
    BY <1>2, <1>4, <2>1, ResearchRunAssumption DEF Spent, Pending
<1>5. AckedIsSpent'
  BY <1>1, <1>4 DEF DeliveryInv, AckedIsSpent
<1>6. KeptIsSpent'
  <2>. SUFFICES ASSUME NEW w \in Workers, Kept(w)' PROVE Spent(job[w])'
    BY DEF KeptIsSpent
  <2>1. job'[w] = job[w] /\ job[w] \in Requests /\ at[job[w]] # "unsent" /\ Spent(job[w])
    BY <1>1 DEF workerVars, DeliveryInv, KeptIsSpent, Kept, SafetyInv, TypeInv, Linked
  <2>. QED
    BY <1>4, <2>1 DEF Spent
<1>7. SentHasMessage'
  <2>. SUFFICES ASSUME NEW s \in Runs, status'[s] = "queued", dispatch'[s].state = "sent"
                PROVE  LET q == dispatch'[s].token IN q \in Requests /\ target'[q] = s /\ at'[q] # "unsent"
    BY DEF SentHasMessage
  <2>1. status[s] = "queued" /\ dispatch'[s] = dispatch[s]
    BY <1>2 DEF Pending
  <2>2. LET q == dispatch[s].token IN q \in Requests /\ target[q] = s /\ at[q] # "unsent"
    BY <2>1 DEF DeliveryInv, SentHasMessage
  <2>. QED
    BY <1>1, <2>1, <2>2 DEF DeliveryInv, SafetyInv, TypeInv, TypeOK
<1>. QED
  BY <1>3, <1>5, <1>6, <1>7 DEF DeliveryInv

\* The three steps of a request that write its token, publish, or report success.
LEMMA DeliveryBegin ==
  ASSUME DeliveryInv, SafetyInv', NEW p \in Requests, BeginDelivery(p)
  PROVE  DeliveryInv'
<1> DEFINE r == target[p]
<1>1. /\ rpc[p] = "deliver" /\ at[p] = "unsent" /\ rpc' = [rpc EXCEPT ![p] = "publishing"]
      /\ dispatch' = [dispatch EXCEPT ![r] = [state |-> "sending", token |-> p]]
      /\ UNCHANGED <<status, target, at, wpc, job>>
  BY DEF BeginDelivery, DeliveryInv, NotYetSent, brokerVars, workerVars
<1>2. NotYetSent' /\ PublishedIsSent'
  BY <1>1 DEF DeliveryInv, NotYetSent, PublishedIsSent, SafetyInv, TypeInv, TypeOK
<1>3. \A q \in Requests : at[q] # "unsent" /\ Spent(q) => Spent(q)'
  BY <1>1 DEF Spent, DeliveryInv, SafetyInv, TypeInv, TypeOK, Linked
<1>4. AckedIsSpent'
  BY <1>1, <1>3 DEF DeliveryInv, AckedIsSpent
<1>5. KeptIsSpent'
  <2>. SUFFICES ASSUME NEW w \in Workers, Kept(w)' PROVE Spent(job[w])'
    BY DEF KeptIsSpent
  <2>1. job'[w] = job[w] /\ job[w] \in Requests /\ at[job[w]] # "unsent" /\ Spent(job[w])
    BY <1>1 DEF DeliveryInv, KeptIsSpent, Kept, SafetyInv, TypeInv, Linked
  <2>. QED
    BY <1>3, <2>1 DEF Spent
<1>6. SentHasMessage'
  BY <1>1 DEF DeliveryInv, SentHasMessage, SafetyInv, TypeInv, TypeOK
<1>. QED
  BY <1>2, <1>4, <1>5, <1>6 DEF DeliveryInv

LEMMA DeliveryPublish ==
  ASSUME DeliveryInv, SafetyInv', NEW p \in Requests, PublishReaches(p)
  PROVE  DeliveryInv'
<1>1. /\ rpc[p] = "publishing" /\ at[p] = "unsent" /\ at' = [at EXCEPT ![p] = "queued"]
      /\ \E outcome \in {"published", "failing"} : rpc' = [rpc EXCEPT ![p] = outcome]
      /\ UNCHANGED <<status, dispatch, target, wpc, job>>
  BY DEF PublishReaches, DeliveryInv, NotYetSent, rowVars, workerVars
<1>2. NotYetSent' /\ PublishedIsSent'
  BY <1>1 DEF DeliveryInv, NotYetSent, PublishedIsSent, SafetyInv, TypeInv, TypeOK
<1>3. AckedIsSpent' /\ KeptIsSpent' /\ SentHasMessage'
  BY <1>1 DEF DeliveryInv, AckedIsSpent, KeptIsSpent, Kept, Spent, SentHasMessage, SafetyInv, TypeInv, TypeOK
<1>. QED
  BY <1>2, <1>3 DEF DeliveryInv

LEMMA DeliverySuccess ==
  ASSUME DeliveryInv, SafetyInv', NEW p \in Requests, RecordSuccess(p)
  PROVE  DeliveryInv'
<1> DEFINE r == target[p]
<1>1. /\ rpc[p] = "published" /\ at[p] # "unsent" /\ rpc' = [rpc EXCEPT ![p] = "done"] /\ r \in Runs
      /\ UNCHANGED <<status, target, at, wpc, job>>
  BY DEF RecordSuccess, DeliveryInv, PublishedIsSent, SafetyInv, TypeInv, Linked, brokerVars, workerVars
<1>2. \/ dispatch' = dispatch
      \/ dispatch' = [dispatch EXCEPT ![r].state = "sent"] /\ dispatch[r].token = p
  BY DEF RecordSuccess
<1>3. \A s \in Runs : /\ dispatch'[s].token = dispatch[s].token
                      /\ dispatch'[s] # dispatch[s] => s = r /\ dispatch[r].token = p
  BY <1>1, <1>2 DEF DeliveryInv, SafetyInv, TypeInv, TypeOK, Dispatch
<1>4. NotYetSent' /\ PublishedIsSent'
  BY <1>1 DEF DeliveryInv, NotYetSent, PublishedIsSent, SafetyInv, TypeInv, TypeOK
<1>5. \A q \in Requests : at[q] # "unsent" /\ Spent(q) => Spent(q)'
  BY <1>1, <1>3 DEF Spent, DeliveryInv, SafetyInv, TypeInv, TypeOK, Linked
<1>6. AckedIsSpent'
  BY <1>1, <1>5 DEF DeliveryInv, AckedIsSpent
<1>7. KeptIsSpent'
  <2>. SUFFICES ASSUME NEW w \in Workers, Kept(w)' PROVE Spent(job[w])'
    BY DEF KeptIsSpent
  <2>1. job'[w] = job[w] /\ job[w] \in Requests /\ at[job[w]] # "unsent" /\ Spent(job[w])
    BY <1>1 DEF DeliveryInv, KeptIsSpent, Kept, SafetyInv, TypeInv, Linked
  <2>. QED
    BY <1>5, <2>1 DEF Spent
<1>8. SentHasMessage'
  BY <1>1, <1>3 DEF DeliveryInv, SentHasMessage
<1>. QED
  BY <1>4, <1>6, <1>7, <1>8 DEF DeliveryInv

\* Every other step publishes nothing.
LEMMA QuietDelivery ==
  ASSUME DeliveryInv, NEW p \in Requests,
         SkipDelivery(p) \/ PublishIsLost(p) \/ RecordFailure(p) \/ WebCrash(p)
  PROVE  NothingPublished
<1>. USE DEF NothingPublished, Kept, DeliveryInv, SafetyInv, TypeInv, TypeOK
<1>1. CASE SkipDelivery(p) \/ PublishIsLost(p) \/ WebCrash(p)
  BY <1>1 DEF SkipDelivery, PublishIsLost, WebCrash, rowVars, brokerVars, workerVars
<1>2. CASE RecordFailure(p)
  <2>1. \A r \in Runs : status'[r] = "queued" => status[r] = "queued" /\ dispatch'[r] = dispatch[r]
    BY <1>2 DEF RecordFailure, SetStatus
  <2>. QED
    BY <1>2, <2>1 DEF RecordFailure, brokerVars, workerVars
<1>. QED
  BY <1>1, <1>2

LEMMA QuietTake ==
  ASSUME DeliveryInv, NEW w \in Workers, NEW p \in Requests, TakeMessage(w, p)
  PROVE  NothingPublished
<1>1. at[p] = "queued" /\ wpc[w] = "idle" /\ UNCHANGED <<rowVars, requestVars>>
  BY DEF TakeMessage, TakeToExecute, DropDuplicate, DeferRecovery, TakeToRecover, TakeToFinishCancellation,
     Deliverable
<1>2. \A q \in Requests : at'[q] # at[q] => q = p /\ at'[q] # "unsent"
  BY ResearchRunAssumption
  DEF TakeMessage, TakeToExecute, DropDuplicate, DeferRecovery, TakeToRecover, TakeToFinishCancellation,
      Take, DeliveryInv, SafetyInv, TypeInv, TypeOK
<1>3. status[target[p]] \in Active => Spent(p)'
  BY <1>1 DEF Spent, Active, rowVars, requestVars
<1>4. at'[p] = "acked" => status[target[p]] \in Active
  BY <1>1, ResearchRunAssumption
  DEF TakeMessage, TakeToExecute, DropDuplicate, DeferRecovery, TakeToRecover, TakeToFinishCancellation,
      NeedsRecovery, Take, DeliveryInv, SafetyInv, TypeInv, TypeOK
<1>5. \A v \in Workers : Kept(v)' => \/ Kept(v) /\ job'[v] = job[v]
                                     \/ job'[v] = p /\ status[target[p]] \in Active
  BY DEF TakeMessage, TakeToExecute, DropDuplicate, DeferRecovery, TakeToRecover, TakeToFinishCancellation,
         NeedsRecovery, Take, Kept, workerVars, DeliveryInv, SafetyInv, TypeInv, TypeOK
<1>6. \A v \in Workers : Kept(v)' => Spent(job[v])' \/ (Kept(v) /\ job'[v] = job[v])
  BY <1>3, <1>5 DEF Spent
<1>. QED
  BY <1>1, <1>2, <1>3, <1>4, <1>6 DEF NothingPublished, rowVars, requestVars

LEMMA QuietWork ==
  ASSUME DeliveryInv, NEW w \in Workers, Work(w), ~Return(w)
  PROVE  NothingPublished
<1>1. wpc[w] # "idle" /\ UNCHANGED <<requestVars, brokerVars, job>>
  BY DEF Work, FinishOrphan, Recover, LogRecovered, Claim, ClaimRow, Begin, SaveOutcome, LogCompleted, Raise, Step
<1>2. \A r \in Runs : status'[r] = "queued" => status[r] = "queued" /\ dispatch'[r] = dispatch[r]
  <2>. USE DEF SetStatus, DeliveryInv, SafetyInv, TypeInv, TypeOK
  <2>1. CASE Claim(w)
    BY <2>1 DEF Claim, ClaimRow
  <2>2. CASE ~Claim(w)
    BY <2>2 DEF Work, FinishOrphan, Recover, LogRecovered, Begin, SaveOutcome, LogCompleted, Raise,
       FinishCancellation
  <2>. QED
    BY <2>1, <2>2
<1>3. \A v \in Workers : Kept(v)' => Kept(v) \/ (v = w /\ Claim(w))
  BY DEF Work, FinishOrphan, Recover, LogRecovered, Claim, ClaimRow, Begin, SaveOutcome, LogCompleted, Raise, Step,
         Kept, DeliveryInv, SafetyInv, TypeInv, TypeOK
<1>4. Claim(w) => Spent(job[w])'
  <2>1. RunOf(w) \in Runs
    BY <1>1, RunOfType DEF DeliveryInv, SafetyInv
  <2>2. Claim(w) => status'[RunOf(w)] # "queued"
    BY <2>1 DEF Claim, ClaimRow, SetStatus, DeliveryInv, SafetyInv, TypeInv, TypeOK
  <2>. QED
    BY <1>1, <2>2 DEF Spent, RunOf, requestVars
<1>. QED
  BY <1>1, <1>2, <1>3, <1>4 DEF NothingPublished, requestVars, brokerVars

\* A worker lets go of its message: acknowledged only past the claim.
LEMMA QuietRelease ==
  ASSUME DeliveryInv, NEW w \in Workers, wpc[w] # "idle", NEW where \in {"acked", "queued"}, Release(w, where),
         where = "acked" => Kept(w), UNCHANGED <<rowVars, requestVars>>
  PROVE  NothingPublished
<1>1. job[w] \in Requests /\ at[job[w]] # "unsent"
  BY DEF DeliveryInv, SafetyInv, TypeInv, Linked
<1>2. \A p \in Requests : at'[p] # at[p] => p = job[w] /\ at'[p] = where
  BY <1>1 DEF Release, DeliveryInv, SafetyInv, TypeInv, TypeOK
<1>3. Kept(w) => Spent(job[w])
  BY DEF DeliveryInv, KeptIsSpent
<1>4. \A p \in Requests : at'[p] = "acked" /\ at[p] # "acked" => Spent(p)'
  BY <1>2, <1>3 DEF Spent, rowVars, requestVars
<1>5. \A v \in Workers : Kept(v)' => Kept(v) /\ job'[v] = job[v]
  BY DEF Release, Kept, DeliveryInv, SafetyInv, TypeInv, TypeOK
<1>. QED
  BY <1>1, <1>2, <1>4, <1>5 DEF NothingPublished, rowVars, requestVars

LEMMA QuietFault ==
  ASSUME DeliveryInv, NEW w \in Workers, Return(w) \/ Fault(w)
  PROVE  NothingPublished
<1>1. CASE Return(w)
  BY <1>1, QuietRelease DEF Return, Kept
<1>2. CASE WorkerLost(w)
  BY <1>2, QuietRelease DEF WorkerLost
<1>3. CASE HardKill(w)
  BY <1>3, QuietRelease DEF HardKill, Running, Kept
<1>4. CASE Reconnect(w)
  <2>1. job[w] \in Requests /\ at[job[w]] # "unsent"
    BY <1>4 DEF Reconnect, DeliveryInv, SafetyInv, TypeInv, Linked
  <2>2. /\ \A p \in Requests : at'[p] # at[p] => p = job[w] /\ at'[p] = "queued"
        /\ UNCHANGED <<status, dispatch, rpc, target, wpc, job>>
    BY <1>4, <2>1 DEF Reconnect, rowVars, requestVars, workerVars, DeliveryInv, SafetyInv, TypeInv, TypeOK
  <2>. QED
    BY <2>1, <2>2 DEF NothingPublished, Kept
<1>. QED
  BY <1>1, <1>2, <1>3, <1>4 DEF Fault

LEMMA QuietEnvironment ==
  ASSUME DeliveryInv, Midnight \/ (\E r \in Runs : Cancel(r) \/ Tick(r)) \/ UNCHANGED vars
  PROVE  NothingPublished
<1>1. UNCHANGED <<dispatch, requestVars, brokerVars, workerVars>>
  BY DEF Midnight, Cancel, Tick, vars, rowVars
<1>2. \A r \in Runs : status'[r] = "queued" => status[r] = "queued"
  BY DEF Midnight, Cancel, Tick, vars, rowVars, SetStatus, DeliveryInv, SafetyInv, TypeInv, TypeOK
<1>. QED
  BY <1>1, <1>2 DEF NothingPublished, Kept, requestVars, brokerVars, workerVars

LEMMA DeliveryStep == DeliveryInv /\ [Next]_vars => DeliveryInv'
<1>. SUFFICES ASSUME DeliveryInv, [Next]_vars PROVE DeliveryInv'
  OBVIOUS
<1>1. SafetyInv'
  BY SafetyStep DEF DeliveryInv
<1>2. CASE NothingPublished
  BY <1>1, <1>2, NothingPublishedStep
<1>3. ASSUME NEW p \in Requests, Admit(p) \/ Deliver(p) \/ WebCrash(p) PROVE DeliveryInv'
  BY <1>1, <1>2, <1>3, DeliveryAdmit, DeliveryBegin, DeliveryPublish, DeliverySuccess, QuietDelivery DEF Deliver
<1>4. ASSUME NEW w \in Workers, (\E p \in Requests : TakeMessage(w, p)) \/ Work(w) \/ Fault(w) PROVE DeliveryInv'
  BY <1>2, <1>4, QuietTake, QuietWork, QuietFault
<1>5. CASE Midnight \/ (\E r \in Runs : Cancel(r) \/ Tick(r)) \/ UNCHANGED vars
  BY <1>2, <1>5, QuietEnvironment
<1>. QED
  BY <1>3, <1>4, <1>5 DEF Next

\* A run reported as sent and still in the queue has a message that a worker holds
\* or will receive.
THEOREM SentRunsAreDeliverable == Spec => []SentRunIsDeliverable
<1>1. DeliveryInv => SentRunIsDeliverable
  <2>. SUFFICES ASSUME DeliveryInv, NEW r \in Runs, status[r] = "queued", dispatch[r].state = "sent"
                PROVE  \E p \in Requests : target[p] = r /\ at[p] \notin {"unsent", "acked"}
    BY DEF SentRunIsDeliverable
  <2> DEFINE p == dispatch[r].token
  <2>1. p \in Requests /\ target[p] = r /\ at[p] # "unsent"
    BY DEF DeliveryInv, SentHasMessage
  <2>2. at[p] # "acked"
    BY <2>1 DEF DeliveryInv, AckedIsSpent, Spent
  <2>. QED
    BY <2>1, <2>2
<1>. QED
  BY <1>1, DeliveryInit, DeliveryStep, PTL DEF Spec

(***************************************************************************)
(* The protocol implements the life cycle of RunLifecycle.  Each           *)
(* transaction that writes a status is one step of the life cycle or none, *)
(* given what the worker at work may rely on without reading the row: its  *)
(* claim, or the outcome it saved, still stands, and it is paid for.       *)
(***************************************************************************)
ClaimStands == \A w \in Workers : wpc[w] \in {"claimed", "executing"} => status[RunOf(w)] \in Active
OutcomeStands == \A w \in Workers : wpc[w] \in {"saved", "completed"} => status[RunOf(w)] \in {"succeeded", "failed"}
WorkIsPaid == \A w \in Workers : wpc[w] \in {"executing", "saved", "completed"} => executions[RunOf(w)] > 0

LifeInv == SafetyInv /\ ClaimStands /\ OutcomeStands /\ WorkIsPaid

LEMMA LifeInit == Init => LifeInv
  BY SafetyInit DEF Init, LifeInv, ClaimStands, OutcomeStands, WorkIsPaid

\* A running worker's row is written by nobody else, except that a user may ask to
\* cancel the run.
RowIsKept(w) ==
    /\ RunOf(w)' = RunOf(w)
    /\ wpc'[w] = wpc[w]
    /\ status'[RunOf(w)] = status[RunOf(w)] \/ (status[RunOf(w)] = "planning" /\ status'[RunOf(w)] = "cancelling")
    /\ executions'[RunOf(w)] = executions[RunOf(w)]

\* The running workers whose step it is not.
OthersKept == \A w \in Workers : Running(w)' => RowIsKept(w)
OthersKeptBut(w) == \A v \in Workers \ {w} : Running(v)' => RowIsKept(v)

\* What the invariant says of one worker.
Stands(w) ==
    /\ wpc[w] \in {"claimed", "executing"} => status[RunOf(w)] \in Active
    /\ wpc[w] \in {"saved", "completed"} => status[RunOf(w)] \in {"succeeded", "failed"}
    /\ wpc[w] \in {"executing", "saved", "completed"} => executions[RunOf(w)] > 0

LEMMA StandsIsKept ==
  ASSUME LifeInv, NEW w \in Workers, Running(w)' => RowIsKept(w)
  PROVE  Stands(w)'
<1>1. Stands(w)
  BY DEF LifeInv, ClaimStands, OutcomeStands, WorkIsPaid, Stands
<1>2. CASE Running(w)'
  BY <1>1, <1>2 DEF Stands, RowIsKept, Active
<1>3. CASE ~Running(w)'
  BY <1>3 DEF Stands, Running
<1>. QED
  BY <1>2, <1>3

LEMMA LifeInvFromWorkers ==
  ASSUME SafetyInv', \A w \in Workers : Stands(w)'
  PROVE  LifeInv'
  BY DEF LifeInv, ClaimStands, OutcomeStands, WorkIsPaid, Stands

\* A running worker's run is a claimed one.
LEMMA RunningRun ==
  ASSUME SafetyInv, NEW w \in Workers, Running(w)
  PROVE  RunOf(w) \in Runs /\ ~Unclaimed(RunOf(w)) /\ rpc[job[w]] # "idle" /\ job[w] \in Requests
  BY CommittedRun, CommittedIsBusy DEF Committed, SafetyInv, UnclaimedIsFree

LEMMA RequestsKeepRows ==
  ASSUME SafetyInv, NEW p \in Requests, Admit(p) \/ Deliver(p) \/ WebCrash(p)
  PROVE  OthersKept
<1>. SUFFICES ASSUME NEW w \in Workers, Running(w)' PROVE RowIsKept(w)
  BY DEF OthersKept
<1>1. UNCHANGED <<workerVars, executions>>
  BY DEF Admit, Create, RetryDispatch, Reuse, Deliver, BeginDelivery, SkipDelivery, PublishReaches, PublishIsLost,
         RecordFailure, RecordSuccess, WebCrash, rowVars
<1>2. Running(w)
  BY <1>1 DEF Running, workerVars
<1>3. RunOf(w) \in Runs /\ ~Unclaimed(RunOf(w)) /\ rpc[job[w]] # "idle" /\ job[w] \in Requests
  BY <1>2, RunningRun
<1>4. RunOf(w)' = RunOf(w)
  BY <1>1, <1>3
  DEF RunOf, workerVars, Admit, Create, RetryDispatch, Reuse, Deliver, BeginDelivery, SkipDelivery, PublishReaches,
      PublishIsLost, RecordFailure, RecordSuccess, WebCrash, SafetyInv, TypeInv, TypeOK
<1>5. status'[RunOf(w)] = status[RunOf(w)]
  BY <1>3
  DEF Unclaimed, Admit, Create, RetryDispatch, Reuse, Deliver, BeginDelivery, SkipDelivery, PublishReaches,
      PublishIsLost, RecordFailure, RecordSuccess, WebCrash, SetStatus, rowVars, SafetyInv, TypeInv, TypeOK
<1>. QED
  BY <1>1, <1>4, <1>5 DEF RowIsKept, workerVars

LEMMA EnvironmentKeepsRows ==
  ASSUME SafetyInv, Midnight \/ (\E r \in Runs : Cancel(r) \/ Tick(r)) \/ UNCHANGED vars
  PROVE  OthersKept
<1>. SUFFICES ASSUME NEW w \in Workers, Running(w)' PROVE RowIsKept(w)
  BY DEF OthersKept
<1>1. UNCHANGED <<workerVars, target, executions>>
  BY DEF Midnight, Cancel, Tick, vars, rowVars, requestVars
<1>2. RunOf(w) \in Runs /\ ~Unclaimed(RunOf(w))
  BY <1>1, RunningRun DEF Running, workerVars
<1>3. \/ status'[RunOf(w)] = status[RunOf(w)]
      \/ status[RunOf(w)] = "planning" /\ status'[RunOf(w)] = "cancelling"
  BY <1>2 DEF Midnight, Cancel, Tick, vars, rowVars, SetStatus, Unclaimed, Terminal, Statuses, Active,
              SafetyInv, TypeInv, TypeOK
<1>. QED
  BY <1>1, <1>3 DEF RowIsKept, RunOf, workerVars

\* Taking a message starts no work, and letting go of one ends it.
LEMMA TakeKeepsRows ==
  ASSUME SafetyInv, NEW w \in Workers, (\E p \in Requests : TakeMessage(w, p)) \/ Return(w) \/ Fault(w)
  PROVE  OthersKept
<1>1. UNCHANGED <<rowVars, target>>
  BY DEF TakeMessage, TakeToExecute, DropDuplicate, DeferRecovery, TakeToRecover, TakeToFinishCancellation,
         Return, Fault, WorkerLost, Reconnect, HardKill, requestVars
<1>2. \A v \in Workers : Running(v)' => wpc'[v] = wpc[v] /\ job'[v] = job[v]
  BY DEF Running, TakeMessage, TakeToExecute, DropDuplicate, DeferRecovery, TakeToRecover, TakeToFinishCancellation,
         Take, Return, Fault, WorkerLost, Reconnect, HardKill, Release, workerVars, SafetyInv, TypeInv, TypeOK
<1>. QED
  BY <1>1, <1>2 DEF OthersKept, RowIsKept, RunOf, rowVars

\* A worker that writes its row disturbs no running worker: a claim takes a run that
\* nobody works on, a running worker is alone, and recovery comes after the hard limit.
LEMMA WorkKeepsOthers ==
  ASSUME SafetyInv, NEW w \in Workers, Work(w), ~Return(w)
  PROVE  OthersKeptBut(w)
<1>. SUFFICES ASSUME NEW v \in Workers \ {w}, Running(v)' PROVE RowIsKept(v)
  BY DEF OthersKeptBut
<1>1. wpc[w] # "idle" /\ UNCHANGED requestVars /\ \E pc : Step(w, pc)
  BY DEF Work, FinishOrphan, Recover, LogRecovered, Claim, ClaimRow, Begin, SaveOutcome, LogCompleted, Raise
<1>2. wpc'[v] = wpc[v] /\ RunOf(v)' = RunOf(v)
  BY <1>1, StepIsLocal DEF SafetyInv
<1>3. Running(v) /\ RunOf(v) \in Runs /\ ~Unclaimed(RunOf(v))
  BY <1>2, RunningRun DEF Running
<1>4. RunOf(v) # RunOf(w) => status'[RunOf(v)] = status[RunOf(v)] /\ executions'[RunOf(v)] = executions[RunOf(v)]
  BY <1>3 DEF Work, FinishOrphan, Recover, LogRecovered, Claim, ClaimRow, Begin, SaveOutcome, LogCompleted, Raise,
              FinishCancellation, SetStatus, SafetyInv, TypeInv, TypeOK
<1>5. CASE Running(w)
  BY <1>2, <1>3, <1>4, <1>5 DEF OneExecutor, RowIsKept, SafetyInv
<1>6. CASE wpc[w] \in {"recover", "cancel"}
  <2>1. age[RunOf(v)] <= HardLimit /\ age[RunOf(w)] >= RecoveryDelay /\ age[RunOf(v)] \in Nat
    BY <1>3, <1>6 DEF SafetyInv, ExecutionIsYoung, RecoveryIsLate, TypeInv, TypeOK
  <2>2. RunOf(v) # RunOf(w)
    BY <2>1, ResearchRunAssumption
  <2>. QED
    BY <1>2, <1>4, <2>2 DEF RowIsKept
<1>7. CASE Claim(w)
  <2>1. RunOf(v) = RunOf(w) => UNCHANGED <<status, executions>>
    BY <1>3, <1>7 DEF Claim, Unclaimed
  <2>. QED
    BY <1>2, <1>4, <2>1 DEF RowIsKept
<1>8. CASE LogRecovered(w)
  BY <1>2, <1>8 DEF LogRecovered, RowIsKept
<1>. QED
  BY <1>5, <1>6, <1>7, <1>8
  DEF Work, Running, FinishOrphan, Recover, Begin, SaveOutcome, LogCompleted, Raise

\* And what it claims about itself stands.
LEMMA WorkerStands ==
  ASSUME LifeInv, NEW w \in Workers, Work(w), ~Return(w)
  PROVE  Stands(w)'
<1>1. wpc[w] # "idle" /\ UNCHANGED requestVars /\ \E pc : Step(w, pc)
  BY DEF Work, FinishOrphan, Recover, LogRecovered, Claim, ClaimRow, Begin, SaveOutcome, LogCompleted, Raise
<1>2. RunOf(w)' = RunOf(w) /\ RunOf(w) \in Runs
  BY <1>1, StepIsLocal, RunOfType DEF LifeInv, SafetyInv
<1>3. \A pc : Step(w, pc) => wpc'[w] = pc
  BY <1>1, StepIsLocal DEF LifeInv, SafetyInv
<1>4. Stands(w)
  BY DEF LifeInv, ClaimStands, OutcomeStands, WorkIsPaid, Stands
<1>5. status \in [Runs -> Statuses] /\ executions \in [Runs -> Nat]
  BY DEF LifeInv, SafetyInv, TypeInv, TypeOK
<1>6. CASE Claim(w)
  BY <1>2, <1>3, <1>5, <1>6 DEF Claim, ClaimRow, SetStatus, Stands, Active
<1>7. CASE Begin(w)
  BY <1>2, <1>3, <1>4, <1>5, <1>7 DEF Begin, FinishCancellation, SetStatus, Stands
<1>8. CASE SaveOutcome(w)
  BY <1>2, <1>3, <1>4, <1>5, <1>8 DEF SaveOutcome, FinishCancellation, SetStatus, Stands
<1>9. CASE LogCompleted(w)
  BY <1>2, <1>3, <1>4, <1>9 DEF LogCompleted, Stands
<1>10. CASE Raise(w)
  BY <1>3, <1>10 DEF Raise, Stands
<1>11. CASE FinishOrphan(w) \/ Recover(w) \/ LogRecovered(w)
  BY <1>3, <1>11 DEF FinishOrphan, Recover, LogRecovered, Stands
<1>. QED
  BY <1>6, <1>7, <1>8, <1>9, <1>10, <1>11 DEF Work

LEMMA LifeStep == LifeInv /\ [Next]_vars => LifeInv'
<1>. SUFFICES ASSUME LifeInv, [Next]_vars PROVE LifeInv'
  OBVIOUS
<1>1. SafetyInv /\ SafetyInv'
  BY SafetyStep DEF LifeInv
<1>2. CASE OthersKept
  BY <1>1, <1>2, StandsIsKept, LifeInvFromWorkers DEF OthersKept
<1>3. ASSUME NEW w \in Workers, Work(w), ~Return(w) PROVE LifeInv'
  <2>1. \A v \in Workers : v # w => Stands(v)'
    BY <1>1, <1>3, WorkKeepsOthers, StandsIsKept DEF OthersKeptBut
  <2>2. Stands(w)'
    BY <1>3, WorkerStands
  <2>. QED
    BY <1>1, <2>1, <2>2, LifeInvFromWorkers
<1>. QED
  BY <1>1, <1>2, <1>3, RequestsKeepRows, EnvironmentKeepsRows, TakeKeepsRows DEF Next

\* The life cycle's variables, as Life computes them from the row.
PhaseOf(r) ==
    CASE dispatchFailed[r] -> "undelivered"
      [] status[r] = "planning" -> "running"
      [] OTHER -> status[r]
Phase == [r \in Runs |-> PhaseOf(r)]
Paid == [r \in Runs |-> executions[r] > 0]

OnlyRow(r) == \A s \in Runs \ {r} : status'[s] = status[s] /\ dispatchFailed'[s] = dispatchFailed[s]

LEMMA RowBecomes ==
  ASSUME NEW r \in Runs, OnlyRow(r), executions' = executions, NEW from, NEW to, PhaseOf(r) = from, PhaseOf(r)' = to
  PROVE  Life!Become(r, from, to)
<1>1. \A s \in Runs \ {r} : PhaseOf(s)' = PhaseOf(s)
  BY DEF OnlyRow, PhaseOf
<1>2. Phase[r] = from /\ Phase' = [Phase EXCEPT ![r] = to] /\ Paid' = Paid
  BY <1>1 DEF Phase, Paid
<1>. QED
  BY <1>2 DEF Life!Become, Phase, PhaseOf, Paid

\* The moves of the life cycle that change the phase alone.
Moves == {<<"absent", "queued">>, <<"queued", "undelivered">>, <<"undelivered", "queued">>, <<"queued", "running">>,
          <<"queued", "cancelled">>, <<"running", "cancelling">>, <<"running", "failed">>,
          <<"cancelling", "cancelled">>, <<"succeeded", "failed">>}

LEMMA LifeMove ==
  ASSUME NEW r \in Runs, OnlyRow(r), executions' = executions, NEW m \in Moves, PhaseOf(r) = m[1], PhaseOf(r)' = m[2]
  PROVE  Life!Next
<1>1. Life!Become(r, m[1], m[2])
  BY RowBecomes
<1>. QED
  BY <1>1 DEF Moves, Life!Next, Life!Submit, Life!LoseDispatch, Life!Resubmit, Life!Start, Life!Cancel, Life!Finish,
              Life!Overturn

LEMMA LifeStutter ==
  ASSUME UNCHANGED <<status, dispatchFailed, executions>>
  PROVE  UNCHANGED Life!lifeVars
  BY DEF Life!lifeVars

LEMMA LifeAdmit ==
  ASSUME SafetyInv, NEW p \in Requests, Admit(p)
  PROVE  [Life!Next]_Life!lifeVars
<1>. USE DEF SafetyInv, TypeInv, TypeOK
<1>. PICK u \in Users, r \in Runs : Create(p, u, r) \/ RetryDispatch(p, u, r) \/ Reuse(p, u, r)
  BY DEF Admit
<1>1. CASE Create(p, u, r)
  <2>1. OnlyRow(r) /\ executions' = executions /\ PhaseOf(r) = "absent" /\ PhaseOf(r)' = "queued"
    BY <1>1 DEF Create, SetStatus, OnlyRow, PhaseOf, FailedDispatchIsFailed
  <2>. QED
    BY <2>1, LifeMove DEF Moves
<1>2. CASE RetryDispatch(p, u, r)
  <2>1. OnlyRow(r) /\ executions' = executions /\ PhaseOf(r) = "undelivered" /\ PhaseOf(r)' = "queued"
    BY <1>2 DEF RetryDispatch, SetStatus, OnlyRow, PhaseOf
  <2>. QED
    BY <2>1, LifeMove DEF Moves
<1>3. CASE Reuse(p, u, r)
  BY <1>3, LifeStutter DEF Reuse, rowVars
<1>. QED
  BY <1>1, <1>2, <1>3

LEMMA LossMove ==
  ASSUME SafetyInv, NEW r \in Runs, ~dispatchFailed[r], status[r] = "queued", SetStatus(r, "failed"),
         dispatchFailed' = [dispatchFailed EXCEPT ![r] = TRUE], executions' = executions
  PROVE  Life!Next
<1>1. OnlyRow(r) /\ PhaseOf(r) = "queued" /\ PhaseOf(r)' = "undelivered"
  BY DEF SetStatus, OnlyRow, PhaseOf, SafetyInv, TypeInv, TypeOK
<1>2. Life!Become(r, "queued", "undelivered")
  BY <1>1, RowBecomes
<1>. QED
  BY <1>2 DEF Life!LoseDispatch, Life!Next

LEMMA LifeDeliver ==
  ASSUME SafetyInv, NEW p \in Requests, Deliver(p) \/ WebCrash(p)
  PROVE  [Life!Next]_Life!lifeVars
<1> DEFINE r == target[p]
<1>1. CASE RecordFailure(p) /\ status[r] = "queued" /\ dispatch[r].token = p
  <2>1. r \in Runs /\ ~dispatchFailed[r]
    BY <1>1 DEF RecordFailure, SafetyInv, TypeInv, Linked, FailedDispatchIsFailed
  <2>2. /\ SetStatus(r, "failed") /\ executions' = executions
        /\ dispatchFailed' = [dispatchFailed EXCEPT ![r] = TRUE]
    BY <1>1 DEF RecordFailure
  <2>. QED
    BY <1>1, <2>1, <2>2, LossMove
<1>2. CASE ~(RecordFailure(p) /\ status[r] = "queued" /\ dispatch[r].token = p)
  <2>1. UNCHANGED <<status, dispatchFailed, executions>>
    BY <1>2 DEF Deliver, BeginDelivery, SkipDelivery, PublishReaches, PublishIsLost, RecordFailure, RecordSuccess,
                WebCrash, rowVars
  <2>. QED
    BY <2>1, LifeStutter
<1>. QED
  BY <1>1, <1>2

LEMMA LifeCancel ==
  ASSUME SafetyInv, NEW r \in Runs, Cancel(r)
  PROVE  Life!Next
<1>1. ~dispatchFailed[r] /\ status[r] \in {"queued", "planning"}
  BY DEF Cancel, Statuses, Active, Terminal, SafetyInv, TypeInv, TypeOK, FailedDispatchIsFailed
<1>2. OnlyRow(r) /\ executions' = executions /\ dispatchFailed' = dispatchFailed
  BY DEF Cancel, SetStatus, OnlyRow, SafetyInv, TypeInv, TypeOK
<1>3. \/ status[r] = "queued" /\ status'[r] = "cancelled"
      \/ status[r] = "planning" /\ status'[r] = "cancelling"
  BY <1>1 DEF Cancel, SetStatus, SafetyInv, TypeInv, TypeOK
<1>4. <<PhaseOf(r), PhaseOf(r)'>> \in Moves
  BY <1>1, <1>2, <1>3 DEF PhaseOf, Moves
<1>. QED
  BY <1>2, <1>4, LifeMove

\* A worker writes the status of the run it is committed to, never that of a failed
\* dispatch: what the writes mean to the life cycle.
LEMMA WorkerMove ==
  ASSUME SafetyInv, NEW r \in Runs, ~dispatchFailed[r], NEW s, SetStatus(r, s),
         UNCHANGED <<dispatchFailed, executions>>,
         \/ status[r] = "queued" /\ s = "planning"
         \/ status[r] = "planning" /\ s = "failed"
         \/ status[r] = "cancelling" /\ s = "cancelled"
         \/ status[r] = "succeeded" /\ s = "failed"
  PROVE  Life!Next
<1>1. status' = [status EXCEPT ![r] = s] /\ status \in [Runs -> Statuses]
  BY DEF SetStatus, SafetyInv, TypeInv, TypeOK
<1>2. OnlyRow(r) /\ status'[r] = s
  BY <1>1 DEF OnlyRow
<1>3. <<PhaseOf(r), PhaseOf(r)'>> \in Moves
  BY <1>2 DEF PhaseOf, Moves
<1>. QED
  BY <1>2, <1>3, LifeMove

LEMMA CancellationMove ==
  ASSUME SafetyInv, NEW r \in Runs, ~dispatchFailed[r], FinishCancellation(r), UNCHANGED <<dispatchFailed, executions>>
  PROVE  [Life!Next]_Life!lifeVars
  BY WorkerMove, LifeStutter DEF FinishCancellation

\* A run that nobody has paid for is paid for.
LEMMA PayMove ==
  ASSUME SafetyInv, NEW r \in Runs, ~dispatchFailed[r], status[r] = "planning", executions[r] = 0,
         executions' = [executions EXCEPT ![r] = @ + 1], UNCHANGED <<status, dispatchFailed>>
  PROVE  Life!Next
<1>1. executions \in [Runs -> Nat]
  BY DEF SafetyInv, TypeInv, TypeOK
<1>2. executions'[r] > 0 /\ \A s \in Runs \ {r} : executions'[s] = executions[s]
  BY <1>1
<1>3. Phase' = Phase /\ Phase[r] = "running"
  BY DEF Phase, PhaseOf
<1>b. ~Paid[r] /\ Paid' = [Paid EXCEPT ![r] = TRUE]
  <2>1. ~(executions[r] > 0)
    OBVIOUS
  <2>2. ~Paid[r]
    BY <2>1, Zenon DEF Paid
  <2>3. \A s \in Runs : (executions'[s] > 0) = (IF s = r THEN TRUE ELSE executions[s] > 0)
    BY <1>1, <1>2
  <2>4. Paid' = [s \in Runs |-> IF s = r THEN TRUE ELSE executions[s] > 0]
    BY <2>3, Zenon DEF Paid
  <2>5. [Paid EXCEPT ![r] = TRUE] = [s \in Runs |-> IF s = r THEN TRUE ELSE executions[s] > 0]
    BY Zenon DEF Paid
  <2>. QED
    BY <2>2, <2>4, <2>5, Zenon
<1>4. Life!Pay(r)
  BY <1>3, <1>b DEF Life!Pay, Phase, PhaseOf, Paid
<1>. QED
  BY <1>4 DEF Life!Next

\* A paid run ends as the graph says.
LEMMA SuccessMove ==
  ASSUME SafetyInv, NEW r \in Runs, ~dispatchFailed[r], status[r] = "planning", executions[r] > 0,
         SetStatus(r, "succeeded"), UNCHANGED <<dispatchFailed, executions>>
  PROVE  Life!Next
<1>1. OnlyRow(r) /\ PhaseOf(r) = "running" /\ PhaseOf(r)' = "succeeded"
  BY DEF SetStatus, OnlyRow, PhaseOf, SafetyInv, TypeInv, TypeOK
<1>2. Life!Become(r, "running", "succeeded")
  BY <1>1, RowBecomes
<1>3. Life!Finish(r)
  BY <1>2 DEF Life!Finish
<1>. QED
  BY <1>3 DEF Life!Next

LEMMA LifeWork ==
  ASSUME LifeInv, NEW w \in Workers, Work(w)
  PROVE  [Life!Next]_Life!lifeVars
<1> DEFINE r == RunOf(w)
<1>1. SafetyInv /\ Stands(w)
  BY DEF LifeInv, ClaimStands, OutcomeStands, WorkIsPaid, Stands
<1>2. wpc[w] # "idle" => r \in Runs
  BY <1>1, RunOfType DEF SafetyInv
<1>3. Committed(w) => ~dispatchFailed[r]
  BY <1>1, <1>2, CommittedIsBusy DEF SafetyInv, UnclaimedIsFree, Unclaimed
<1>4. status[r] = "queued" /\ r \in Runs => ~dispatchFailed[r]
  BY <1>1 DEF SafetyInv, FailedDispatchIsFailed
<1> HIDE DEF r
<1>5. CASE FinishOrphan(w)
  BY <1>1, <1>2, <1>3, <1>5, CancellationMove DEF FinishOrphan, Committed, r
<1>6. CASE Recover(w)
  BY <1>1, <1>2, <1>3, <1>6, WorkerMove, LifeStutter DEF Recover, Committed, SafetyInv, RecoverySawPlanning, r
<1>7. CASE LogRecovered(w) \/ LogCompleted(w) \/ Return(w)
  BY <1>7, LifeStutter DEF LogRecovered, LogCompleted, Return, rowVars
<1>8. CASE Claim(w)
  BY <1>1, <1>2, <1>4, <1>8, WorkerMove, LifeStutter DEF Claim, ClaimRow, r
<1>9. CASE Begin(w)
  <2>1. r \in Runs /\ ~dispatchFailed[r] /\ executions[r] = 0 /\ status[r] \in Active
    BY <1>1, <1>2, <1>3, <1>9 DEF Begin, Committed, Running, SafetyInv, ClaimedIsUnpaid, Stands, r
  <2>2. CASE status[r] \in {"cancelled", "cancelling"}
    BY <1>1, <1>9, <2>1, <2>2, CancellationMove DEF Begin, r
  <2>3. CASE status[r] = "planning"
    <3>1. executions' = [executions EXCEPT ![r] = @ + 1] /\ UNCHANGED <<status, dispatchFailed>>
      BY <1>9, <2>3 DEF Begin, r
    <3>. QED
      BY <1>1, <2>1, <2>3, <3>1, PayMove
  <2>. QED
    BY <2>1, <2>2, <2>3 DEF Active
<1>10. CASE SaveOutcome(w)
  <2>1. r \in Runs /\ ~dispatchFailed[r] /\ executions[r] > 0 /\ status[r] \in Active
    BY <1>1, <1>2, <1>3, <1>10 DEF SaveOutcome, Committed, Running, Stands, r
  <2>2. CASE status[r] \in {"cancelled", "cancelling"}
    BY <1>1, <1>10, <2>1, <2>2, CancellationMove DEF SaveOutcome, r
  <2>3. CASE status[r] = "planning"
    <3>1. SetStatus(r, "succeeded") \/ SetStatus(r, "failed")
      BY <1>10, <2>3 DEF SaveOutcome, r
    <3>2. UNCHANGED <<dispatchFailed, executions>>
      BY <1>10 DEF SaveOutcome
    <3>. QED
      BY <1>1, <2>1, <2>3, <3>1, <3>2, SuccessMove, WorkerMove
  <2>. QED
    BY <2>1, <2>2, <2>3 DEF Active
<1>11. CASE Raise(w)
  <2>1. /\ r \in Runs /\ ~dispatchFailed[r] /\ UNCHANGED <<dispatchFailed, executions>>
        /\ status[r] \in Active \cup {"succeeded", "failed"}
    BY <1>1, <1>2, <1>3, <1>11 DEF Raise, Committed, Running, Stands, r
  <2>2. CASE status[r] = "cancelling"
    BY <1>1, <1>11, <2>1, <2>2, CancellationMove DEF Raise, r
  <2>3. CASE status[r] \in {"planning", "succeeded"}
    <3>1. SetStatus(r, "failed")
      BY <1>11, <2>3 DEF Raise, r
    <3>. QED
      BY <1>1, <2>1, <2>3, <3>1, WorkerMove
  <2>4. CASE status[r] = "failed"
    <3>1. status' = status
      BY <1>1, <1>11, <2>1, <2>4 DEF Raise, SetStatus, SafetyInv, TypeInv, TypeOK, r
    <3>. QED
      BY <2>1, <3>1, LifeStutter
  <2>. QED
    BY <2>1, <2>2, <2>3, <2>4 DEF Active
<1>. QED
  BY <1>5, <1>6, <1>7, <1>8, <1>9, <1>10, <1>11 DEF Work

LEMMA StepImplements == LifeInv /\ [Next]_vars => [Life!Next]_Life!lifeVars
<1>. SUFFICES ASSUME LifeInv, [Next]_vars PROVE [Life!Next]_Life!lifeVars
  OBVIOUS
<1>1. SafetyInv
  BY DEF LifeInv
<1>2. ASSUME NEW w \in Workers, (\E p \in Requests : TakeMessage(w, p)) \/ Fault(w)
      PROVE  [Life!Next]_Life!lifeVars
  <2>1. UNCHANGED <<status, dispatchFailed, executions>>
    BY <1>2 DEF TakeMessage, TakeToExecute, DropDuplicate, DeferRecovery, TakeToRecover,
       TakeToFinishCancellation, Fault, WorkerLost, Reconnect, HardKill, rowVars
  <2>. QED
    BY <2>1, LifeStutter
<1>3. CASE Midnight \/ (\E r \in Runs : Tick(r)) \/ UNCHANGED vars
  <2>1. UNCHANGED <<status, dispatchFailed, executions>>
    BY <1>3 DEF Midnight, Tick, vars, rowVars
  <2>. QED
    BY <2>1, LifeStutter
<1>. QED
  BY <1>1, <1>2, <1>3, LifeAdmit, LifeDeliver, LifeWork, LifeCancel DEF Next

\* The protocol implements the life cycle: a run starts once, from the queue, is paid
\* for once and before any cancellation request, and ends as RunLifecycle allows.
THEOREM LifecycleIsImplemented == Spec => ImplementsLifecycle
<1>1. Init => Life!Init
  <2>. SUFFICES ASSUME Init PROVE Life!Init
    OBVIOUS
  <2>1. Phase = [r \in Runs |-> "absent"]
    BY DEF Init, Phase, PhaseOf
  <2>2. Paid = [r \in Runs |-> FALSE]
    <3>1. \A r \in Runs : (executions[r] > 0) = FALSE
      BY DEF Init
    <3>. QED
      BY <3>1, Zenon DEF Paid
  <2>. QED
    BY <2>1, <2>2 DEF Life!Init, Phase, PhaseOf, Paid
<1>2. LifeInv /\ [Next]_vars => [Life!Next]_Life!lifeVars
  BY StepImplements
<1>. QED
  BY <1>1, <1>2, LifeInit, LifeStep, PTL DEF Spec, ImplementsLifecycle, Life!Spec
================================================================================
