------------------------------ MODULE ResearchRun ------------------------------
(***************************************************************************)
(* The life of a research run: admission and publication by the web        *)
(* process (agent_runtime/admission.py), the Celery task that claims and   *)
(* executes it (agent_runtime/tasks.py, research/runtime.py), the recovery *)
(* of redelivered work, and cancellation by the user.                      *)
(*                                                                         *)
(* A run is identified by its client_request_id.  A request is one HTTP    *)
(* POST; its name doubles as the publication token that _deliver draws     *)
(* (uuid4) and as the identity of the one broker message it may publish.   *)
(* A database transaction that holds the row lock is one step; between two *)
(* transactions any other process may run.                                 *)
(***************************************************************************)
EXTENDS Naturals, FiniteSets, Sequences

CONSTANTS
    Users, Runs, Requests, Workers,
    Nobody,             \* no owner, no target, no token, no message
    DailyLimit,         \* RESEARCH_AGENT_DAILY_LIMIT
    ConcurrentLimit,    \* RESEARCH_AGENT_CONCURRENT_LIMIT
    SendTimeout,        \* 60 s: a publication older than this may be repeated
    HardLimit,          \* 100 s: Celery kills an execution older than this
    RecoveryDelay,      \* 130 s: recovery touches only executions older than this
    MaxRetries,         \* max_retries of the recovery's self.retry
    MaxLost,            \* bound: worker losses and broker reconnections
    MaxKilled           \* bound: executions killed by the hard time limit

ASSUME ResearchRunAssumption ==
    /\ IsFiniteSet(Runs)
    /\ Nobody \notin Users \cup Runs \cup Requests
    /\ Workers \cap {"unsent", "queued", "acked"} = {}
    /\ DailyLimit \in Nat /\ ConcurrentLimit \in Nat
    /\ SendTimeout \in Nat /\ HardLimit \in Nat /\ RecoveryDelay \in Nat
    /\ SendTimeout <= RecoveryDelay /\ HardLimit < RecoveryDelay
    /\ MaxRetries \in Nat /\ MaxLost \in Nat /\ MaxKilled \in Nat

VARIABLES
    \* The AgentRun row of each key, with its ownership and its events.
    status, owner, dispatchFailed, createdToday, dispatch, executionStarted, log,
    age,                \* time since the row's last `started` / `execution_started`
    executions,         \* how often the research graph (paid work) was started
    \* Web requests.
    rpc, target,
    \* Celery messages, one per request that published.
    at, redelivered, retries,
    \* Agent workers: program point, message in hand, the row as last read.
    wpc, job, seen,
    \* Faults so far.
    lost, killed

rowVars == <<status, owner, dispatchFailed, createdToday, dispatch, executionStarted, log, age, executions>>
requestVars == <<rpc, target>>
brokerVars == <<at, redelivered, retries>>
workerVars == <<wpc, job, seen>>
faultVars == <<lost, killed>>
vars == <<rowVars, requestVars, brokerVars, workerVars, faultVars>>

(***************************************************************************)
(* EXECUTING, VERIFYING and RUNNING are choices of the model but no code   *)
(* assigns them to a research run; WAITING_APPROVAL belongs to Approvals.  *)
(* The log keeps the events of the life cycle: progress events, and the    *)
(* "run.replayed" that a replay adds to its creation, are left out.        *)
(***************************************************************************)
Terminal == {"succeeded", "failed", "cancelled"}
Active == {"planning", "cancelling"}
Statuses == {"absent", "queued"} \cup Active \cup Terminal
Dispatch == [state: {"none", "pending", "sending", "sent", "failed"}, token: Requests \cup {Nobody}]
EventTypes == {"run.created", "run.cancel.requested", "run.cancelled", "run.completed", "run.failed"}

NoDispatch == [state |-> "none", token |-> Nobody]
NoRow == [status |-> "absent", dispatch |-> NoDispatch]

Init ==
    /\ status = [r \in Runs |-> "absent"]
    /\ owner = [r \in Runs |-> Nobody]
    /\ dispatchFailed = [r \in Runs |-> FALSE]
    /\ createdToday = {}
    /\ dispatch = [r \in Runs |-> NoDispatch]
    /\ executionStarted = [r \in Runs |-> FALSE]
    /\ log = [r \in Runs |-> <<>>]
    /\ age = [r \in Runs |-> 0]
    /\ executions = [r \in Runs |-> 0]
    /\ rpc = [p \in Requests |-> "idle"]
    /\ target = [p \in Requests |-> Nobody]
    /\ at = [p \in Requests |-> "unsent"]
    /\ redelivered = [p \in Requests |-> FALSE]
    /\ retries = [p \in Requests |-> 0]
    /\ wpc = [w \in Workers |-> "idle"]
    /\ job = [w \in Workers |-> Nobody]
    /\ seen = [w \in Workers |-> NoRow]
    /\ lost = 0
    /\ killed = 0

SetStatus(r, s) == status' = [status EXCEPT ![r] = s]
AppendEvent(r, e) == log' = [log EXCEPT ![r] = Append(@, e)]

(***************************************************************************)
(* Admission: admit() holds the owner's row lock over the quota counts and *)
(* the insert, so it is one step.  A refusal (foreign key, 409, quota, IP  *)
(* quota or cache outage) changes nothing and is a stuttering step; the IP *)
(* counter itself is not part of this module.                              *)
(***************************************************************************)
Owned(u) == {r \in Runs : owner[r] = u /\ ~dispatchFailed[r]}

MutCountsAsActive(s) == s \in {"queued", "planning"}
CountsAsActive(s) == s \in {"queued"} \cup Active

MutWithinQuota(u) ==
    /\ Cardinality(Owned(u) \cap createdToday) <= DailyLimit
    /\ Cardinality({r \in Owned(u) : CountsAsActive(status[r])}) < ConcurrentLimit
WithinQuota(u) ==
    /\ Cardinality(Owned(u) \cap createdToday) < DailyLimit
    /\ Cardinality({r \in Owned(u) : CountsAsActive(status[r])}) < ConcurrentLimit

Pending == [state |-> "pending", token |-> Nobody]

Create(p, u, r) ==
    /\ rpc[p] = "idle"
    /\ status[r] = "absent"
    /\ WithinQuota(u)
    /\ SetStatus(r, "queued")
    /\ owner' = [owner EXCEPT ![r] = u]
    /\ createdToday' = createdToday \cup {r}
    /\ dispatch' = [dispatch EXCEPT ![r] = Pending]
    /\ AppendEvent(r, "run.created")
    /\ rpc' = [rpc EXCEPT ![p] = "deliver"]
    /\ target' = [target EXCEPT ![p] = r]
    /\ UNCHANGED <<dispatchFailed, executionStarted, age, executions, brokerVars, workerVars, faultVars>>

\* The same key after a confirmed dispatch failure puts the same row back in the queue.
RetryDispatch(p, u, r) ==
    /\ rpc[p] = "idle"
    /\ owner[r] = u
    /\ dispatchFailed[r] /\ status[r] = "failed"
    /\ WithinQuota(u)
    /\ SetStatus(r, "queued")
    /\ dispatchFailed' = [dispatchFailed EXCEPT ![r] = FALSE]
    /\ dispatch' = [dispatch EXCEPT ![r] = Pending]
    /\ executionStarted' = [executionStarted EXCEPT ![r] = FALSE]
    /\ rpc' = [rpc EXCEPT ![p] = "deliver"]
    /\ target' = [target EXCEPT ![p] = r]
    /\ UNCHANGED <<owner, createdToday, log, age, executions, brokerVars, workerVars, faultVars>>

Reuse(p, u, r) ==
    /\ rpc[p] = "idle"
    /\ status[r] # "absent" /\ owner[r] = u
    /\ ~(dispatchFailed[r] /\ status[r] = "failed")
    /\ rpc' = [rpc EXCEPT ![p] = "deliver"]
    /\ target' = [target EXCEPT ![p] = r]
    /\ UNCHANGED <<rowVars, brokerVars, workerVars, faultVars>>

(***************************************************************************)
(* Publication: _deliver() marks the row as being sent, calls the broker   *)
(* outside any transaction, and records the outcome under its token.       *)
(***************************************************************************)
MayPublish(r) ==
    /\ status[r] = "queued"
    /\ dispatch[r].state # "sent"
    /\ dispatch[r].state = "sending" => age[r] >= SendTimeout

BeginDelivery(p) ==
    LET r == target[p] IN
    /\ rpc[p] = "deliver"
    /\ MayPublish(r)
    /\ dispatch' = [dispatch EXCEPT ![r] = [state |-> "sending", token |-> p]]
    /\ age' = [age EXCEPT ![r] = 0]
    /\ rpc' = [rpc EXCEPT ![p] = "publishing"]
    /\ UNCHANGED <<status, owner, dispatchFailed, createdToday, executionStarted, log, executions,
                   target, brokerVars, workerVars, faultVars>>

\* Already sent, already running, terminal, or another publication is under way (503).
SkipDelivery(p) ==
    /\ rpc[p] = "deliver"
    /\ ~MayPublish(target[p])
    /\ rpc' = [rpc EXCEPT ![p] = "done"]
    /\ UNCHANGED <<rowVars, target, brokerVars, workerVars, faultVars>>

\* The broker takes the message; the call may report success or fail all the same.
PublishReaches(p) ==
    /\ rpc[p] = "publishing"
    /\ at' = [at EXCEPT ![p] = "queued"]
    /\ \E outcome \in {"published", "failing"} : rpc' = [rpc EXCEPT ![p] = outcome]
    /\ UNCHANGED <<rowVars, target, redelivered, retries, workerVars, faultVars>>

PublishIsLost(p) ==
    /\ rpc[p] = "publishing"
    /\ rpc' = [rpc EXCEPT ![p] = "failing"]
    /\ UNCHANGED <<rowVars, target, brokerVars, workerVars, faultVars>>

\* The exception handler: only the current token may fail a run that nobody has claimed.
RecordFailure(p) ==
    LET r == target[p] IN
    /\ rpc[p] = "failing"
    /\ IF status[r] = "queued" /\ dispatch[r].token = p
       THEN /\ SetStatus(r, "failed")
            /\ dispatchFailed' = [dispatchFailed EXCEPT ![r] = TRUE]
            /\ dispatch' = [dispatch EXCEPT ![r].state = "failed"]
       ELSE UNCHANGED <<status, dispatchFailed, dispatch>>
    /\ rpc' = [rpc EXCEPT ![p] = "done"]
    /\ UNCHANGED <<owner, createdToday, executionStarted, log, age, executions,
                   target, brokerVars, workerVars, faultVars>>

\* Bug: the success handler saves the meta it read before the call.
MutRecordSuccess(p) ==
    LET r == target[p] IN
    /\ rpc[p] = "published"
    /\ dispatch' = [dispatch EXCEPT ![r].state = "sent"]
    /\ executionStarted' = [executionStarted EXCEPT ![r] = FALSE]
    /\ rpc' = [rpc EXCEPT ![p] = "done"]
    /\ UNCHANGED <<status, owner, dispatchFailed, createdToday, log, age, executions,
                   target, brokerVars, workerVars, faultVars>>
RecordSuccess(p) ==
    LET r == target[p] IN
    /\ rpc[p] = "published"
    /\ dispatch' = IF dispatch[r].token = p
                   THEN [dispatch EXCEPT ![r].state = "sent"]
                   ELSE dispatch
    /\ rpc' = [rpc EXCEPT ![p] = "done"]
    /\ UNCHANGED <<status, owner, dispatchFailed, createdToday, executionStarted, log, age, executions,
                   target, brokerVars, workerVars, faultVars>>

\* The web process dies between two transactions of the request.
WebCrash(p) ==
    /\ rpc[p] \notin {"idle", "done"}
    /\ rpc' = [rpc EXCEPT ![p] = "done"]
    /\ UNCHANGED <<rowVars, target, brokerVars, workerVars, faultVars>>

(***************************************************************************)
(* Cancellation by the user: cancel_research_run() under the row lock.     *)
(***************************************************************************)
Cancel(r) ==
    /\ status[r] \notin Terminal \cup {"absent", "cancelling"}
    /\ IF status[r] = "queued"
       THEN SetStatus(r, "cancelled") /\ AppendEvent(r, "run.cancelled")
       ELSE SetStatus(r, "cancelling") /\ AppendEvent(r, "run.cancel.requested")
    /\ UNCHANGED <<owner, dispatchFailed, createdToday, dispatch, executionStarted, age, executions,
                   requestVars, brokerVars, workerVars, faultVars>>

\* Bug: finish_cancellation trusts the status its caller saw.
MutFinishCancellation(r) == SetStatus(r, "cancelled") /\ AppendEvent(r, "run.cancelled")
FinishCancellation(r) ==
    IF status[r] = "cancelling"
    THEN SetStatus(r, "cancelled") /\ AppendEvent(r, "run.cancelled")
    ELSE UNCHANGED <<status, log>>

(***************************************************************************)
(* The task.  Taking a message reads the row once; what follows depends on *)
(* what was read.  A message put back by self.retry becomes visible when   *)
(* its countdown, RecoveryDelay after the execution started, has passed.   *)
(***************************************************************************)
RunOf(w) == target[job[w]]
Running(w) == wpc[w] \in {"claimed", "executing", "saved", "completed"}
RunningOn(r) == \E w \in Workers : Running(w) /\ RunOf(w) = r

Deliverable(w, p) ==
    /\ wpc[w] = "idle"
    /\ at[p] = "queued"
    /\ retries[p] > 0 => age[target[p]] >= RecoveryDelay

IsRecovery(p) == redelivered[p] \/ retries[p] > 0

Take(w, p, pc) ==
    /\ at' = [at EXCEPT ![p] = w]
    /\ wpc' = [wpc EXCEPT ![w] = pc]
    /\ job' = [job EXCEPT ![w] = p]
    /\ seen' = [seen EXCEPT ![w] = [status |-> status[target[p]], dispatch |-> dispatch[target[p]]]]
    /\ UNCHANGED <<redelivered, retries>>

TakeToExecute(w, p) ==
    /\ Deliverable(w, p)
    /\ status[target[p]] \notin Active
    /\ Take(w, p, "claim")
    /\ UNCHANGED <<rowVars, requestVars, faultVars>>

\* Another message's execution is under way, or it left no start time (manual review).
DropDuplicate(w, p) ==
    /\ Deliverable(w, p)
    /\ status[target[p]] \in Active
    /\ IsRecovery(p) => ~executionStarted[target[p]]
    /\ at' = [at EXCEPT ![p] = "acked"]
    /\ UNCHANGED <<rowVars, requestVars, redelivered, retries, workerVars, faultVars>>

NeedsRecovery(p) ==
    /\ status[target[p]] \in Active
    /\ IsRecovery(p)
    /\ executionStarted[target[p]]

\* self.retry(countdown=remaining + 1, max_retries=3); past the maximum the task fails.
DeferRecovery(w, p) ==
    /\ Deliverable(w, p)
    /\ NeedsRecovery(p)
    /\ age[target[p]] < RecoveryDelay
    /\ IF retries[p] < MaxRetries
       THEN /\ retries' = [retries EXCEPT ![p] = @ + 1]
            /\ redelivered' = [redelivered EXCEPT ![p] = FALSE]
            /\ UNCHANGED at
       ELSE /\ at' = [at EXCEPT ![p] = "acked"]
            /\ UNCHANGED <<redelivered, retries>>
    /\ UNCHANGED <<rowVars, requestVars, workerVars, faultVars>>

\* Bug: a redelivered message recovers the run without waiting.
MutTakeToRecover(w, p) ==
    /\ Deliverable(w, p)
    /\ NeedsRecovery(p)
    /\ status[target[p]] # "cancelling"
    /\ Take(w, p, "recover")
    /\ UNCHANGED <<rowVars, requestVars, faultVars>>
TakeToRecover(w, p) ==
    /\ Deliverable(w, p)
    /\ NeedsRecovery(p)
    /\ age[target[p]] >= RecoveryDelay
    /\ status[target[p]] # "cancelling"
    /\ Take(w, p, "recover")
    /\ UNCHANGED <<rowVars, requestVars, faultVars>>

\* The row read as cancelling: finish_cancellation re-reads it under the lock.
TakeToFinishCancellation(w, p) ==
    /\ Deliverable(w, p)
    /\ NeedsRecovery(p)
    /\ age[target[p]] >= RecoveryDelay
    /\ status[target[p]] = "cancelling"
    /\ Take(w, p, "cancel")
    /\ UNCHANGED <<rowVars, requestVars, faultVars>>

\* What a worker read is used by its next step alone; Step forgets it.
Step(w, pc) ==
    /\ wpc' = [wpc EXCEPT ![w] = pc]
    /\ seen' = [seen EXCEPT ![w] = NoRow]
    /\ UNCHANGED job

FinishOrphan(w) ==
    /\ wpc[w] = "cancel"
    /\ FinishCancellation(RunOf(w))
    /\ Step(w, "returning")
    /\ UNCHANGED <<owner, dispatchFailed, createdToday, dispatch, executionStarted, age, executions,
                   requestVars, brokerVars, faultVars>>

\* Bugs: no compare-and-set on the status; a status outside the choices.
MutRecoverBlind(w) ==
    /\ wpc[w] = "recover"
    /\ SetStatus(RunOf(w), "failed")
    /\ Step(w, "recovered")
    /\ UNCHANGED <<owner, dispatchFailed, createdToday, dispatch, executionStarted, log, age, executions,
                   requestVars, brokerVars, faultVars>>
MutRecoverInterrupted(w) ==
    /\ wpc[w] = "recover"
    /\ SetStatus(RunOf(w), "interrupted")
    /\ Step(w, "recovered")
    /\ UNCHANGED <<owner, dispatchFailed, createdToday, dispatch, executionStarted, log, age, executions,
                   requestVars, brokerVars, faultVars>>
Recover(w) ==
    /\ wpc[w] = "recover"
    /\ IF status[RunOf(w)] = seen[w].status
       THEN SetStatus(RunOf(w), "failed") /\ Step(w, "recovered")
       ELSE UNCHANGED status /\ Step(w, "returning")
    /\ UNCHANGED <<owner, dispatchFailed, createdToday, dispatch, executionStarted, log, age, executions,
                   requestVars, brokerVars, faultVars>>

\* The event is a transaction of its own, after the status is committed.
LogRecovered(w) ==
    /\ wpc[w] = "recovered"
    /\ AppendEvent(RunOf(w), "run.failed")
    /\ Step(w, "returning")
    /\ UNCHANGED <<status, owner, dispatchFailed, createdToday, dispatch, executionStarted, age, executions,
                   requestVars, brokerVars, faultVars>>

(***************************************************************************)
(* Execution: execute_research_run() claims the row by a compare-and-set   *)
(* that also writes back the dispatch_meta read before it.                 *)
(***************************************************************************)
ClaimRow(w) ==
    /\ SetStatus(RunOf(w), "planning")
    /\ dispatch' = [dispatch EXCEPT ![RunOf(w)] = seen[w].dispatch]
    /\ executionStarted' = [executionStarted EXCEPT ![RunOf(w)] = TRUE]
    /\ age' = [age EXCEPT ![RunOf(w)] = 0]
    /\ Step(w, "claimed")

\* Bugs: the claim is not conditional; the claim excludes the wrong statuses.
MutClaimAlways(w) ==
    /\ wpc[w] = "claim"
    /\ ClaimRow(w)
    /\ UNCHANGED <<owner, dispatchFailed, createdToday, log, executions,
                   requestVars, brokerVars, faultVars>>
MutClaimFailed(w) ==
    /\ wpc[w] = "claim"
    /\ IF status[RunOf(w)] \notin {"succeeded", "cancelled"} \cup Active
       THEN ClaimRow(w)
       ELSE Step(w, "returning") /\ UNCHANGED <<status, dispatch, executionStarted, age>>
    /\ UNCHANGED <<owner, dispatchFailed, createdToday, log, executions,
                   requestVars, brokerVars, faultVars>>
Claim(w) ==
    /\ wpc[w] = "claim"
    /\ IF status[RunOf(w)] = "queued"
       THEN ClaimRow(w)
       ELSE Step(w, "returning") /\ UNCHANGED <<status, dispatch, executionStarted, age>>
    /\ UNCHANGED <<owner, dispatchFailed, createdToday, log, executions,
                   requestVars, brokerVars, faultVars>>

\* The row is re-read after the claim: a cancellation in between stops the run unpaid.
Begin(w) ==
    /\ wpc[w] = "claimed"
    /\ IF status[RunOf(w)] \in {"cancelled", "cancelling"}
       THEN /\ FinishCancellation(RunOf(w))
            /\ Step(w, "returning")
            /\ UNCHANGED executions
       ELSE /\ executions' = [executions EXCEPT ![RunOf(w)] = @ + 1]
            /\ Step(w, "executing")
            /\ UNCHANGED <<status, log>>
    /\ UNCHANGED <<owner, dispatchFailed, createdToday, dispatch, executionStarted, age,
                   requestVars, brokerVars, faultVars>>

\* Bug: the outcome is saved without looking at the row again.
MutSaveOutcome(w) ==
    /\ wpc[w] = "executing"
    /\ \E outcome \in {"succeeded", "failed"} : SetStatus(RunOf(w), outcome)
    /\ Step(w, "saved")
    /\ UNCHANGED <<owner, dispatchFailed, createdToday, dispatch, executionStarted, log, age, executions,
                   requestVars, brokerVars, faultVars>>
SaveOutcome(w) ==
    /\ wpc[w] = "executing"
    /\ IF status[RunOf(w)] \in {"cancelled", "cancelling"}
       THEN FinishCancellation(RunOf(w)) /\ Step(w, "returning")
       ELSE /\ \E outcome \in {"succeeded", "failed"} : SetStatus(RunOf(w), outcome)
            /\ Step(w, "saved")
            /\ UNCHANGED log
    /\ UNCHANGED <<owner, dispatchFailed, createdToday, dispatch, executionStarted, age, executions,
                   requestVars, brokerVars, faultVars>>

LogCompleted(w) ==
    /\ wpc[w] = "saved"
    /\ AppendEvent(RunOf(w), "run.completed")
    /\ Step(w, "completed")
    /\ UNCHANGED <<status, owner, dispatchFailed, createdToday, dispatch, executionStarted, age, executions,
                   requestVars, brokerVars, faultVars>>

(***************************************************************************)
(* Any exception of the try block, the soft time limit's included.  The    *)
(* block covers everything from the graph to the return, so it may strike  *)
(* after the outcome or its event is committed.                            *)
(***************************************************************************)
Raise(w) ==
    /\ wpc[w] \in {"executing", "saved", "completed"}
    /\ IF status[RunOf(w)] \in {"cancelled", "cancelling"}
       THEN FinishCancellation(RunOf(w))
       ELSE SetStatus(RunOf(w), "failed") /\ AppendEvent(RunOf(w), "run.failed")
    /\ Step(w, "returning")
    /\ UNCHANGED <<owner, dispatchFailed, createdToday, dispatch, executionStarted, age, executions,
                   requestVars, brokerVars, faultVars>>

\* The worker lets go of its message: acknowledged, or put back marked redelivered,
\* unless the broker has already taken it back.
Release(w, where) ==
    /\ IF at[job[w]] = w
       THEN /\ at' = [at EXCEPT ![job[w]] = where]
            /\ redelivered' = [redelivered EXCEPT ![job[w]] = (where = "queued")]
       ELSE UNCHANGED <<at, redelivered>>
    /\ wpc' = [wpc EXCEPT ![w] = "idle"]
    /\ job' = [job EXCEPT ![w] = Nobody]
    /\ seen' = [seen EXCEPT ![w] = NoRow]

Return(w) ==
    /\ wpc[w] \in {"returning", "completed"}
    /\ Release(w, "acked")
    /\ UNCHANGED <<rowVars, requestVars, retries, faultVars>>

(***************************************************************************)
(* Faults.  acks_late and reject_on_worker_lost put the message of a lost  *)
(* worker back, marked redelivered; a lost broker connection puts it back  *)
(* while the worker carries on.  A task killed by time_limit=100 is        *)
(* acknowledged (Celery's default acks_on_failure_or_timeout).             *)
(***************************************************************************)
\* Bug: the message is acknowledged when it is received.
MutWorkerLost(w) ==
    /\ wpc[w] # "idle" /\ lost < MaxLost
    /\ Release(w, "acked")
    /\ lost' = lost + 1
    /\ UNCHANGED <<rowVars, requestVars, retries, killed>>
WorkerLost(w) ==
    /\ wpc[w] # "idle" /\ lost < MaxLost
    /\ Release(w, "queued")
    /\ lost' = lost + 1
    /\ UNCHANGED <<rowVars, requestVars, retries, killed>>

Reconnect(w) ==
    /\ wpc[w] # "idle" /\ lost < MaxLost
    /\ at[job[w]] = w
    /\ redelivered' = [redelivered EXCEPT ![job[w]] = TRUE]
    /\ at' = [at EXCEPT ![job[w]] = "queued"]
    /\ lost' = lost + 1
    /\ UNCHANGED <<rowVars, requestVars, retries, workerVars, killed>>

HardKill(w) ==
    /\ Running(w) /\ killed < MaxKilled
    /\ age[RunOf(w)] >= HardLimit
    /\ Release(w, "acked")
    /\ killed' = killed + 1
    /\ UNCHANGED <<rowVars, requestVars, retries, lost>>

(***************************************************************************)
(* Time.  The clock of a row runs while some decision still depends on it. *)
(* Celery's hard limit keeps an execution from outliving HardLimit.        *)
(***************************************************************************)
ClockMatters(r) ==
    \/ status[r] = "queued" /\ dispatch[r].state = "sending" /\ age[r] < SendTimeout
    \/ status[r] \in Active
    \/ RunningOn(r)
    \/ \E p \in Requests : target[p] = r /\ at[p] = "queued" /\ retries[p] > 0

Tick(r) ==
    /\ ClockMatters(r)
    /\ age[r] < RecoveryDelay
    /\ RunningOn(r) => age[r] < HardLimit
    /\ age' = [age EXCEPT ![r] = @ + 1]
    /\ UNCHANGED <<status, owner, dispatchFailed, createdToday, dispatch, executionStarted, log, executions,
                   requestVars, brokerVars, workerVars, faultVars>>

Midnight ==
    /\ createdToday # {}
    /\ createdToday' = {}
    /\ UNCHANGED <<status, owner, dispatchFailed, dispatch, executionStarted, log, age, executions,
                   requestVars, brokerVars, workerVars, faultVars>>

--------------------------------------------------------------------------------
Admit(p) == \E u \in Users, r \in Runs : Create(p, u, r) \/ RetryDispatch(p, u, r) \/ Reuse(p, u, r)

Deliver(p) ==
    \/ BeginDelivery(p) \/ SkipDelivery(p) \/ PublishReaches(p) \/ PublishIsLost(p)
    \/ RecordFailure(p) \/ RecordSuccess(p)

TakeMessage(w, p) ==
    \/ TakeToExecute(w, p) \/ DropDuplicate(w, p) \/ DeferRecovery(w, p)
    \/ TakeToRecover(w, p) \/ TakeToFinishCancellation(w, p)

Work(w) ==
    \/ FinishOrphan(w) \/ Recover(w) \/ LogRecovered(w)
    \/ Claim(w) \/ Begin(w) \/ SaveOutcome(w) \/ LogCompleted(w) \/ Raise(w) \/ Return(w)

Fault(w) == WorkerLost(w) \/ Reconnect(w) \/ HardKill(w)

Next ==
    \/ \E p \in Requests : Admit(p) \/ Deliver(p) \/ WebCrash(p)
    \/ \E w \in Workers : (\E p \in Requests : TakeMessage(w, p)) \/ Work(w) \/ Fault(w)
    \/ \E r \in Runs : Cancel(r) \/ Tick(r)
    \/ Midnight

Spec == Init /\ [][Next]_vars

--------------------------------------------------------------------------------
\* Every variable keeps its type: a row's status is one of the choices the code
\* knows, a message is retried at most max_retries times.
TypeOK ==
    /\ status \in [Runs -> Statuses]
    /\ owner \in [Runs -> Users \cup {Nobody}]
    /\ dispatchFailed \in [Runs -> BOOLEAN]
    /\ createdToday \in SUBSET Runs
    /\ dispatch \in [Runs -> Dispatch]
    /\ executionStarted \in [Runs -> BOOLEAN]
    /\ log \in [Runs -> Seq(EventTypes)]
    /\ age \in [Runs -> 0..RecoveryDelay]
    /\ executions \in [Runs -> Nat]
    /\ rpc \in [Requests -> {"idle", "deliver", "publishing", "published", "failing", "done"}]
    /\ target \in [Requests -> Runs \cup {Nobody}]
    /\ at \in [Requests -> {"unsent", "queued", "acked"} \cup Workers]
    /\ redelivered \in [Requests -> BOOLEAN]
    /\ retries \in [Requests -> 0..MaxRetries]
    /\ wpc \in [Workers -> {"idle", "claim", "claimed", "executing", "saved", "completed",
                            "recover", "recovered", "cancel", "returning"}]
    /\ job \in [Workers -> Requests \cup {Nobody}]
    /\ seen \in [Workers -> [status: Statuses, dispatch: Dispatch]]
    /\ lost \in 0..MaxLost
    /\ killed \in 0..MaxKilled

\* The research graph, which calls the paid model, is started at most once for a
\* run, whatever is published twice, redelivered or retried ("Never repeat an
\* uncertain paid operation", tasks.py).
ExecutedAtMostOnce == \A r \in Runs : executions[r] <= 1

\* An owner never has more than ConcurrentLimit runs that are queued, at work or
\* being cancelled, however requests, retries and cancellations interleave.
ConcurrencyQuota ==
    \A u \in Users :
        Cardinality({r \in Runs : owner[r] = u /\ status[r] \in {"queued"} \cup Active}) <= ConcurrentLimit

\* An owner never has more than DailyLimit runs of the same day, not counting those
\* whose dispatch failed: a retry of such a run takes its place in the quota again.
DailyQuota ==
    \A u \in Users : Cardinality(Owned(u) \cap createdToday) <= DailyLimit

\* A run waiting to be claimed, or failed because its dispatch failed, has not been
\* executed and no worker is at work on it: a late delivery of a message reported
\* as failed cannot run it behind the answer the user got.
UnclaimedNotExecuted ==
    \A r \in Runs :
        status[r] \in {"absent", "queued"} \/ dispatchFailed[r] => executions[r] = 0 /\ ~RunningOn(r)

\* While a worker executes a run, no other worker is past the point where it
\* declares the run's worker interrupted: 130 s is enough after a 100 s hard limit.
NoRecoveryWhileRunning ==
    \A v, w \in Workers :
        Running(v) /\ wpc[w] \in {"recover", "cancel"} => RunOf(v) # RunOf(w)

\* A run is cancelled exactly when its log says so, and the log says it once.
CancellationRecorded ==
    \A r \in Runs :
        Cardinality({i \in DOMAIN log[r] : log[r][i] = "run.cancelled"})
            = (IF status[r] = "cancelled" THEN 1 ELSE 0)

\* A claimed run that is not finished carries its start time, so that a redelivery
\* can recover it instead of leaving it to "manual_review" for ever.
RecoverableRows ==
    \A r \in Runs : status[r] \in Active => executionStarted[r]

\* A queued run that the web process reports as sent has a message that a worker
\* holds or will receive: an accepted run is not silently lost.
SentRunIsDeliverable ==
    \A r \in Runs :
        status[r] = "queued" /\ dispatch[r].state = "sent"
            => \E p \in Requests : target[p] = r /\ at[p] \notin {"unsent", "acked"}

\* Once cancellation is requested, nothing but "cancelled" can become of the run:
\* neither an outcome computed meanwhile nor a recovery overwrites it.
CancelIsHonoured ==
    [][\A r \in Runs : status[r] = "cancelling" => status'[r] \in {"cancelling", "cancelled"}]_vars

\* Under fair workers that are not killed, a run whose message was accepted leaves
\* the queue and its work stops: it ends, or only its cancellation is outstanding.
SentRunsResolve ==
    \A r \in Runs :
        status[r] = "queued" /\ dispatch[r].state = "sent" ~> status[r] \in Terminal \cup {"cancelling"}

\* Refuted: interrupted work becomes terminal once its message is redelivered, also
\* when it is cancelled meanwhile.
CancellationCompletes ==
    \A r \in Runs : status[r] = "cancelling" ~> status[r] \in Terminal

\* The protocol implements the life cycle the runtime promises (RunLifecycle): a
\* run starts once, from the queue, is paid for once and only while nobody has asked
\* to cancel it, and changes its terminal state only as Overturn says.
Life == INSTANCE RunLifecycle WITH
    phase <- [r \in Runs |-> CASE dispatchFailed[r] -> "undelivered"
                               [] status[r] = "planning" -> "running"
                               [] OTHER -> status[r]],
    paid <- [r \in Runs |-> executions[r] > 0]
ImplementsLifecycle == Life!Spec

\* The worker process takes what is queued and finishes what it has begun; time
\* passes.  Nothing is assumed of the web process, the user or the faults.
Fairness ==
    /\ \A w \in Workers : WF_vars((\E p \in Requests : TakeMessage(w, p)) \/ Work(w))
    /\ \A r \in Runs : WF_vars(Tick(r))

FairSpec == Spec /\ Fairness
================================================================================
