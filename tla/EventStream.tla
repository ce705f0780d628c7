------------------------------ MODULE EventStream ------------------------------
(***************************************************************************)
(* How a browser tab follows a run: the events a run appends under its row *)
(* lock, the SSE handler that polls them (research_run_events in views.py) *)
(* and the page's script (templates/agent_runtime/research.html), which    *)
(* mixes the stream with status requests of its own.                       *)
(*                                                                         *)
(* One run and one tab.  The run is ResearchRun's, with the steps that     *)
(* change its status or its log and nothing else, the failed dispatch and  *)
(* its retry among them; the messages of the broker are one, which is      *)
(* there again after a retry.  append_event numbers the events under the   *)
(* row lock, so an event's id is its place in the log.                     *)
(***************************************************************************)
EXTENDS Naturals, Sequences

CONSTANTS
    PageSize,       \* events per poll: [:100]
    MaxProgress,    \* bound: progress events
    MaxFaults,      \* bound: failed dispatches, lost workers, broken connections, failed requests
    MaxRefused,     \* bound: reconnections answered with an HTTP error
    MaxCancels      \* bound: clicks on the page's cancel button

ASSUME EventStreamAssumption ==
    PageSize \in Nat \ {0} /\ {MaxProgress, MaxFaults, MaxRefused, MaxCancels} \subseteq Nat

VARIABLES
    status, log, worker,            \* the run, its events, the process that executes it
    dispatchFailed,                 \* trigger is research_dispatch_failed
    handler, cursor, page,          \* the SSE handler: program point, last_sequence, events read
    wire,                           \* ids sent and not yet dispatched by the browser
    source, lastId,                 \* the EventSource and its Last-Event-ID
    shown, handled,                 \* currentStatus; the ids of the events handled
    sync, again, throttled,         \* syncRun in flight, syncAgain, lastStreamSync within 3 s
    cancel,                         \* the cancel request in flight
    misled,                         \* history: "failed" was shown or on its way when it was retried
    faults, refused, cancels

runVars == <<status, log, worker, dispatchFailed, misled>>
streamVars == <<handler, cursor, page, wire, source, lastId, handled>>
syncVars == <<sync, again, throttled>>
boundVars == <<faults, refused, cancels>>
vars == <<runVars, streamVars, shown, syncVars, cancel, boundVars>>

Terminal == {"succeeded", "failed", "cancelled"}
Statuses == {"queued", "working", "cancelling"} \cup Terminal
EventTypes == {"run.created", "progress", "run.cancel.requested", "run.completed", "run.cancelled", "run.failed"}

\* A tab that has just submitted the run follows it at once; a restored one asks for
\* its status as well.
Init ==
    /\ status = "queued" /\ log = <<"run.created">> /\ worker = "idle"
    /\ dispatchFailed = FALSE /\ misled = FALSE
    /\ handler = "none" /\ cursor = 0 /\ page = <<>> /\ wire = <<>>
    /\ source = "connecting" /\ lastId = 0
    /\ shown = "queued" /\ handled = <<>>
    /\ sync \in {"idle", "asked"} /\ again = FALSE /\ throttled = FALSE
    /\ cancel = "idle"
    /\ faults = 0 /\ refused = 0 /\ cancels = 0

Fault == faults < MaxFaults /\ faults' = faults + 1 /\ UNCHANGED <<refused, cancels>>

(***************************************************************************)
(* The run.                                                                *)
(***************************************************************************)
Append1(e) == log' = Append(log, e)

\* The broker refuses the message; the run fails without an event.
DispatchFails ==
    /\ status = "queued" /\ ~dispatchFailed
    /\ status' = "failed" /\ dispatchFailed' = TRUE
    /\ Fault
    /\ UNCHANGED <<log, worker, misled>>

\* A request with the same key puts the row back in the queue, again without an event, and
\* sends another message.
RetryDispatch ==
    /\ status = "failed" /\ dispatchFailed
    /\ status' = "queued" /\ dispatchFailed' = FALSE /\ worker' = "idle"
    /\ misled' = (misled \/ "failed" \in {shown, sync, cancel})
    /\ UNCHANGED log

Claim ==
    /\ worker = "idle"
    /\ IF status = "queued" THEN status' = "working" /\ worker' = "executing"
                            ELSE worker' = "done" /\ UNCHANGED status
    /\ UNCHANGED log

Progress ==
    /\ worker = "executing" /\ Len(log) <= MaxProgress
    /\ Append1("progress")
    /\ UNCHANGED <<status, worker>>

FinishCancellation ==
    IF status = "cancelling" THEN status' = "cancelled" /\ Append1("run.cancelled")
                             ELSE UNCHANGED <<status, log>>

SaveOutcome ==
    /\ worker = "executing"
    /\ IF status \in {"cancelling", "cancelled"}
       THEN FinishCancellation /\ worker' = "done"
       ELSE status' \in {"succeeded", "failed"} /\ worker' = "saved" /\ UNCHANGED log

\* "run.completed" is appended whatever the outcome was, after it is committed.
LogCompleted ==
    /\ worker = "saved"
    /\ Append1("run.completed") /\ worker' = "completed"
    /\ UNCHANGED status

Raise ==
    /\ worker \in {"executing", "saved", "completed"}
    /\ IF status \in {"cancelling", "cancelled"} THEN FinishCancellation
                                                 ELSE status' = "failed" /\ Append1("run.failed")
    /\ worker' = "done"

Return == worker = "completed" /\ worker' = "done" /\ UNCHANGED <<status, log>>

\* Bug: a recovered run gets a status that is not one of the choices.
MutRecover ==
    /\ worker = "lost" /\ status \notin Terminal
    /\ IF status = "cancelling" THEN FinishCancellation /\ worker' = "done"
                                ELSE status' = "interrupted" /\ worker' = "recovered" /\ UNCHANGED log
Recover ==
    /\ worker = "lost" /\ status \notin Terminal
    /\ IF status = "cancelling" THEN FinishCancellation /\ worker' = "done"
                                ELSE status' = "failed" /\ worker' = "recovered" /\ UNCHANGED log

LogRecovered ==
    /\ worker = "recovered"
    /\ Append1("run.failed") /\ worker' = "done"
    /\ UNCHANGED status

WorkerLost ==
    /\ worker \in {"executing", "saved", "completed", "recovered"}
    /\ worker' = "lost"
    /\ Fault
    /\ UNCHANGED <<status, log>>

\* Bug: the event says that the run is cancelled while its worker is still to stop.
MutCancelRun ==
    /\ status' = IF status = "queued" THEN "cancelled" ELSE "cancelling"
    /\ Append1("run.cancelled")
CancelRun ==
    IF status = "queued" THEN status' = "cancelled" /\ Append1("run.cancelled")
                         ELSE status' = "cancelling" /\ Append1("run.cancel.requested")

CancelElsewhere ==
    /\ status \notin Terminal \cup {"cancelling"}
    /\ CancelRun
    /\ UNCHANGED worker

(***************************************************************************)
(* The SSE handler: it reads at most PageSize events, then the status, in  *)
(* two queries; it ends when the run was terminal and nothing was read, or *)
(* at its deadline, which may pass at the end of any round.                *)
(***************************************************************************)
Number(n) == [i \in 1..n |-> i]
Lesser(m, n) == IF m < n THEN m ELSE n

ReadEvents ==
    /\ handler = "events"
    /\ page' = SubSeq(Number(Len(log)), cursor + 1, Lesser(cursor + PageSize, Len(log)))
    /\ handler' = "status"
    /\ UNCHANGED <<cursor, wire, source, lastId, handled>>

Send ==
    /\ handler = "status"
    /\ wire' = wire \o page
    /\ cursor' = cursor + Len(page)
    /\ IF status \in Terminal /\ page = <<>> THEN handler' = "ended"
                                             ELSE handler' \in {"events", "ended"}
    /\ page' = <<>>
    /\ UNCHANGED <<source, lastId, handled>>

(***************************************************************************)
(* syncRun: one status request at a time, and one more if asked meanwhile. *)
(***************************************************************************)
SyncRun == IF sync = "idle" THEN sync' = "asked" /\ UNCHANGED again
                            ELSE again' = TRUE /\ UNCHANGED sync

SyncEnds == /\ sync' = (IF again THEN "asked" ELSE "idle")
            /\ again' = FALSE
            /\ UNCHANGED throttled

\* The page closes its stream: what is still on the wire is never dispatched.
CloseStream ==
    /\ source' = "closed" /\ handler' = "none" /\ wire' = <<>> /\ page' = <<>>

SyncRead ==
    /\ sync = "asked"
    /\ sync' = status
    /\ UNCHANGED <<streamVars, shown, again, throttled>>

\* Bug: a late answer is shown over the outcome that the stream has brought meanwhile.
MutSyncAnswer ==
    /\ sync \in Statuses
    /\ shown' = sync
    /\ IF sync \in Terminal THEN CloseStream /\ UNCHANGED <<cursor, lastId, handled>>
                            ELSE UNCHANGED streamVars
    /\ SyncEnds
SyncAnswer ==
    /\ sync \in Statuses
    /\ IF shown \in Terminal /\ sync \notin Terminal
       THEN UNCHANGED <<streamVars, shown>>
       ELSE /\ shown' = sync
            /\ IF sync \in Terminal THEN CloseStream /\ UNCHANGED <<cursor, lastId, handled>>
                                    ELSE UNCHANGED streamVars
    /\ SyncEnds

SyncFails ==
    /\ sync # "idle"
    /\ SyncEnds
    /\ Fault
    /\ UNCHANGED <<streamVars, shown>>

\* The refresh button, or the browser coming back online.
Refresh == SyncRun /\ UNCHANGED <<streamVars, shown, throttled>>

ThrottleEnds == throttled /\ throttled' = FALSE /\ UNCHANGED <<streamVars, shown, sync, again>>

(***************************************************************************)
(* The EventSource.  The browser reconnects by itself after a broken or    *)
(* ended response, but not after one with an HTTP error.                   *)
(***************************************************************************)
\* Bug: the handler ignores Last-Event-ID.
MutConnect ==
    /\ source = "connecting"
    /\ source' = "open" /\ handler' = "events" /\ cursor' = 0 /\ page' = <<>> /\ wire' = <<>>
    /\ UNCHANGED <<lastId, handled, shown, syncVars>>
Connect ==
    /\ source = "connecting"
    /\ source' = "open" /\ handler' = "events" /\ cursor' = lastId /\ page' = <<>> /\ wire' = <<>>
    /\ UNCHANGED <<lastId, handled, shown, syncVars>>

\* Bug: the page waits for the stream to come back.
MutOnError == UNCHANGED syncVars
OnError == IF throttled THEN UNCHANGED syncVars ELSE SyncRun /\ throttled' = TRUE

StreamEnds ==
    /\ source = "open" /\ handler = "ended" /\ wire = <<>>
    /\ source' = "connecting"
    /\ OnError
    /\ UNCHANGED <<handler, cursor, page, wire, lastId, handled, shown>>

Break ==
    /\ source = "open"
    /\ source' = "connecting" /\ handler' = "none" /\ wire' = <<>> /\ page' = <<>>
    /\ OnError
    /\ Fault
    /\ UNCHANGED <<cursor, lastId, handled, shown>>

Refuse ==
    /\ source = "connecting" /\ refused < MaxRefused
    /\ source' = "dead"
    /\ OnError
    /\ refused' = refused + 1
    /\ UNCHANGED <<handler, cursor, page, wire, lastId, handled, shown, faults, cancels>>

Outcome == [e \in {"run.completed", "run.cancelled", "run.failed"} |->
                CASE e = "run.completed" -> "succeeded"
                  [] e = "run.cancelled" -> "cancelled"
                  [] e = "run.failed" -> "failed"]

Receive ==
    /\ source = "open" /\ wire # <<>>
    /\ lastId' = Head(wire)
    /\ handled' = Append(handled, Head(wire))
    /\ LET e == log[Head(wire)] IN
       IF e \in DOMAIN Outcome
       THEN CloseStream /\ shown' = Outcome[e] /\ SyncRun
       ELSE /\ shown' = IF e = "progress" THEN "working" ELSE shown
            /\ wire' = Tail(wire)
            /\ UNCHANGED <<source, handler, page, sync, again>>
    /\ UNCHANGED <<cursor, throttled>>

(***************************************************************************)
(* The cancel button: the view cancels the run, then reads it again; the   *)
(* page shows the status of the answer whatever it shows by then.          *)
(***************************************************************************)
ClickCancel ==
    /\ cancel = "idle" /\ cancels < MaxCancels
    /\ shown \notin Terminal \cup {"cancelling"}
    /\ cancel' = "asked" /\ cancels' = cancels + 1
    /\ UNCHANGED <<runVars, streamVars, shown, syncVars, faults, refused>>

CancelCommits ==
    /\ cancel = "asked"
    /\ cancel' = "committed"
    /\ IF status \in Terminal \cup {"cancelling"} THEN UNCHANGED <<status, log>> ELSE CancelRun
    /\ UNCHANGED <<worker, dispatchFailed, misled, streamVars, shown, syncVars, boundVars>>

CancelReads ==
    /\ cancel = "committed"
    /\ cancel' = status
    /\ UNCHANGED <<runVars, streamVars, shown, syncVars, boundVars>>

CancelAnswer ==
    /\ cancel \in Statuses
    /\ shown' = cancel
    /\ IF cancel \in Terminal
       THEN CloseStream /\ SyncRun /\ UNCHANGED <<cursor, lastId, handled, throttled>>
       ELSE UNCHANGED <<streamVars, syncVars>>
    /\ cancel' = "idle"
    /\ UNCHANGED <<runVars, boundVars>>

CancelFails ==
    /\ cancel # "idle"
    /\ cancel' = "idle"
    /\ Fault
    /\ UNCHANGED <<runVars, streamVars, shown, syncVars>>

--------------------------------------------------------------------------------
Execute ==
    /\ \/ (Claim \/ Progress \/ SaveOutcome \/ LogCompleted \/ Raise \/ Return
            \/ Recover \/ LogRecovered \/ CancelElsewhere)
             /\ UNCHANGED <<boundVars, dispatchFailed, misled>>
       \/ RetryDispatch /\ UNCHANGED boundVars
       \/ WorkerLost /\ UNCHANGED <<dispatchFailed, misled>>
       \/ DispatchFails
    /\ UNCHANGED <<streamVars, shown, syncVars, cancel>>

Serve == (ReadEvents \/ Send) /\ UNCHANGED <<runVars, shown, syncVars, cancel, boundVars>>

Synchronise ==
    /\ \/ (SyncRead \/ SyncAnswer \/ Refresh \/ ThrottleEnds) /\ UNCHANGED boundVars
       \/ SyncFails
    /\ UNCHANGED <<runVars, cancel>>

Follow ==
    /\ \/ (Connect \/ StreamEnds \/ Receive) /\ UNCHANGED boundVars
       \/ Break \/ Refuse
    /\ UNCHANGED <<runVars, cancel>>

CancelHere == ClickCancel \/ CancelCommits \/ CancelReads \/ CancelAnswer \/ CancelFails

Next == Execute \/ Serve \/ Synchronise \/ Follow \/ CancelHere

Spec == Init /\ [][Next]_vars

\* The handler polls, the browser dispatches and reconnects, the page's requests are
\* answered (but for MaxFaults of them) and three seconds pass.  Nothing is assumed of
\* the worker or the user.
Fairness ==
    /\ WF_vars(Serve)
    /\ WF_vars((Connect \/ StreamEnds \/ Receive) /\ UNCHANGED <<runVars, cancel, boundVars>>)
    /\ WF_vars((SyncRead \/ SyncAnswer) /\ UNCHANGED <<runVars, cancel, boundVars>>)
    /\ WF_vars(ThrottleEnds /\ UNCHANGED <<runVars, cancel, boundVars>>)

FairSpec == Spec /\ Fairness

--------------------------------------------------------------------------------
\* Every variable keeps its type; ids on their way name events that exist.
TypeOK ==
    /\ status \in Statuses
    /\ log \in Seq(EventTypes)
    /\ worker \in {"idle", "executing", "saved", "completed", "recovered", "lost", "done"}
    /\ dispatchFailed \in BOOLEAN /\ misled \in BOOLEAN
    /\ handler \in {"none", "events", "status", "ended"}
    /\ cursor \in 0..Len(log) /\ lastId \in 0..Len(log)
    /\ page \in Seq(1..Len(log)) /\ wire \in Seq(1..Len(log)) /\ handled \in Seq(1..Len(log))
    /\ source \in {"connecting", "open", "closed", "dead"}
    /\ shown \in Statuses
    /\ sync \in {"idle", "asked"} \cup Statuses
    /\ again \in BOOLEAN /\ throttled \in BOOLEAN
    /\ cancel \in {"idle", "asked", "committed"} \cup Statuses
    /\ faults \in 0..MaxFaults /\ refused \in 0..MaxRefused /\ cancels \in 0..MaxCancels

\* The page handles every event once and in order, however often its connection ends,
\* breaks or reaches the deadline: resuming after Last-Event-ID skips and repeats
\* nothing, so the answer put together from the deltas is the answer that was sent.
NothingSkippedOrRepeated == handled = Number(lastId)

\* What the page shows as failed or cancelled is so: no event or answer announces an
\* end that a worker still at work may change.  One end is taken back: a run whose
\* dispatch failed is failed until a request with the same key retries it, and a tab that
\* showed "failed" then, or had it on its way, may go on showing it (its stream is closed and
\* syncRun drops the status "queued"); "cancelled" is never taken back.
ShownEndIsTrue ==
    shown \in {"failed", "cancelled"} => status = shown \/ (shown = "failed" /\ misled)

\* A page that shows the run's end never goes back to a status before it, although
\* status answers overtake events and events overtake status answers.  One step is
\* excepted, because the code does go back there: the answer to the page's own cancel
\* request is shown whatever the page has learnt since it was read.
ShownEndStays == [][(shown \in Terminal /\ shown' \notin Terminal => CancelAnswer)]_vars

\* A page learns that its run has ended (it then closes its stream), also when the
\* terminal event is appended after the handler has ended or is never appended because
\* the dispatch failed or the worker died before it; unless a reconnection was answered
\* with an HTTP error, after which the page follows nothing any more, or the end was a
\* failed dispatch that has been retried.
PageLearnsOutcome ==
    status \in Terminal ~> source \in {"closed", "dead"} \/ status \notin Terminal
================================================================================
