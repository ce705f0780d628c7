------------------------------- MODULE Approvals -------------------------------
(***************************************************************************)
(* Repair actions behind a persisted approval: request_agent_repair        *)
(* creates a run and its approval, and a member of staff decides on it in  *)
(* the admin (agent_runtime/research/approvals.py).  Every approval has a  *)
(* run of its own, since the command draws a fresh key; a click is one     *)
(* approve or reject action on one approval.  The row lock covers the      *)
(* decision alone: the tool and the saves that follow it run without it.   *)
(***************************************************************************)
EXTENDS Naturals, FiniteSets, Sequences

CONSTANTS
    Approvals,      \* an approval, its run and the command that requests both
    Clicks,         \* decisions that staff take in the admin
    Nothing         \* a click that has not chosen its approval

ASSUME ApprovalsAssumption == Nothing \notin Approvals

VARIABLES
    run, log,               \* AgentRun.status and the run's events
    approval,               \* AgentApproval.status
    calls,                  \* how often the tool was called
    requester,              \* where the command stands
    clerk, on,              \* where each click stands, and the approval it decides
    disturbed,              \* history: approvals with a crash or a contested execution
    overtaken               \* history: approvals whose command saved its run after the decision had

vars == <<run, log, approval, calls, requester, clerk, on, disturbed, overtaken>>

RunStatuses == {"absent", "queued", "waiting_approval", "cancelling", "succeeded", "failed", "cancelled"}
TerminalRun == {"succeeded", "failed", "cancelled"}
Decided == {"executed", "rejected", "failed"}
ApprovalStatuses == {"absent", "pending", "executing"} \cup Decided
EventTypes == {"run.created", "run.cancelled", "run.cancel.requested", "approval.requested",
               "approval.rejected", "approval.failed", "approval.executed"}

Init ==
    /\ run = [a \in Approvals |-> "absent"]
    /\ log = [a \in Approvals |-> <<>>]
    /\ approval = [a \in Approvals |-> "absent"]
    /\ calls = [a \in Approvals |-> 0]
    /\ requester = [a \in Approvals |-> "idle"]
    /\ clerk = [c \in Clicks |-> "idle"]
    /\ on = [c \in Clicks |-> Nothing]
    /\ disturbed = {}
    /\ overtaken = {}

SetRun(a, s) == run' = [run EXCEPT ![a] = s]
SetApproval(a, s) == approval' = [approval EXCEPT ![a] = s]
AppendEvent(a, e) == log' = [log EXCEPT ![a] = Append(@, e)]
At(c, step) == clerk' = [clerk EXCEPT ![c] = step]
InProgress(c) == clerk[c] \notin {"idle", "done"}
DecidingOn(a) == \E c \in Clicks : on[c] = a /\ InProgress(c)
\* A decision on the approval has saved its outcome on the run, or died before it could (such
\* approvals are disturbed).
RunSaved(a) ==
    approval[a] \in Decided /\ ~ \E c \in Clicks : on[c] = a /\ clerk[c] \in {"executed", "failed"}
Disturb(a) == disturbed' = disturbed \cup {a}

(***************************************************************************)
(* The command: four transactions; the approval is visible to staff as     *)
(* soon as it exists.  A command that dies leaves what it has committed.   *)
(***************************************************************************)
CreateRun(a) ==
    /\ requester[a] = "idle"
    /\ SetRun(a, "queued")
    /\ AppendEvent(a, "run.created")
    /\ requester' = [requester EXCEPT ![a] = "run"]
    /\ UNCHANGED <<approval, calls, clerk, on, disturbed, overtaken>>

CreateApproval(a) ==
    /\ requester[a] = "run"
    /\ SetApproval(a, "pending")
    /\ requester' = [requester EXCEPT ![a] = "approval"]
    /\ UNCHANGED <<run, log, calls, clerk, on, disturbed, overtaken>>

\* The save overwrites whatever has become of the run since it was created: a cancellation,
\* or the outcome of a decision that was quicker than the command.
MarkWaiting(a) ==
    /\ requester[a] = "approval"
    /\ SetRun(a, "waiting_approval")
    /\ requester' = [requester EXCEPT ![a] = "waiting"]
    /\ overtaken' = IF RunSaved(a) THEN overtaken \cup {a} ELSE overtaken
    /\ UNCHANGED <<log, approval, calls, clerk, on, disturbed>>

LogRequested(a) ==
    /\ requester[a] = "waiting"
    /\ AppendEvent(a, "approval.requested")
    /\ requester' = [requester EXCEPT ![a] = "done"]
    /\ UNCHANGED <<run, approval, calls, clerk, on, disturbed, overtaken>>

RequesterDies(a) ==
    /\ requester[a] \in {"run", "approval", "waiting"}
    /\ requester' = [requester EXCEPT ![a] = "done"]
    /\ Disturb(a)
    /\ UNCHANGED <<run, log, approval, calls, clerk, on, overtaken>>

(***************************************************************************)
(* The decision, under the lock of the approval's row.  The early return   *)
(* lists the decided statuses; "executing" is not one of them.             *)
(***************************************************************************)
MayDecide(c, a) == clerk[c] = "idle" /\ approval[a] \notin {"absent"} \cup Decided

Contested(a) == disturbed' = IF approval[a] = "pending" THEN disturbed ELSE disturbed \cup {a}

\* Bug: a rejected approval gets a status that is not one of the choices.
MutReject(c, a) ==
    /\ MayDecide(c, a)
    /\ SetApproval(a, "declined")
    /\ SetRun(a, "cancelled")
    /\ AppendEvent(a, "approval.rejected")
    /\ At(c, "done")
    /\ on' = [on EXCEPT ![c] = a]
    /\ Contested(a)
    /\ UNCHANGED <<calls, requester, overtaken>>
Reject(c, a) ==
    /\ MayDecide(c, a)
    /\ SetApproval(a, "rejected")
    /\ SetRun(a, "cancelled")
    /\ AppendEvent(a, "approval.rejected")
    /\ At(c, "done")
    /\ on' = [on EXCEPT ![c] = a]
    /\ Contested(a)
    /\ UNCHANGED <<calls, requester, overtaken>>

\* Bug: the failed approvals are not among those that return early.
MutApprove(c, a) ==
    /\ clerk[c] = "idle" /\ approval[a] \in {"pending", "executing", "failed"}
    /\ SetApproval(a, "executing")
    /\ At(c, "approved")
    /\ on' = [on EXCEPT ![c] = a]
    /\ Contested(a)
    /\ UNCHANGED <<run, log, calls, requester, overtaken>>
\* Bug: the tool is called before the decision is saved.
MutApproveUnsaved(c, a) ==
    /\ MayDecide(c, a)
    /\ At(c, "approved")
    /\ on' = [on EXCEPT ![c] = a]
    /\ Contested(a)
    /\ UNCHANGED <<run, log, approval, calls, requester, overtaken>>
Approve(c, a) ==
    /\ MayDecide(c, a)
    /\ SetApproval(a, "executing")
    /\ At(c, "approved")
    /\ on' = [on EXCEPT ![c] = a]
    /\ Contested(a)
    /\ UNCHANGED <<run, log, calls, requester, overtaken>>

(***************************************************************************)
(* The execution.  registry.execute calls the tool, which has no retries   *)
(* (max_retries=0), and the outcome is saved on the approval, then on the  *)
(* run, then in the log; what the rows hold by then is not looked at.      *)
(***************************************************************************)
CallTool(c) ==
    /\ clerk[c] = "approved"
    /\ calls' = [calls EXCEPT ![on[c]] = @ + 1]
    /\ \E outcome \in {"returned", "raised"} : At(c, outcome)
    /\ UNCHANGED <<run, log, approval, requester, on, disturbed, overtaken>>

SaveApproval(c) ==
    /\ \/ clerk[c] = "returned" /\ SetApproval(on[c], "executed") /\ At(c, "executed")
       \/ clerk[c] = "raised" /\ SetApproval(on[c], "failed") /\ At(c, "failed")
    /\ UNCHANGED <<run, log, calls, requester, on, disturbed, overtaken>>

\* Bug: the failure branch leaves the run as it is.
MutSaveRun(c) ==
    /\ \/ clerk[c] = "executed" /\ SetRun(on[c], "succeeded") /\ At(c, "log executed")
       \/ clerk[c] = "failed" /\ At(c, "log failed") /\ UNCHANGED run
    /\ UNCHANGED <<log, approval, calls, requester, on, disturbed, overtaken>>
SaveRun(c) ==
    /\ \/ clerk[c] = "executed" /\ SetRun(on[c], "succeeded") /\ At(c, "log executed")
       \/ clerk[c] = "failed" /\ SetRun(on[c], "failed") /\ At(c, "log failed")
    /\ UNCHANGED <<log, approval, calls, requester, on, disturbed, overtaken>>

LogOutcome(c) ==
    /\ \/ clerk[c] = "log executed" /\ AppendEvent(on[c], "approval.executed")
       \/ clerk[c] = "log failed" /\ AppendEvent(on[c], "approval.failed")
    /\ At(c, "done")
    /\ UNCHANGED <<run, approval, calls, requester, on, disturbed, overtaken>>

\* The web process dies while it executes; nothing picks the approval up again.
ClerkDies(c) ==
    /\ InProgress(c)
    /\ At(c, "done")
    /\ Disturb(on[c])
    /\ UNCHANGED <<run, log, approval, calls, requester, on, overtaken>>

\* Staff see every run and may cancel it (cancel_research_run); a run that waits for
\* approval has no worker that would finish the cancellation.
CancelRun(a) ==
    /\ run[a] \notin TerminalRun \cup {"absent", "cancelling"}
    /\ IF run[a] = "queued"
       THEN SetRun(a, "cancelled") /\ AppendEvent(a, "run.cancelled")
       ELSE SetRun(a, "cancelling") /\ AppendEvent(a, "run.cancel.requested")
    /\ UNCHANGED <<approval, calls, requester, clerk, on, disturbed, overtaken>>

--------------------------------------------------------------------------------
Request(a) == CreateRun(a) \/ CreateApproval(a) \/ MarkWaiting(a) \/ LogRequested(a) \/ RequesterDies(a)

Decide(c) ==
    \/ \E a \in Approvals : Reject(c, a) \/ Approve(c, a)
    \/ CallTool(c) \/ SaveApproval(c) \/ SaveRun(c) \/ LogOutcome(c) \/ ClerkDies(c)

Next ==
    \/ \E a \in Approvals : Request(a) \/ CancelRun(a)
    \/ \E c \in Clicks : Decide(c)

Spec == Init /\ [][Next]_vars

--------------------------------------------------------------------------------
\* Every variable keeps its type; a click in progress has its approval.
TypeOK ==
    /\ run \in [Approvals -> RunStatuses]
    /\ log \in [Approvals -> Seq(EventTypes)]
    /\ approval \in [Approvals -> ApprovalStatuses]
    /\ calls \in [Approvals -> Nat]
    /\ requester \in [Approvals -> {"idle", "run", "approval", "waiting", "done"}]
    /\ clerk \in [Clicks -> {"idle", "approved", "returned", "raised", "executed", "failed",
                             "log executed", "log failed", "done"}]
    /\ on \in [Clicks -> Approvals \cup {Nothing}]
    /\ disturbed \subseteq Approvals
    /\ overtaken \subseteq Approvals
    /\ \A c \in Clicks : on[c] = Nothing => clerk[c] = "idle"

\* A tool runs only after its approval is persisted: a click that goes on to call the
\* tool has left a decision behind that no concurrent click or crash takes back to
\* "pending" (docs/architecture/research-agent.md: "execute only after a persisted
\* AgentApproval").
ToolNeedsApproval ==
    \A a \in Approvals :
        calls[a] > 0 \/ (\E c \in Clicks : on[c] = a /\ clerk[c] = "approved")
            => approval[a] \in {"executing"} \cup Decided

\* Once an approval is decided and nobody is at work on it, its outcome stands and its
\* tool is not called again, whatever staff click later.
DecisionStands ==
    [][\A a \in Approvals :
        approval[a] \in Decided /\ ~DecidingOn(a)
            => approval'[a] = approval[a] /\ calls'[a] = calls[a]]_vars

\* The run's status that an outcome of the approval calls for.
Matching == [executed |-> "succeeded", failed |-> "failed", rejected |-> "cancelled"]

\* An approval whose command and decision ran without a crash, and on which nobody decided
\* while the first decision was executing, ends with its tool called exactly as often as
\* the outcome says and its run in the matching state, whatever was cancelled in between;
\* with one exception: when the decision had saved the run before the command saved
\* waiting_approval, the run is left waiting, although nobody will decide again, until
\* somebody cancels it (approvals.py:40-42 against :66-95).
UndisturbedOutcome ==
    \A a \in Approvals \ disturbed :
        requester[a] = "done" /\ ~DecidingOn(a)
            => /\ approval[a] \in {"pending"} \cup Decided
               /\ calls[a] = (IF approval[a] \in {"executed", "failed"} THEN 1 ELSE 0)
               /\ IF approval[a] = "pending" \/ a \in overtaken
                  THEN run[a] \in {"waiting_approval", "cancelling"}
                  ELSE run[a] = Matching[approval[a]]
================================================================================
