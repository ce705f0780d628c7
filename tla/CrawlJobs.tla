------------------------------- MODULE CrawlJobs -------------------------------
(***************************************************************************)
(* Scheduling and crawling of one Source: aggregator/tasks.py, the admin   *)
(* action, the retry tool, self heal and the recovery command.  A job row  *)
(* and the Celery message that is to run it are separate things with no    *)
(* reference to each other: a task picks the oldest queued row it finds.   *)
(* Sources do not share rows or messages, so one source suffices.          *)
(*                                                                         *)
(* Workers are the slots of the general queue (one: --concurrency=1).      *)
(* What a crawl ingests is left out, only whether it raised is kept.       *)
(***************************************************************************)
EXTENDS Naturals, Sequences, FiniteSets

CONSTANTS
    Workers,        \* slots of the worker of the general queue
    MaxJobs,        \* bound: job rows, and messages that may still create one
    MaxByHand,      \* bound: messages sent without a row (admin, self heal)
    MaxFaults       \* bound: lost publications, lost workers, redeliveries

ASSUME CrawlJobsAssumption == {MaxJobs, MaxByHand, MaxFaults} \subseteq Nat

VARIABLES
    enabled, due,               \* Source: enabled, next_crawl_at <= now
    jobs,                       \* the CrawlJob rows in order of creation
    publishing,                 \* committed rows whose task is still to be sent
    messages,                   \* crawl_source messages in the broker
    wpc, mine, seen, result,    \* workers: program point, row, `enabled` as read, outcome
    healing,                    \* rows that self heal has read as stale
    byHand, faults,             \* messages without a row, and faults, so far
    orphaned                    \* how many rows have lost their publication

sourceVars == <<enabled, due>>
workerVars == <<wpc, mine, seen, result>>
countVars == <<byHand, faults, orphaned>>
vars == <<sourceVars, jobs, publishing, messages, workerVars, healing, countVars>>

\* `old`: the row is open and has outlived the age that recovery and self heal use.
Open == {"queued", "running"}
Job == [status: Open \cup {"succeeded", "failed"}, old: BOOLEAN]
QueuedJob == [status |-> "queued", old |-> FALSE]

Init ==
    /\ enabled = TRUE /\ due = TRUE
    /\ jobs = <<>>
    /\ publishing = 0 /\ messages = 0
    /\ wpc = [w \in Workers |-> "idle"]
    /\ mine = [w \in Workers |-> 0]
    /\ seen = [w \in Workers |-> FALSE]
    /\ result = [w \in Workers |-> "failed"]
    /\ healing = {}
    /\ byHand = 0 /\ faults = 0 /\ orphaned = 0

WithStatus(s) == {j \in DOMAIN jobs : jobs[j].status = s}
HasOpenJob == WithStatus("queued") \cup WithStatus("running") # {}
SetJob(j, s) == jobs' = [jobs EXCEPT ![j] = [status |-> s, old |-> FALSE]]

\* Every message in the broker or in hand may create a row.
Creators == publishing + messages + Cardinality({w \in Workers : wpc[w] \in {"read", "picked"}})
Room(n) == Len(jobs) + Creators + n <= MaxJobs
Fault == faults < MaxFaults /\ faults' = faults + 1 /\ UNCHANGED byHand

(***************************************************************************)
(* Producers.  Those that insert a row do so under the Source's row lock   *)
(* and send the task after the commit.                                     *)
(***************************************************************************)
InsertQueued ==
    /\ Room(2)
    /\ jobs' = Append(jobs, QueuedJob)
    /\ publishing' = publishing + 1
    /\ UNCHANGED <<sourceVars, messages, workerVars, healing, countVars>>

QueueSourceIfIdle == enabled /\ due /\ ~HasOpenJob /\ InsertQueued

\* The approved tool retry_source looks neither at `enabled` nor at the schedule.
RetrySource == ~HasOpenJob /\ InsertQueued

Publish ==
    /\ publishing > 0
    /\ publishing' = publishing - 1
    /\ messages' = messages + 1
    /\ UNCHANGED <<sourceVars, jobs, workerVars, healing, countVars>>

\* The process dies, or the broker refuses, after the row is committed.
LosePublication ==
    /\ publishing > 0
    /\ Fault
    /\ publishing' = publishing - 1
    /\ orphaned' = orphaned + 1
    /\ UNCHANGED <<sourceVars, jobs, messages, workerVars, healing>>

\* The admin's "crawl now" and self heal's retries send a task for no row.
SendByHand ==
    /\ Room(1) /\ byHand < MaxByHand
    /\ byHand' = byHand + 1
    /\ messages' = messages + 1
    /\ UNCHANGED <<sourceVars, jobs, publishing, workerVars, healing, faults, orphaned>>

(***************************************************************************)
(* The task crawl_source.  The message is acknowledged when it returns or  *)
(* raises, and put back when its worker is lost (acks late).               *)
(***************************************************************************)
Goto(w, pc) == wpc' = [wpc EXCEPT ![w] = pc]

ReadSource(w) ==
    /\ wpc[w] = "idle" /\ messages > 0
    /\ messages' = messages - 1
    /\ seen' = [seen EXCEPT ![w] = enabled]
    /\ Goto(w, "read")
    /\ UNCHANGED <<sourceVars, jobs, publishing, mine, result, healing, countVars>>

\* Bug: any row that is not running is taken for one that waits.
MutOldestQueued ==
    LET waiting == DOMAIN jobs \ WithStatus("running") IN
    IF waiting = {} THEN 0 ELSE CHOOSE j \in waiting : \A k \in waiting : j <= k
OldestQueued ==
    IF WithStatus("queued") = {} THEN 0
    ELSE CHOOSE j \in WithStatus("queued") : \A k \in WithStatus("queued") : j <= k

\* Bug: the task takes no queued row and always makes its own.
MutPickJob(w) ==
    /\ wpc[w] = "read"
    /\ mine' = [mine EXCEPT ![w] = 0]
    /\ Goto(w, "picked")
    /\ UNCHANGED <<sourceVars, jobs, publishing, messages, seen, result, healing, countVars>>
PickJob(w) ==
    /\ wpc[w] = "read"
    /\ mine' = [mine EXCEPT ![w] = OldestQueued]
    /\ Goto(w, "picked")
    /\ UNCHANGED <<sourceVars, jobs, publishing, messages, seen, result, healing, countVars>>

Forget(w) ==
    /\ mine' = [mine EXCEPT ![w] = 0]
    /\ seen' = [seen EXCEPT ![w] = FALSE]
    /\ result' = [result EXCEPT ![w] = "failed"]

Return(w) ==
    /\ Goto(w, "idle")
    /\ Forget(w)
    /\ UNCHANGED <<sourceVars, publishing, messages, healing, countVars>>

AnotherRunning(w) == WithStatus("running") \ {mine[w]} # {}

\* The source was disabled, or another job of it is running: the picked row fails.
Skip(w) ==
    /\ wpc[w] = "picked"
    /\ ~seen[w] \/ AnotherRunning(w)
    /\ IF mine[w] = 0 THEN UNCHANGED jobs ELSE SetJob(mine[w], "failed")
    /\ Return(w)

\* Bug: the picked row is taken although another job is running.
MutTakeJob(w) ==
    /\ wpc[w] = "picked"
    /\ seen[w]
    /\ Goto(w, "starting")
    /\ IF mine[w] = 0
       THEN ~AnotherRunning(w) /\ jobs' = Append(jobs, QueuedJob) /\ mine' = [mine EXCEPT ![w] = Len(jobs) + 1]
       ELSE UNCHANGED <<jobs, mine>>
    /\ UNCHANGED <<sourceVars, publishing, messages, seen, result, healing, countVars>>
\* Bug: the row the task makes for itself is not remembered.
MutForgetJob(w) ==
    /\ wpc[w] = "picked"
    /\ seen[w] /\ ~AnotherRunning(w)
    /\ Goto(w, "starting")
    /\ jobs' = IF mine[w] = 0 THEN Append(jobs, QueuedJob) ELSE jobs
    /\ UNCHANGED <<sourceVars, publishing, messages, mine, seen, result, healing, countVars>>
TakeJob(w) ==
    /\ wpc[w] = "picked"
    /\ seen[w] /\ ~AnotherRunning(w)
    /\ Goto(w, "starting")
    /\ IF mine[w] = 0
       THEN jobs' = Append(jobs, QueuedJob) /\ mine' = [mine EXCEPT ![w] = Len(jobs) + 1]
       ELSE UNCHANGED <<jobs, mine>>
    /\ UNCHANGED <<sourceVars, publishing, messages, seen, result, healing, countVars>>

StartJob(w) ==
    /\ wpc[w] = "starting"
    /\ jobs' = [jobs EXCEPT ![mine[w]] = [status |-> "running", old |-> FALSE]]
    /\ Goto(w, "crawling")
    /\ UNCHANGED <<sourceVars, publishing, messages, mine, seen, result, healing, countVars>>

\* ingest_source() returned or raised: either way the source is due again only later
\* (after its interval, or the backoff that its failure_count gives).
SaveSource(w) ==
    /\ wpc[w] = "crawling"
    /\ \E outcome \in {"succeeded", "failed"} : result' = [result EXCEPT ![w] = outcome]
    /\ due' = FALSE
    /\ Goto(w, "closing")
    /\ UNCHANGED <<enabled, jobs, publishing, messages, mine, seen, healing, countVars>>

CloseJob(w) ==
    /\ wpc[w] = "closing"
    /\ SetJob(mine[w], result[w])
    /\ Return(w)

Work(w) == ReadSource(w) \/ PickJob(w) \/ Skip(w) \/ TakeJob(w) \/ StartJob(w) \/ SaveSource(w) \/ CloseJob(w)

\* Bug: the message is acknowledged when it is received.
MutWorkerLost(w) ==
    /\ wpc[w] # "idle" /\ Fault
    /\ Goto(w, "idle")
    /\ Forget(w)
    /\ UNCHANGED <<sourceVars, jobs, publishing, messages, healing, orphaned>>
\* The worker is killed or restarted: the broker has the message again.
WorkerLost(w) ==
    /\ wpc[w] # "idle" /\ Fault
    /\ wpc[w] \in {"read", "picked"} \/ Room(1)
    /\ messages' = messages + 1
    /\ Goto(w, "idle")
    /\ Forget(w)
    /\ UNCHANGED <<sourceVars, jobs, publishing, healing, orphaned>>

\* A crawl longer than the broker's visibility timeout is delivered again.
VisibilityTimeout(w) ==
    /\ wpc[w] = "crawling" /\ Room(1) /\ Fault
    /\ messages' = messages + 1
    /\ UNCHANGED <<sourceVars, jobs, publishing, workerVars, healing, orphaned>>

(***************************************************************************)
(* Operators, self heal and time.                                          *)
(***************************************************************************)
\* recover_stale_crawl_jobs --apply: one transaction over the locked rows.
RecoverStale ==
    LET stale == {j \in DOMAIN jobs : jobs[j].status \in Open /\ jobs[j].old} IN
    /\ stale # {}
    /\ jobs' = [j \in DOMAIN jobs |-> IF j \in stale THEN [status |-> "failed", old |-> FALSE] ELSE jobs[j]]
    /\ UNCHANGED <<sourceVars, publishing, messages, workerVars, healing, countVars>>

\* run_self_heal() reads the stale running rows and saves each without a lock.
SelfHealReads ==
    /\ healing = {}
    /\ healing' = {j \in WithStatus("running") : jobs[j].old}
    /\ healing' # {}
    /\ UNCHANGED <<sourceVars, jobs, publishing, messages, workerVars, countVars>>

SelfHealSaves(j) ==
    /\ j \in healing
    /\ SetJob(j, "failed")
    /\ healing' = healing \ {j}
    /\ UNCHANGED <<sourceVars, publishing, messages, workerVars, countVars>>

SelfHealDies ==
    /\ healing # {} /\ Fault
    /\ healing' = {}
    /\ UNCHANGED <<sourceVars, jobs, publishing, messages, workerVars, orphaned>>

Age(j) ==
    /\ jobs[j].status \in Open /\ ~jobs[j].old
    /\ jobs' = [jobs EXCEPT ![j].old = TRUE]
    /\ UNCHANGED <<sourceVars, publishing, messages, workerVars, healing, countVars>>

BecomeDue ==
    /\ ~due /\ due' = TRUE
    /\ UNCHANGED <<enabled, jobs, publishing, messages, workerVars, healing, countVars>>

Toggle ==
    /\ enabled' = ~enabled
    /\ UNCHANGED <<due, jobs, publishing, messages, workerVars, healing, countVars>>

Next ==
    \/ QueueSourceIfIdle \/ RetrySource \/ Publish \/ LosePublication \/ SendByHand
    \/ \E w \in Workers : Work(w) \/ WorkerLost(w) \/ VisibilityTimeout(w)
    \/ RecoverStale \/ SelfHealReads \/ SelfHealDies
    \/ \E j \in DOMAIN jobs : SelfHealSaves(j) \/ Age(j)
    \/ BecomeDue \/ Toggle

\* Producers go on to send and the worker goes on to work; nothing is assumed of
\* schedules, operators or faults.
Spec == Init /\ [][Next]_vars
FairSpec == Spec /\ WF_vars(Publish) /\ \A w \in Workers : WF_vars(Work(w))

--------------------------------------------------------------------------------
\* Every variable keeps its type: a worker holds a row of the table or none, and every
\* row of a finished crawl keeps one of the code's statuses.
TypeOK ==
    /\ {enabled, due} \subseteq BOOLEAN
    /\ jobs \in Seq(Job) /\ Len(jobs) <= MaxJobs
    /\ publishing \in 0..MaxJobs /\ messages \in 0..MaxJobs
    /\ wpc \in [Workers -> {"idle", "read", "picked", "starting", "crawling", "closing"}]
    /\ mine \in [Workers -> 0..Len(jobs)]
    /\ \A w \in Workers : wpc[w] \in {"starting", "crawling", "closing"} => mine[w] # 0
    /\ seen \in [Workers -> BOOLEAN]
    /\ result \in [Workers -> {"succeeded", "failed"}]
    /\ healing \subseteq DOMAIN jobs
    /\ byHand \in 0..MaxByHand /\ faults \in 0..MaxFaults /\ orphaned \in 0..faults

\* No scheduled crawl is forgotten: for every row that waits there is a message, a
\* producer about to send one, a task that has yet to pick its row, or a publication
\* that failed.  Lost and repeated deliveries, messages that take another message's row
\* and rows the task makes for itself keep it so.
QueuedJobsHaveMessages ==
    LET taken == {mine[w] : w \in {v \in Workers : wpc[v] \in {"picked", "starting"}}}
        coming == Cardinality({w \in Workers : wpc[w] = "read"})
    IN Cardinality(WithStatus("queued") \ taken) <= messages + publishing + coming + orphaned

\* "Skipped because another crawl job is already running for this source": whatever is
\* published, redelivered, recovered and healed, two rows of a source never run at once.
OneRunningJob == Cardinality(WithStatus("running")) <= 1

\* The history of jobs is not rewritten, but by the self heal that read a row before it
\* ended and by the task of a row that was failed under it: a row that succeeded stays
\* so, and one that failed does unless a task holds it.
EndedJobsStay ==
    [][\A j \in DOMAIN jobs \ healing :
        \/ jobs[j].status = "succeeded"
        \/ jobs[j].status = "failed" /\ \A w \in Workers : mine[w] # j
        => jobs'[j].status = jobs[j].status]_vars

\* Under a worker that goes on working, every queued row is started or fails, unless
\* some publication was lost.
QueuedJobsResolve ==
    \A j \in 1..MaxJobs :
        (j \in WithStatus("queued") /\ orphaned = 0) ~> (j \notin WithStatus("queued") \/ orphaned > 0)
================================================================================
