------------------------------ MODULE CrawlProofs ------------------------------
(***************************************************************************)
(* The proofs of the crawling of a source: of its jobs (CrawlJobs), and,   *)
(* in the second part, of the failures recorded for its URLs               *)
(* (CrawlFailures).                                                        *)
(*                                                                         *)
(* For any number of job rows, messages by hand and faults, and the one    *)
(* slot the general queue's worker runs with: two crawls of a source never *)
(* run at once, every row that waits has a message on its way or a         *)
(* publication that failed, and the history of jobs is not rewritten.      *)
(* Nothing in the rows forbids a second running one; it is the single slot *)
(* that keeps the step between "no other job is running" and "mine is"     *)
(* free of others (Alone).                                                 *)
(*                                                                         *)
(* For any number of visits and crashes an acknowledged failure is one of  *)
(* a page that is gone, and a visit that writes and that nobody else's     *)
(* statements crossed leaves the failures as it found the page.            *)
(***************************************************************************)
EXTENDS CrawlJobs, CrawlFailures, FiniteSetTheorems, WellFoundedInduction, TLAPS

\* A task that is about to start its row saw no other row running, and none has started.
Alone == \A w \in Workers : wpc[w] = "starting" => WithStatus("running") \subseteq {mine[w]}

AtMostOne == \A i, j \in WithStatus("running") : i = j

\* Nobody but its task ends a row with success.
HeldNotSucceeded == \A w \in Workers : mine[w] # 0 => jobs[mine[w]].status # "succeeded"

\* Every message leaves room for the row it may create.
InTake(w) == IF wpc[w] \in {"read", "picked"} THEN 1 ELSE 0
RoomLeft == \A w \in Workers : Len(jobs) + publishing + messages + InTake(w) <= MaxJobs

\* QueuedJobsHaveMessages, for the worker w alone.
Taken(w) == IF wpc[w] \in {"picked", "starting"} THEN {mine[w]} ELSE {}
Coming(w) == IF wpc[w] = "read" THEN 1 ELSE 0
Awaited == \A w \in Workers :
    Cardinality(WithStatus("queued") \ Taken(w)) <= messages + publishing + Coming(w) + orphaned

JobsInv == TypeOK /\ Alone /\ AtMostOne /\ HeldNotSucceeded /\ RoomLeft /\ Awaited

--------------------------------------------------------------------------------
(***************************************************************************)
(* Sets and rows.                                                          *)
(***************************************************************************)
\* A set of numbers that is not empty has a least one.
LEMMA Least ==
  ASSUME NEW S \in SUBSET Nat, S # {}
  PROVE  \E m \in S : \A k \in S : m <= k
<1>. DEFINE R == {ss \in Nat \X Nat : ss[1] < ss[2]}
<1>1. IsWellFoundedOn(R, Nat)
  BY NatLessThanWellFounded DEF OpToRel
<1>2. ASSUME NEW m \in Nat, NEW k \in Nat, ~ (<<k, m>> \in R) PROVE m <= k
  <2>1. <<k, m>> \in Nat \X Nat /\ <<k, m>>[1] = k /\ <<k, m>>[2] = m
    OBVIOUS
  <2>2. ~(k < m)
    BY <1>2, <2>1
  <2>. QED
    BY <2>2
<1>. HIDE DEF R
<1>3. PICK m \in S : \A k \in S : ~ (<<k, m>> \in R)
  BY <1>1, WFMin
<1>. QED
  BY <1>2, <1>3

\* A set with at most one element more.
LEMMA OneMore ==
  ASSUME NEW S, IsFiniteSet(S), NEW x, NEW T, T \subseteq S \cup {x}
  PROVE  /\ Cardinality(T) \in Nat /\ Cardinality(S) \in Nat
         /\ Cardinality(T) <= Cardinality(S) + 1
         /\ T \subseteq S => Cardinality(T) <= Cardinality(S)
<1>1. /\ IsFiniteSet(S \cup {x}) /\ Cardinality(S \cup {x}) <= Cardinality(S) + 1
      /\ Cardinality(S) \in Nat
  BY FS_AddElement, FS_CardinalityType
<1>2. IsFiniteSet(T) /\ Cardinality(T) <= Cardinality(S \cup {x}) /\ Cardinality(T) \in Nat
  BY <1>1, FS_Subset, FS_CardinalityType
<1>3. T \subseteq S => Cardinality(T) <= Cardinality(S)
  BY FS_Subset
<1>4. Cardinality(S \cup {x}) \in Nat
  BY <1>1, FS_CardinalityType
<1>. QED
  BY <1>1, <1>2, <1>3, <1>4

\* The rows of a status are finitely many.
LEMMA RowsAreFinite ==
  ASSUME TypeOK, NEW s
  PROVE  /\ WithStatus(s) \subseteq 1..Len(jobs) /\ IsFiniteSet(WithStatus(s))
         /\ DOMAIN jobs = 1..Len(jobs) /\ Len(jobs) \in Nat
<1>1. Len(jobs) \in Nat /\ DOMAIN jobs = 1..Len(jobs)
  BY DEF TypeOK
<1>2. WithStatus(s) \subseteq 1..Len(jobs)
  BY <1>1 DEF WithStatus
<1>3. IsFiniteSet(1..Len(jobs))
  BY <1>1, FS_Interval
<1>4. IsFiniteSet(WithStatus(s))
  BY <1>2, <1>3, FS_Subset
<1>. QED
  BY <1>1, <1>2, <1>4

\* What a task picks is a row that waits, the one created first.
LEMMA Picked ==
  ASSUME TypeOK
  PROVE  IF WithStatus("queued") = {} THEN OldestQueued = 0 ELSE OldestQueued \in WithStatus("queued")
<1>1. CASE WithStatus("queued") = {}
  BY <1>1 DEF OldestQueued
<1>2. CASE WithStatus("queued") # {}
  <2>1. WithStatus("queued") \in SUBSET Nat
    BY RowsAreFinite
  <2>2. \E m \in WithStatus("queued") : \A k \in WithStatus("queued") : m <= k
    BY <1>2, <2>1, Least
  <2>. QED
    BY <1>2, <2>2 DEF OldestQueued
<1>. QED
  BY <1>1, <1>2

\* One worker: what the definitions count is its own doing.
LEMMA OneWorkerCounts ==
  ASSUME NEW w, Workers = {w}
  PROVE  /\ Creators = publishing + messages + InTake(w)
         /\ QueuedJobsHaveMessages <=> Awaited
<1>1. /\ Cardinality({}) = 0 /\ Cardinality({w}) = 1
  BY FS_EmptySet, FS_Singleton
<1>2. Cardinality({v \in Workers : wpc[v] \in {"read", "picked"}}) = InTake(w)
  <2>1. {v \in Workers : wpc[v] \in {"read", "picked"}} = IF wpc[w] \in {"read", "picked"} THEN {w} ELSE {}
    OBVIOUS
  <2>. QED
    BY <1>1, <2>1 DEF InTake
<1>3. Cardinality({v \in Workers : wpc[v] = "read"}) = Coming(w)
  <2>1. {v \in Workers : wpc[v] = "read"} = IF wpc[w] = "read" THEN {w} ELSE {}
    OBVIOUS
  <2>. QED
    BY <1>1, <2>1 DEF Coming
<1>4. {mine[v] : v \in {u \in Workers : wpc[u] \in {"picked", "starting"}}} = Taken(w)
  BY DEF Taken
<1>. QED
  BY <1>2, <1>3, <1>4 DEF Creators, QueuedJobsHaveMessages, Awaited
\* One row is written.
LEMMA RowSet ==
  ASSUME TypeOK, NEW r \in Job, NEW j \in 1..Len(jobs), jobs' = [jobs EXCEPT ![j] = r]
  PROVE  /\ jobs' \in Seq(Job) /\ Len(jobs)' = Len(jobs) /\ (DOMAIN jobs)' = 1..Len(jobs)
         /\ \A k \in 1..Len(jobs) : jobs'[k] = IF k = j THEN r ELSE jobs[k]
         /\ \A s : WithStatus(s)' = IF r.status = s THEN WithStatus(s) \cup {j} ELSE WithStatus(s) \ {j}
<1>1. jobs \in Seq(Job) /\ DOMAIN jobs = 1..Len(jobs) /\ Len(jobs) \in Nat
  BY RowsAreFinite DEF TypeOK
<1>2. /\ jobs' \in Seq(Job) /\ Len(jobs)' = Len(jobs) /\ (DOMAIN jobs)' = 1..Len(jobs)
      /\ \A k \in 1..Len(jobs) : jobs'[k] = IF k = j THEN r ELSE jobs[k]
  BY <1>1
<1>3. ASSUME NEW s
      PROVE  WithStatus(s)' = IF r.status = s THEN WithStatus(s) \cup {j} ELSE WithStatus(s) \ {j}
  BY <1>1, <1>2 DEF WithStatus
<1>. QED
  BY <1>2, <1>3

\* A row is inserted: it waits.
LEMMA RowAdded ==
  ASSUME TypeOK, jobs' = Append(jobs, QueuedJob)
  PROVE  /\ jobs' \in Seq(Job) /\ Len(jobs)' = Len(jobs) + 1 /\ (DOMAIN jobs)' = 1..(Len(jobs) + 1)
         /\ \A k \in 1..Len(jobs) : jobs'[k] = jobs[k]
         /\ jobs'[Len(jobs) + 1] = QueuedJob
         /\ WithStatus("queued")' = WithStatus("queued") \cup {Len(jobs) + 1}
         /\ WithStatus("running")' = WithStatus("running")
<1>1. jobs \in Seq(Job) /\ DOMAIN jobs = 1..Len(jobs) /\ Len(jobs) \in Nat
  BY RowsAreFinite DEF TypeOK
<1>2. QueuedJob \in Job /\ QueuedJob.status = "queued"
  BY DEF QueuedJob, Job, Open
<1>3. /\ jobs' \in Seq(Job) /\ Len(jobs)' = Len(jobs) + 1 /\ (DOMAIN jobs)' = 1..(Len(jobs) + 1)
      /\ \A k \in 1..Len(jobs) : jobs'[k] = jobs[k]
      /\ jobs'[Len(jobs) + 1] = QueuedJob
  BY <1>1, <1>2
<1>4. WithStatus("queued")' = WithStatus("queued") \cup {Len(jobs) + 1}
  BY <1>1, <1>2, <1>3 DEF WithStatus
<1>5. WithStatus("running")' = WithStatus("running")
  BY <1>1, <1>2, <1>3 DEF WithStatus
<1>. QED
  BY <1>3, <1>4, <1>5

LEMMA CountsAreNumbers ==
  /\ TypeOK => {messages, publishing, orphaned, faults, byHand} \subseteq Nat
  /\ TypeOK' => {messages', publishing', orphaned', faults', byHand'} \subseteq Nat
  BY CrawlJobsAssumption DEF TypeOK

\* At most one more row waits, and what it waits for has come with it.
LEMMA AwaitedStep ==
  ASSUME NEW w, Workers = {w}, TypeOK, TypeOK', Awaited, NEW x,
         (WithStatus("queued") \ Taken(w))' \subseteq (WithStatus("queued") \ Taken(w)) \cup {x},
         \/ /\ (WithStatus("queued") \ Taken(w))' \subseteq WithStatus("queued") \ Taken(w)
            /\ messages + publishing + Coming(w) + orphaned
                 <= messages' + publishing' + Coming(w)' + orphaned'
         \/ messages + publishing + Coming(w) + orphaned + 1
                 <= messages' + publishing' + Coming(w)' + orphaned'
  PROVE  Awaited'
<1>. DEFINE S == WithStatus("queued") \ Taken(w)
            T == (WithStatus("queued") \ Taken(w))'
            before == messages + publishing + Coming(w) + orphaned
            after == messages' + publishing' + Coming(w)' + orphaned'
<1>1. IsFiniteSet(S)
  BY RowsAreFinite, FS_Subset
<1>2. before \in Nat /\ after \in Nat
  <2>1. /\ {messages, publishing, orphaned, Coming(w)} \subseteq Nat
        /\ {messages', publishing', orphaned', Coming(w)'} \subseteq Nat
    BY CountsAreNumbers DEF Coming
  <2>. QED
    BY <2>1
<1>3. Cardinality(S) <= before
  BY DEF Awaited
<1>. SUFFICES Cardinality(T) <= after
  BY DEF Awaited
<1>4. /\ T \subseteq S \cup {x}
      /\ (T \subseteq S /\ before <= after) \/ before + 1 <= after
  OBVIOUS
<1>. HIDE DEF S, T, before, after
<1>5. /\ Cardinality(T) \in Nat /\ Cardinality(S) \in Nat
      /\ Cardinality(T) <= Cardinality(S) + 1
      /\ T \subseteq S => Cardinality(T) <= Cardinality(S)
  BY <1>1, <1>4, OneMore
<1>. QED
  BY <1>2, <1>3, <1>4, <1>5

--------------------------------------------------------------------------------
(***************************************************************************)
(* Steps outside the worker.                                               *)
(***************************************************************************)
SourceTyped == {enabled, due} \subseteq BOOLEAN
RowsTyped == jobs \in Seq(Job) /\ Len(jobs) <= MaxJobs /\ healing \subseteq DOMAIN jobs
QueueTyped == /\ publishing \in 0..MaxJobs /\ messages \in 0..MaxJobs
              /\ byHand \in 0..MaxByHand /\ faults \in 0..MaxFaults /\ orphaned \in 0..faults
WorkersTyped ==
    /\ wpc \in [Workers -> {"idle", "read", "picked", "starting", "crawling", "closing"}]
    /\ mine \in [Workers -> 0..Len(jobs)]
    /\ \A w \in Workers : wpc[w] \in {"starting", "crawling", "closing"} => mine[w] # 0
    /\ seen \in [Workers -> BOOLEAN]
    /\ result \in [Workers -> {"succeeded", "failed"}]

LEMMA Typing == /\ TypeOK <=> SourceTyped /\ RowsTyped /\ QueueTyped /\ WorkersTyped
                /\ TypeOK' <=> SourceTyped' /\ RowsTyped' /\ QueueTyped' /\ WorkersTyped'
  BY DEF TypeOK, SourceTyped, RowsTyped, QueueTyped, WorkersTyped

LEMMA BoundsAre == MaxJobs \in Nat /\ MaxByHand \in Nat /\ MaxFaults \in Nat
  BY CrawlJobsAssumption

\* The worker's part holds while others only add rows that wait, or fail rows.
LEMMA Elsewhere ==
  ASSUME NEW w, Workers = {w}, JobsInv, UNCHANGED workerVars,
         SourceTyped', RowsTyped', QueueTyped', RoomLeft',
         Len(jobs) <= Len(jobs)',
         \A k \in 1..Len(jobs) : jobs'[k].status \in {jobs[k].status, "failed"},
         WithStatus("running")' \subseteq WithStatus("running"),
         NEW x, WithStatus("queued")' \subseteq WithStatus("queued") \cup {x},
         \/ /\ WithStatus("queued")' \subseteq WithStatus("queued")
            /\ messages + publishing + orphaned <= messages' + publishing' + orphaned'
         \/ messages + publishing + orphaned + 1 <= messages' + publishing' + orphaned'
  PROVE  JobsInv'
<1>. USE DEF JobsInv
<1>0. TypeOK /\ UNCHANGED <<wpc, mine, seen, result>> /\ mine[w] \in 0..Len(jobs) /\ Len(jobs) \in Nat
      /\ Len(jobs)' \in Nat
  BY RowsAreFinite DEF workerVars, TypeOK, RowsTyped
<1>1. WorkersTyped'
  BY <1>0, Typing DEF WorkersTyped
<1>2. TypeOK'
  BY <1>1, Typing
<1>3. Alone' /\ AtMostOne'
  BY <1>0 DEF Alone, AtMostOne
<1>4. HeldNotSucceeded'
  BY <1>0 DEF HeldNotSucceeded
<1>5. UNCHANGED <<Taken(w), Coming(w)>> /\ Coming(w) \in Nat
  BY <1>0 DEF Taken, Coming
<1>6. /\ {messages, publishing, orphaned} \subseteq Nat
      /\ {messages', publishing', orphaned'} \subseteq Nat
  BY <1>0, <1>2, CountsAreNumbers
<1>7. Awaited'
  <2>1. \/ /\ (WithStatus("queued") \ Taken(w))' \subseteq WithStatus("queued") \ Taken(w)
           /\ messages + publishing + Coming(w) + orphaned
                <= messages' + publishing' + Coming(w)' + orphaned'
        \/ messages + publishing + Coming(w) + orphaned + 1
                <= messages' + publishing' + Coming(w)' + orphaned'
    BY <1>5, <1>6
  <2>2. (WithStatus("queued") \ Taken(w))' \subseteq (WithStatus("queued") \ Taken(w)) \cup {x}
    BY <1>5
  <2>. QED
    BY <1>0, <1>2, <2>1, <2>2, AwaitedStep
<1>. QED
  BY <1>2, <1>3, <1>4, <1>7

LEMMA Inserted ==
  ASSUME NEW w, Workers = {w}, JobsInv, InsertQueued
  PROVE  JobsInv'
<1>. USE DEF JobsInv
<1>0. /\ TypeOK /\ Room(2) /\ jobs' = Append(jobs, QueuedJob) /\ publishing' = publishing + 1
      /\ UNCHANGED <<enabled, due, messages, wpc, workerVars, healing, byHand, faults, orphaned>>
      /\ {publishing, messages, orphaned} \subseteq Nat /\ Len(jobs) \in Nat
      /\ DOMAIN jobs = 1..Len(jobs)
  BY CountsAreNumbers, RowsAreFinite DEF InsertQueued, sourceVars, countVars, workerVars
<1>1. /\ jobs' \in Seq(Job) /\ Len(jobs)' = Len(jobs) + 1 /\ (DOMAIN jobs)' = 1..(Len(jobs) + 1)
      /\ \A k \in 1..Len(jobs) : jobs'[k] = jobs[k]
      /\ WithStatus("queued")' = WithStatus("queued") \cup {Len(jobs) + 1}
      /\ WithStatus("running")' = WithStatus("running")
  BY <1>0, RowAdded
<1>2. InTake(w) \in Nat /\ InTake(w)' = InTake(w)
  BY <1>0 DEF InTake
<1>3. Len(jobs) + publishing + messages + InTake(w) + 2 <= MaxJobs
  BY <1>0, <1>2, OneWorkerCounts DEF Room
<1>4. RoomLeft'
  BY <1>0, <1>1, <1>2, <1>3, BoundsAre DEF RoomLeft
<1>5. SourceTyped' /\ QueueTyped' /\ RowsTyped'
  BY <1>0, <1>1, <1>2, <1>3, BoundsAre, Typing DEF SourceTyped, QueueTyped, RowsTyped
<1>6. messages + publishing + orphaned + 1 <= messages' + publishing' + orphaned'
  BY <1>0
<1>7. /\ \A k \in 1..Len(jobs) : jobs'[k].status \in {jobs[k].status, "failed"}
      /\ WithStatus("running")' \subseteq WithStatus("running")
      /\ WithStatus("queued")' \subseteq WithStatus("queued") \cup {Len(jobs) + 1}
      /\ Len(jobs) <= Len(jobs)'
  BY <1>0, <1>1
<1>. QED
  BY <1>0, <1>4, <1>5, <1>6, <1>7, Elsewhere

\* Messages and time: no row is touched.
LEMMA Delivered ==
  ASSUME NEW w, Workers = {w}, JobsInv,
         Publish \/ LosePublication \/ SendByHand \/ VisibilityTimeout(w) \/ BecomeDue \/ Toggle
  PROVE  JobsInv'
<1>. USE DEF JobsInv
<1>0. /\ TypeOK /\ UNCHANGED <<jobs, workerVars, wpc, healing>>
      /\ {publishing, messages, orphaned} \subseteq Nat /\ Len(jobs) \in Nat
  BY CountsAreNumbers, RowsAreFinite
  DEF Publish, LosePublication, SendByHand, VisibilityTimeout, BecomeDue, Toggle, workerVars
<1>1. InTake(w) \in Nat /\ InTake(w)' = InTake(w) /\ Len(jobs) + publishing + messages + InTake(w) <= MaxJobs
  BY <1>0 DEF InTake, RoomLeft
<1>2. Room(1) => Len(jobs) + publishing + messages + InTake(w) + 1 <= MaxJobs
  BY <1>0, <1>1, OneWorkerCounts DEF Room
<1>3. Len(jobs)' + publishing' + messages' + InTake(w)' <= MaxJobs
  BY <1>0, <1>1, <1>2, BoundsAre
  DEF Publish, LosePublication, SendByHand, VisibilityTimeout, BecomeDue, Toggle
<1>4. QueueTyped'
  <2>1. publishing' \in Nat /\ messages' \in Nat
    BY <1>0
    DEF Publish, LosePublication, SendByHand, VisibilityTimeout, BecomeDue, Toggle
  <2>2. publishing' <= MaxJobs /\ messages' <= MaxJobs
    BY <1>0, <1>1, <1>3, <2>1, BoundsAre
  <2>3. byHand' \in 0..MaxByHand /\ faults' \in 0..MaxFaults /\ orphaned' \in 0..faults'
    <3>1. byHand \in 0..MaxByHand /\ faults \in 0..MaxFaults /\ orphaned \in 0..faults
      BY <1>0, Typing DEF QueueTyped
    <3>. QED
      BY <3>1, BoundsAre
      DEF Publish, LosePublication, SendByHand, VisibilityTimeout, BecomeDue, Toggle, Fault, countVars
  <2>. QED
    BY <2>1, <2>2, <2>3, BoundsAre DEF QueueTyped
<1>5. SourceTyped' /\ RowsTyped' /\ RoomLeft'
  <2>1. RowsTyped'
    BY <1>0, Typing DEF RowsTyped
  <2>2. SourceTyped'
    BY <1>0, Typing
    DEF Publish, LosePublication, SendByHand, VisibilityTimeout, BecomeDue, Toggle, SourceTyped, sourceVars
  <2>. QED
    BY <1>3, <2>1, <2>2 DEF RoomLeft
<1>6. messages + publishing + orphaned <= messages' + publishing' + orphaned'
  BY <1>0
  DEF Publish, LosePublication, SendByHand, VisibilityTimeout, BecomeDue, Toggle, Fault, countVars
<1>7. \A s : WithStatus(s)' = WithStatus(s)
  BY <1>0 DEF WithStatus
<1>8. /\ \A k \in 1..Len(jobs) : jobs'[k].status \in {jobs[k].status, "failed"}
      /\ WithStatus("running")' \subseteq WithStatus("running")
      /\ WithStatus("queued")' \subseteq WithStatus("queued")
      /\ WithStatus("queued")' \subseteq WithStatus("queued") \cup {0}
      /\ Len(jobs) <= Len(jobs)'
  BY <1>0, <1>7
<1>. QED
  BY <1>0, <1>4, <1>5, <1>6, <1>8, Elsewhere

\* Recovery, self heal and age: rows fail or grow old, none is added.
LEMMA Failed ==
  ASSUME NEW w, Workers = {w}, JobsInv,
         \/ RecoverStale \/ SelfHealReads \/ SelfHealDies
         \/ \E j \in DOMAIN jobs : SelfHealSaves(j) \/ Age(j)
  PROVE  JobsInv'
<1>. USE DEF JobsInv
<1>0. /\ TypeOK /\ UNCHANGED <<enabled, due, publishing, messages, orphaned, byHand, wpc, workerVars>>
      /\ {publishing, messages, orphaned} \subseteq Nat /\ Len(jobs) \in Nat /\ jobs \in Seq(Job)
      /\ DOMAIN jobs = 1..Len(jobs) /\ healing \subseteq 1..Len(jobs)
  BY CountsAreNumbers, RowsAreFinite
  DEF RecoverStale, SelfHealReads, SelfHealDies, SelfHealSaves, Age, Fault, workerVars, sourceVars, countVars, TypeOK
<1>1. /\ jobs' \in Seq(Job) /\ Len(jobs)' = Len(jobs) /\ (DOMAIN jobs)' = 1..Len(jobs)
      /\ \A k \in 1..Len(jobs) : jobs'[k].status \in {jobs[k].status, "failed"}
  <2>1. CASE RecoverStale
    <3>. DEFINE stale == {j \in DOMAIN jobs : jobs[j].status \in Open /\ jobs[j].old}
                r == [status |-> "failed", old |-> FALSE]
    <3>1. r \in Job /\ r.status = "failed"
      BY DEF Job
    <3>2. jobs' = [j \in 1..Len(jobs) |-> IF j \in stale THEN r ELSE jobs[j]]
      BY <1>0, <2>1 DEF RecoverStale
    <3>. HIDE DEF stale, r
    <3>. QED
      BY <1>0, <3>1, <3>2
  <2>2. ASSUME NEW j \in DOMAIN jobs, SelfHealSaves(j) \/ Age(j)
        PROVE  /\ jobs' \in Seq(Job) /\ Len(jobs)' = Len(jobs) /\ (DOMAIN jobs)' = 1..Len(jobs)
               /\ \A k \in 1..Len(jobs) : jobs'[k].status \in {jobs[k].status, "failed"}
    <3>1. jobs[j] \in Job
      BY <1>0
    <3>2. PICK r \in Job : r.status \in {jobs[j].status, "failed"} /\ jobs' = [jobs EXCEPT ![j] = r]
      BY <2>2, <3>1 DEF SelfHealSaves, SetJob, Age, Job
    <3>. QED
      BY <1>0, <3>2, RowSet
  <2>3. CASE SelfHealReads \/ SelfHealDies
    BY <1>0, <2>3 DEF SelfHealReads, SelfHealDies
  <2>. QED
    BY <2>1, <2>2, <2>3
<1>2. /\ WithStatus("running")' \subseteq WithStatus("running")
      /\ WithStatus("queued")' \subseteq WithStatus("queued")
      /\ WithStatus("queued")' \subseteq WithStatus("queued") \cup {0}
  BY <1>0, <1>1 DEF WithStatus
<1>3. healing' \subseteq 1..Len(jobs)
  BY <1>0 DEF RecoverStale, SelfHealReads, SelfHealDies, SelfHealSaves, Age, WithStatus
<1>4. SourceTyped' /\ RowsTyped'
  BY <1>0, <1>1, <1>3, Typing DEF SourceTyped, RowsTyped
<1>5. QueueTyped'
  <2>1. faults \in 0..MaxFaults /\ faults' \in 0..MaxFaults /\ faults <= faults'
    BY <1>0, BoundsAre, Typing
    DEF RecoverStale, SelfHealReads, SelfHealDies, SelfHealSaves, Age, Fault, countVars, QueueTyped
  <2>. QED
    BY <1>0, <2>1, BoundsAre, Typing DEF QueueTyped
<1>6. RoomLeft'
  BY <1>0, <1>1 DEF RoomLeft, InTake
<1>7. Len(jobs) <= Len(jobs)' /\ messages + publishing + orphaned <= messages' + publishing' + orphaned'
  BY <1>0, <1>1
<1>. QED
  BY <1>0, <1>1, <1>2, <1>4, <1>5, <1>6, <1>7, Elsewhere

--------------------------------------------------------------------------------
(***************************************************************************)
(* The worker.                                                             *)
(***************************************************************************)
\* What is known of the worker before any of its steps.
Known(w) ==
    /\ TypeOK /\ SourceTyped /\ RowsTyped /\ QueueTyped /\ WorkersTyped
    /\ Len(jobs) \in Nat /\ DOMAIN jobs = 1..Len(jobs) /\ jobs \in Seq(Job)
    /\ mine \in [{w} -> 0..Len(jobs)] /\ mine[w] \in 0..Len(jobs)
    /\ wpc \in [{w} -> {"idle", "read", "picked", "starting", "crawling", "closing"}]
    /\ seen \in [{w} -> BOOLEAN] /\ result \in [{w} -> {"succeeded", "failed"}]
    /\ wpc[w] \in {"starting", "crawling", "closing"} => mine[w] # 0
    /\ {publishing, messages, orphaned, faults, byHand} \subseteq Nat
    /\ Len(jobs) + publishing + messages + InTake(w) <= MaxJobs
    /\ mine[w] # 0 => jobs[mine[w]].status # "succeeded"
    /\ wpc[w] = "starting" => WithStatus("running") \subseteq {mine[w]}
    /\ AtMostOne

LEMMA WorkerFacts ==
  ASSUME NEW w, Workers = {w}, JobsInv
  PROVE  Known(w)
<1>1. /\ TypeOK /\ SourceTyped /\ RowsTyped /\ QueueTyped /\ WorkersTyped
      /\ Len(jobs) \in Nat /\ DOMAIN jobs = 1..Len(jobs) /\ jobs \in Seq(Job)
  BY RowsAreFinite, Typing DEF JobsInv, RowsTyped
<1>2. /\ mine \in [{w} -> 0..Len(jobs)] /\ mine[w] \in 0..Len(jobs)
      /\ wpc \in [{w} -> {"idle", "read", "picked", "starting", "crawling", "closing"}]
      /\ seen \in [{w} -> BOOLEAN] /\ result \in [{w} -> {"succeeded", "failed"}]
      /\ wpc[w] \in {"starting", "crawling", "closing"} => mine[w] # 0
  BY <1>1 DEF WorkersTyped
<1>3. {publishing, messages, orphaned, faults, byHand} \subseteq Nat
  BY <1>1, CountsAreNumbers
<1>4. /\ Len(jobs) + publishing + messages + InTake(w) <= MaxJobs
      /\ mine[w] # 0 => jobs[mine[w]].status # "succeeded"
      /\ wpc[w] = "starting" => WithStatus("running") \subseteq {mine[w]}
      /\ AtMostOne
  BY DEF JobsInv, RoomLeft, HeldNotSucceeded, Alone
<1>. QED
  BY <1>1, <1>2, <1>3, <1>4 DEF Known

\* The worker moves on; the broker and the producers do not.
LEMMA Moved ==
  ASSUME NEW w, Workers = {w}, JobsInv,
         NEW pc \in {"idle", "read", "picked", "starting", "crawling", "closing"}, Goto(w, pc),
         NEW m, mine' = [mine EXCEPT ![w] = m], m \in 0..Len(jobs)',
         pc \in {"starting", "crawling", "closing"} => m # 0,
         seen' \in [{w} -> BOOLEAN], result' \in [{w} -> {"succeeded", "failed"}],
         UNCHANGED <<publishing, messages, healing, countVars, enabled>>, due' \in BOOLEAN,
         jobs' \in Seq(Job), Len(jobs) <= Len(jobs)', Len(jobs)' <= MaxJobs
  PROVE  TypeOK' /\ wpc'[w] = pc /\ mine'[w] = m
<1>0. /\ SourceTyped /\ RowsTyped /\ QueueTyped /\ Len(jobs) \in Nat /\ DOMAIN jobs = 1..Len(jobs)
      /\ mine \in [{w} -> 0..Len(jobs)]
      /\ wpc \in [{w} -> {"idle", "read", "picked", "starting", "crawling", "closing"}]
  BY WorkerFacts DEF Known
<1>1. wpc' = [v \in {w} |-> pc] /\ mine' = [v \in {w} |-> m]
  BY <1>0 DEF Goto
<1>2. WorkersTyped'
  BY <1>1 DEF WorkersTyped
<1>3. SourceTyped' /\ QueueTyped'
  BY <1>0 DEF SourceTyped, QueueTyped, countVars
<1>4. RowsTyped'
  BY <1>0 DEF RowsTyped
<1>. QED
  BY <1>1, <1>2, <1>3, <1>4, Typing

LEMMA ReadSourceStep ==
  ASSUME NEW w, Workers = {w}, JobsInv, ReadSource(w)
  PROVE  JobsInv'
<1>. USE DEF ReadSource
<1>k. Known(w)
  BY WorkerFacts
<1>0. /\ wpc[w] = "idle" /\ messages' = messages - 1 /\ messages > 0
      /\ UNCHANGED <<enabled, due, jobs, publishing, mine, result, healing, countVars, faults, byHand, orphaned>>
  BY DEF sourceVars, countVars
<1>1. wpc' = [v \in {w} |-> "read"] /\ seen' \in [{w} -> BOOLEAN]
  <2>1. enabled \in BOOLEAN
    BY <1>k DEF SourceTyped, Known
  <2>. QED
    BY <2>1, <1>k DEF Goto, Known
<1>2. TypeOK'
  <2>1. SourceTyped' /\ RowsTyped'
    BY <1>0, <1>k DEF SourceTyped, RowsTyped, Known
  <2>2. WorkersTyped'
    BY <1>0, <1>1, <1>k DEF WorkersTyped, Known
  <2>3. QueueTyped'
    BY <1>0, <1>k, BoundsAre DEF QueueTyped, Known
  <2>. QED
    BY <2>1, <2>2, <2>3, Typing
<1>3. Alone' /\ AtMostOne' /\ HeldNotSucceeded'
  BY <1>0, <1>1 DEF JobsInv, Alone, AtMostOne, HeldNotSucceeded, WithStatus
<1>4. RoomLeft'
  BY <1>0, <1>1, <1>k DEF RoomLeft, InTake, Known
<1>5. Awaited'
  <2>1. (WithStatus("queued") \ Taken(w))' = WithStatus("queued") \ Taken(w)
    BY <1>0, <1>1 DEF WithStatus, Taken
  <2>2. messages + publishing + Coming(w) + orphaned <= messages' + publishing' + Coming(w)' + orphaned'
    BY <1>0, <1>1, <1>k DEF Coming, Known
  <2>3. (WithStatus("queued") \ Taken(w))' \subseteq (WithStatus("queued") \ Taken(w)) \cup {0}
    BY <2>1
  <2>. QED
    BY <1>2, <2>1, <2>2, <2>3, AwaitedStep DEF JobsInv
<1>. QED
  BY <1>2, <1>3, <1>4, <1>5 DEF JobsInv

\* The picked row no longer waits for a message, and the task's message is used up.
LEMMA PickJobStep ==
  ASSUME NEW w, Workers = {w}, JobsInv, PickJob(w)
  PROVE  JobsInv'
<1>k. Known(w)
  BY WorkerFacts
<1>0. /\ wpc[w] = "read" /\ mine' = [mine EXCEPT ![w] = OldestQueued] /\ Goto(w, "picked")
      /\ UNCHANGED <<enabled, due, jobs, publishing, messages, seen, result, healing, countVars, orphaned>>
  BY DEF PickJob, sourceVars, countVars
<1>1. /\ OldestQueued \in 0..Len(jobs)
      /\ OldestQueued # 0 => OldestQueued \in WithStatus("queued")
      /\ OldestQueued \notin WithStatus("queued") => WithStatus("queued") = {}
  BY <1>k, Picked, RowsAreFinite DEF Known
<1>2. TypeOK' /\ wpc'[w] = "picked" /\ mine'[w] = OldestQueued
  <2>1. due \in BOOLEAN /\ Len(jobs) <= MaxJobs
    BY <1>k DEF SourceTyped, RowsTyped, Known
  <2>2. /\ OldestQueued \in 0..Len(jobs)' /\ jobs' \in Seq(Job) /\ due' \in BOOLEAN
        /\ Len(jobs) <= Len(jobs)' /\ Len(jobs)' <= MaxJobs
        /\ seen' \in [{w} -> BOOLEAN] /\ result' \in [{w} -> {"succeeded", "failed"}]
    BY <1>0, <1>1, <2>1, <1>k DEF Known
  <2>. QED
    BY <1>0, <2>2, Moved
<1>3. Alone' /\ AtMostOne' /\ HeldNotSucceeded'
  BY <1>0, <1>1, <1>2, <1>k DEF Alone, AtMostOne, HeldNotSucceeded, WithStatus, Known
<1>4. RoomLeft'
  BY <1>0, <1>2, <1>k DEF RoomLeft, InTake, Known
<1>5. Awaited'
  <2>1. /\ Taken(w) = {} /\ Taken(w)' = {OldestQueued} /\ Coming(w) = 1 /\ Coming(w)' = 0
        /\ WithStatus("queued")' = WithStatus("queued") /\ IsFiniteSet(WithStatus("queued"))
    BY <1>0, <1>2, <1>k, RowsAreFinite DEF Taken, Coming, WithStatus, Known
  <2>2. Cardinality(WithStatus("queued")) <= messages + publishing + 1 + orphaned
    <3>1. WithStatus("queued") \ Taken(w) = WithStatus("queued")
      BY <2>1
    <3>. QED
      BY <2>1, <3>1 DEF JobsInv, Awaited
  <2>3. Cardinality(WithStatus("queued") \ {OldestQueued}) <= messages + publishing + 0 + orphaned
    <3>1. CASE OldestQueued \in WithStatus("queued")
      <4>1. Cardinality(WithStatus("queued") \ {OldestQueued}) = Cardinality(WithStatus("queued")) - 1
        BY <2>1, <3>1, FS_RemoveElement
      <4>. QED
        BY <2>1, <2>2, <4>1, <1>k, FS_CardinalityType DEF Known
    <3>2. CASE OldestQueued \notin WithStatus("queued")
      <4>1. Cardinality(WithStatus("queued") \ {OldestQueued}) = 0
        BY <1>1, <3>2, FS_EmptySet
      <4>. QED
        BY <4>1, <1>k DEF Known
    <3>. QED
      BY <3>1, <3>2
  <2>. QED
    BY <1>0, <2>1, <2>3 DEF Awaited
<1>. QED
  BY <1>2, <1>3, <1>4, <1>5 DEF JobsInv

\* The task returns: it holds nothing, and the row it held no longer waits or runs.
LEMMA Returned ==
  ASSUME NEW w, Workers = {w}, JobsInv, Return(w), wpc[w] \in {"picked", "closing"},
         \/ mine[w] = 0 /\ jobs' = jobs /\ wpc[w] = "picked"
         \/ mine[w] # 0 /\ \E t \in {"failed", "succeeded"} : SetJob(mine[w], t)
  PROVE  JobsInv'
<1>k. Known(w)
  BY WorkerFacts
<1>0. /\ Goto(w, "idle") /\ mine' = [mine EXCEPT ![w] = 0]
      /\ UNCHANGED <<enabled, due, publishing, messages, healing, countVars, orphaned>>
      /\ seen' \in [{w} -> BOOLEAN] /\ result' \in [{w} -> {"succeeded", "failed"}]
  BY <1>k DEF Return, Forget, sourceVars, countVars, Known
<1>1. /\ jobs' \in Seq(Job) /\ Len(jobs)' = Len(jobs)
      /\ WithStatus("queued")' \subseteq WithStatus("queued") \ {mine[w]}
      /\ WithStatus("running")' \subseteq WithStatus("running")
  <2>1. CASE mine[w] = 0 /\ jobs' = jobs
    BY <1>k, <2>1 DEF Known, WithStatus
  <2>2. CASE mine[w] # 0
    <3>1. PICK t \in {"failed", "succeeded"} : SetJob(mine[w], t)
      BY <2>2
    <3>2. PICK r \in Job : r.status = t /\ jobs' = [jobs EXCEPT ![mine[w]] = r]
      BY <3>1 DEF SetJob, Job
    <3>3. mine[w] \in 1..Len(jobs)
      BY <1>k, <2>2 DEF Known
    <3>4. /\ jobs' \in Seq(Job) /\ Len(jobs)' = Len(jobs)
          /\ \A q : WithStatus(q)' = IF r.status = q THEN WithStatus(q) \cup {mine[w]} ELSE WithStatus(q) \ {mine[w]}
      BY <1>k, <3>2, <3>3, RowSet DEF Known
    <3>5. r.status # "queued" /\ r.status # "running"
      BY <3>2
    <3>6. /\ WithStatus("queued")' = WithStatus("queued") \ {mine[w]}
          /\ WithStatus("running")' = WithStatus("running") \ {mine[w]}
      BY <3>4, <3>5
    <3>. QED
      BY <3>4, <3>6
  <2>. QED
    BY <2>1, <2>2
<1>2. TypeOK' /\ wpc'[w] = "idle" /\ mine'[w] = 0
  <2>1. /\ 0 \in 0..Len(jobs)' /\ due' \in BOOLEAN /\ Len(jobs) <= Len(jobs)' /\ Len(jobs)' <= MaxJobs
    BY <1>0, <1>1, <1>k DEF Known, SourceTyped, RowsTyped
  <2>. QED
    BY <1>0, <1>1, <2>1, Moved
<1>3. Alone' /\ AtMostOne' /\ HeldNotSucceeded'
  BY <1>1, <1>2, <1>k DEF Alone, AtMostOne, HeldNotSucceeded, Known
<1>4. RoomLeft'
  <2>1. InTake(w)' = 0 /\ InTake(w) \in {0, 1} /\ Len(jobs)' \in Nat
    BY <1>1, <1>2 DEF InTake
  <2>. QED
    BY <1>0, <1>1, <1>k, <2>1, BoundsAre DEF RoomLeft, Known
<1>5. Awaited'
  <2>1. /\ Taken(w)' = {} /\ Taken(w) \subseteq {mine[w]} /\ Coming(w) = 0 /\ Coming(w)' = 0
    BY <1>2 DEF Taken, Coming
  <2>2. (WithStatus("queued") \ Taken(w))' \subseteq WithStatus("queued") \ Taken(w)
    BY <1>1, <2>1
  <2>3. messages + publishing + Coming(w) + orphaned <= messages' + publishing' + Coming(w)' + orphaned'
    BY <1>0, <1>k, <2>1 DEF Known
  <2>4. (WithStatus("queued") \ Taken(w))' \subseteq (WithStatus("queued") \ Taken(w)) \cup {0}
    BY <2>2
  <2>. QED
    BY <1>2, <1>k, <2>2, <2>3, <2>4, AwaitedStep DEF JobsInv
<1>. QED
  BY <1>2, <1>3, <1>4, <1>5 DEF JobsInv

\* Nobody starts a row between the look for another and the start of this one.
LEMMA TakeJobStep ==
  ASSUME NEW w, Workers = {w}, JobsInv, TakeJob(w)
  PROVE  JobsInv'
<1>k. Known(w)
  BY WorkerFacts
<1>0. /\ wpc[w] = "picked" /\ WithStatus("running") \subseteq {mine[w]} /\ Goto(w, "starting")
      /\ UNCHANGED <<enabled, due, publishing, messages, seen, result, healing, countVars, orphaned>>
      /\ WithStatus("running") \subseteq 1..Len(jobs) /\ WithStatus("queued") \subseteq 1..Len(jobs)
  BY <1>k, RowsAreFinite DEF TakeJob, AnotherRunning, sourceVars, countVars, Known
<1>1. PICK m \in Nat \ {0} :
        /\ mine' = [mine EXCEPT ![w] = m] /\ m \in 1..Len(jobs)'
        /\ jobs' \in Seq(Job) /\ Len(jobs) <= Len(jobs)' /\ Len(jobs)' <= Len(jobs) + 1
        /\ WithStatus("running")' = WithStatus("running") /\ WithStatus("running") \subseteq {m}
        /\ WithStatus("queued")' \ {m} \subseteq WithStatus("queued") \ {mine[w]}
        /\ jobs'[m].status # "succeeded"
  <2>1. CASE mine[w] = 0
    <3>1. jobs' = Append(jobs, QueuedJob) /\ mine' = [mine EXCEPT ![w] = Len(jobs) + 1]
      BY <2>1 DEF TakeJob
    <3>2. /\ jobs' \in Seq(Job) /\ Len(jobs)' = Len(jobs) + 1
          /\ jobs'[Len(jobs) + 1] = QueuedJob
          /\ WithStatus("queued")' = WithStatus("queued") \cup {Len(jobs) + 1}
          /\ WithStatus("running")' = WithStatus("running")
      BY <1>k, <3>1, RowAdded DEF Known
    <3>3. QueuedJob.status # "succeeded"
      BY DEF QueuedJob
    <3>4. WithStatus("running") = {}
      BY <1>0, <2>1
    <3>5. WithStatus("queued")' \ {Len(jobs) + 1} \subseteq WithStatus("queued") \ {mine[w]}
      BY <1>0, <2>1, <3>2
    <3>6. Len(jobs) \in Nat /\ Len(jobs) + 1 \in Nat \ {0}
      BY <1>k DEF Known
    <3>7. Len(jobs) + 1 \in 1..Len(jobs)' /\ Len(jobs) <= Len(jobs)' /\ Len(jobs)' <= Len(jobs) + 1
      BY <3>2, <3>6
    <3>. WITNESS Len(jobs) + 1 \in Nat \ {0}
    <3>. QED
      BY <3>1, <3>2, <3>3, <3>4, <3>5, <3>7
  <2>2. CASE mine[w] # 0
    <3>1. jobs' = jobs /\ mine' = mine
      BY <2>2 DEF TakeJob
    <3>2. mine' = [mine EXCEPT ![w] = mine[w]] /\ mine[w] \in 1..Len(jobs) /\ mine[w] \in Nat \ {0}
      BY <1>k, <2>2, <3>1 DEF Known
    <3>. QED
      BY <1>0, <1>k, <2>2, <3>1, <3>2 DEF Known, WithStatus
  <2>. QED
    BY <2>1, <2>2
<1>2. Len(jobs)' <= MaxJobs
  BY <1>0, <1>1, <1>k, BoundsAre DEF Known, InTake
<1>3. TypeOK' /\ wpc'[w] = "starting" /\ mine'[w] = m
  <2>1. m \in 0..Len(jobs)' /\ due' \in BOOLEAN /\ m # 0
        /\ seen' \in [{w} -> BOOLEAN] /\ result' \in [{w} -> {"succeeded", "failed"}]
    BY <1>0, <1>1, <1>k DEF Known, SourceTyped
  <2>. QED
    BY <1>0, <1>1, <1>2, <2>1, Moved
<1>4. Alone' /\ AtMostOne' /\ HeldNotSucceeded'
  BY <1>1, <1>3, <1>k DEF Alone, AtMostOne, HeldNotSucceeded, Known
<1>5. RoomLeft'
  <2>1. InTake(w) = 1 /\ InTake(w)' = 0 /\ Len(jobs)' \in Nat
    BY <1>0, <1>1, <1>3 DEF InTake
  <2>. QED
    BY <1>0, <1>1, <1>k, <2>1, BoundsAre DEF RoomLeft, Known
<1>6. Awaited'
  <2>1. Taken(w) = {mine[w]} /\ Taken(w)' = {m} /\ Coming(w) = 0 /\ Coming(w)' = 0
    BY <1>0, <1>3 DEF Taken, Coming
  <2>2. (WithStatus("queued") \ Taken(w))' \subseteq WithStatus("queued") \ Taken(w)
    BY <1>1, <2>1
  <2>3. messages + publishing + Coming(w) + orphaned <= messages' + publishing' + Coming(w)' + orphaned'
    BY <1>0, <1>k, <2>1 DEF Known
  <2>4. (WithStatus("queued") \ Taken(w))' \subseteq (WithStatus("queued") \ Taken(w)) \cup {0}
    BY <2>2
  <2>. QED
    BY <1>3, <1>k, <2>2, <2>3, <2>4, AwaitedStep DEF JobsInv
<1>. QED
  BY <1>3, <1>4, <1>5, <1>6 DEF JobsInv

LEMMA StartJobStep ==
  ASSUME NEW w, Workers = {w}, JobsInv, StartJob(w)
  PROVE  JobsInv'
<1>k. Known(w)
  BY WorkerFacts
<1>0. /\ wpc[w] = "starting" /\ Goto(w, "crawling") /\ mine' = mine
      /\ UNCHANGED <<enabled, due, publishing, messages, seen, result, healing, countVars, orphaned>>
      /\ mine[w] \in 1..Len(jobs) /\ WithStatus("running") \subseteq {mine[w]}
  BY <1>k DEF StartJob, sourceVars, countVars, Known
<1>1. PICK r \in Job : r.status = "running" /\ jobs' = [jobs EXCEPT ![mine[w]] = r]
  BY DEF StartJob, Job, Open
<1>2. /\ jobs' \in Seq(Job) /\ Len(jobs)' = Len(jobs)
      /\ \A k \in 1..Len(jobs) : jobs'[k] = IF k = mine[w] THEN r ELSE jobs[k]
      /\ \A q : WithStatus(q)' = IF r.status = q THEN WithStatus(q) \cup {mine[w]} ELSE WithStatus(q) \ {mine[w]}
  BY <1>0, <1>1, <1>k, RowSet DEF Known
<1>3. /\ WithStatus("running")' \subseteq {mine[w]}
      /\ WithStatus("queued")' = WithStatus("queued") \ {mine[w]}
      /\ jobs'[mine[w]].status # "succeeded"
  BY <1>0, <1>1, <1>2
<1>4. TypeOK' /\ wpc'[w] = "crawling" /\ mine'[w] = mine[w]
  <2>1. mine' = [mine EXCEPT ![w] = mine[w]]
    BY <1>0, <1>k DEF Known
  <2>2. /\ mine[w] \in 0..Len(jobs)' /\ mine[w] # 0 /\ due' \in BOOLEAN /\ Len(jobs) <= Len(jobs)'
        /\ Len(jobs)' <= MaxJobs
        /\ seen' \in [{w} -> BOOLEAN] /\ result' \in [{w} -> {"succeeded", "failed"}]
    BY <1>0, <1>2, <1>k DEF Known, SourceTyped, RowsTyped
  <2>. QED
    BY <1>0, <1>2, <2>1, <2>2, Moved
<1>5. Alone' /\ AtMostOne' /\ HeldNotSucceeded'
  BY <1>3, <1>4 DEF Alone, AtMostOne, HeldNotSucceeded
<1>6. RoomLeft'
  <2>1. InTake(w)' = 0 /\ InTake(w) = 0
    BY <1>0, <1>4 DEF InTake
  <2>. QED
    BY <1>0, <1>2, <1>k, <2>1 DEF RoomLeft, Known
<1>7. Awaited'
  <2>1. Taken(w)' = {} /\ Taken(w) = {mine[w]} /\ Coming(w) = 0 /\ Coming(w)' = 0
    BY <1>0, <1>4 DEF Taken, Coming
  <2>2. (WithStatus("queued") \ Taken(w))' \subseteq WithStatus("queued") \ Taken(w)
    BY <1>3, <2>1
  <2>3. messages + publishing + Coming(w) + orphaned <= messages' + publishing' + Coming(w)' + orphaned'
    BY <1>0, <1>k, <2>1 DEF Known
  <2>4. (WithStatus("queued") \ Taken(w))' \subseteq (WithStatus("queued") \ Taken(w)) \cup {0}
    BY <2>2
  <2>. QED
    BY <1>4, <1>k, <2>2, <2>3, <2>4, AwaitedStep DEF JobsInv
<1>. QED
  BY <1>4, <1>5, <1>6, <1>7 DEF JobsInv

LEMMA SaveSourceStep ==
  ASSUME NEW w, Workers = {w}, JobsInv, SaveSource(w)
  PROVE  JobsInv'
<1>k. Known(w)
  BY WorkerFacts
<1>0. /\ wpc[w] = "crawling" /\ Goto(w, "closing") /\ mine' = mine /\ jobs' = jobs /\ due' = FALSE
      /\ UNCHANGED <<enabled, publishing, messages, seen, healing, countVars, orphaned>>
      /\ result' \in [{w} -> {"succeeded", "failed"}]
  BY <1>k DEF SaveSource, countVars, Known
<1>1. TypeOK' /\ wpc'[w] = "closing" /\ mine'[w] = mine[w]
  <2>1. mine' = [mine EXCEPT ![w] = mine[w]]
    BY <1>0, <1>k DEF Known
  <2>2. /\ mine[w] \in 0..Len(jobs) /\ mine[w] # 0 /\ Len(jobs) \in Nat /\ Len(jobs) <= MaxJobs
        /\ seen \in [{w} -> BOOLEAN] /\ jobs \in Seq(Job)
    BY <1>0, <1>k DEF Known, RowsTyped
  <2>3. due' \in BOOLEAN
    BY <1>0
  <2>4. /\ mine[w] \in 0..Len(jobs)' /\ Len(jobs) <= Len(jobs)' /\ Len(jobs)' <= MaxJobs
    BY <1>0, <2>2
  <2>5. seen' \in [{w} -> BOOLEAN] /\ jobs' \in Seq(Job)
    BY <1>0, <2>2
  <2>. QED
    BY <1>0, <2>1, <2>2, <2>3, <2>4, <2>5, Moved
<1>2. Alone' /\ AtMostOne' /\ HeldNotSucceeded'
  BY <1>0, <1>1, <1>k DEF Alone, AtMostOne, HeldNotSucceeded, Known, WithStatus
<1>3. RoomLeft' /\ Awaited'
  <2>1. /\ InTake(w)' = 0 /\ InTake(w) = 0 /\ Taken(w) = {} /\ Taken(w)' = {} /\ Coming(w) = 0 /\ Coming(w)' = 0
        /\ WithStatus("queued")' = WithStatus("queued")
    BY <1>0, <1>1 DEF InTake, Taken, Coming, WithStatus
  <2>2. RoomLeft'
    BY <1>0, <1>k, <2>1 DEF RoomLeft, Known
  <2>3. Cardinality(WithStatus("queued") \ Taken(w)) <= messages + publishing + Coming(w) + orphaned
    BY DEF JobsInv, Awaited
  <2>4. Awaited'
    BY <1>0, <2>1, <2>3 DEF Awaited
  <2>. QED
    BY <2>2, <2>4
<1>. QED
  BY <1>1, <1>2, <1>3 DEF JobsInv

\* The message of a lost worker is delivered again, so the row it had taken is awaited.
LEMMA WorkerLostStep ==
  ASSUME NEW w, Workers = {w}, JobsInv, WorkerLost(w)
  PROVE  JobsInv'
<1>k. Known(w)
  BY WorkerFacts
<1>0. /\ wpc' = [v \in {w} |-> "idle"] /\ mine' = [v \in {w} |-> 0] /\ messages' = messages + 1
      /\ UNCHANGED <<enabled, due, jobs, publishing, healing, byHand, orphaned>>
      /\ seen' \in [{w} -> BOOLEAN] /\ result' \in [{w} -> {"succeeded", "failed"}]
      /\ wpc[w] \in {"read", "picked"} \/ Room(1)
      /\ faults' \in 0..MaxFaults /\ orphaned \in 0..faults' /\ byHand \in 0..MaxByHand
  <2>1. faults \in 0..MaxFaults /\ orphaned \in 0..faults /\ byHand \in 0..MaxByHand
    BY <1>k DEF Known, QueueTyped
  <2>2. /\ UNCHANGED <<enabled, due, jobs, publishing, healing, byHand, orphaned>>
        /\ messages' = messages + 1 /\ faults < MaxFaults /\ faults' = faults + 1
        /\ wpc[w] \in {"read", "picked"} \/ Room(1)
    BY DEF WorkerLost, Fault, sourceVars
  <2>3. /\ wpc' = [v \in {w} |-> "idle"] /\ mine' = [v \in {w} |-> 0]
        /\ seen' \in [{w} -> BOOLEAN] /\ result' \in [{w} -> {"succeeded", "failed"}]
    BY <1>k DEF WorkerLost, Goto, Forget, Known
  <2>. QED
    BY <2>1, <2>2, <2>3, BoundsAre
<1>1. Len(jobs) + publishing + messages + 1 <= MaxJobs
  <2>1. CASE wpc[w] \in {"read", "picked"}
    BY <1>k, <2>1 DEF Known, InTake
  <2>2. CASE wpc[w] \notin {"read", "picked"}
    <3>1. Creators = publishing + messages + 0
      BY <2>2, OneWorkerCounts DEF InTake
    <3>. QED
      BY <1>0, <1>k, <2>2, <3>1 DEF Known, Room
  <2>. QED
    BY <2>1, <2>2
<1>2. TypeOK'
  <2>1. SourceTyped' /\ RowsTyped'
    BY <1>0, <1>k DEF Known, SourceTyped, RowsTyped
  <2>2. QueueTyped'
    BY <1>0, <1>1, <1>k, BoundsAre DEF Known, QueueTyped
  <2>3. WorkersTyped'
    BY <1>0, <1>k DEF Known, WorkersTyped
  <2>. QED
    BY <2>1, <2>2, <2>3, Typing
<1>3. Alone' /\ AtMostOne' /\ HeldNotSucceeded'
  BY <1>0, <1>k DEF Alone, AtMostOne, HeldNotSucceeded, Known, WithStatus
<1>4. RoomLeft'
  <2>1. InTake(w)' = 0
    BY <1>0 DEF InTake
  <2>. QED
    BY <1>0, <1>1, <1>k, <2>1 DEF RoomLeft, Known
<1>5. Awaited'
  <2>1. /\ Taken(w)' = {} /\ Coming(w)' = 0 /\ WithStatus("queued")' = WithStatus("queued")
        /\ Taken(w) \subseteq {mine[w]} /\ Coming(w) \in {0, 1} /\ (Coming(w) = 1 => Taken(w) = {})
    BY <1>0 DEF Taken, Coming, WithStatus
  <2>2. (WithStatus("queued") \ Taken(w))' \subseteq (WithStatus("queued") \ Taken(w)) \cup {mine[w]}
    BY <2>1
  <2>3. CASE Coming(w) = 1
    <3>1. messages + publishing + Coming(w) + orphaned <= messages' + publishing' + Coming(w)' + orphaned'
      BY <1>0, <1>k, <2>1, <2>3 DEF Known
    <3>2. (WithStatus("queued") \ Taken(w))' \subseteq WithStatus("queued") \ Taken(w)
      BY <2>1, <2>3
    <3>. QED
      BY <1>2, <1>k, <2>2, <3>1, <3>2, AwaitedStep DEF JobsInv
  <2>4. CASE Coming(w) = 0
    <3>1. messages + publishing + Coming(w) + orphaned + 1 <= messages' + publishing' + Coming(w)' + orphaned'
      BY <1>0, <1>k, <2>1, <2>4 DEF Known
    <3>. QED
      BY <1>2, <1>k, <2>2, <3>1, AwaitedStep DEF JobsInv
  <2>. QED
    BY <2>1, <2>3, <2>4
<1>. QED
  BY <1>2, <1>3, <1>4, <1>5 DEF JobsInv

--------------------------------------------------------------------------------
LEMMA JobsInit ==
  ASSUME NEW w, Workers = {w}, Init
  PROVE  JobsInv
<1>. USE DEF Init
<1>1. Len(jobs) = 0 /\ DOMAIN jobs = {} /\ jobs \in Seq(Job) /\ \A s : WithStatus(s) = {}
  BY DEF WithStatus
<1>2. TypeOK
  BY <1>1, BoundsAre DEF TypeOK
<1>3. Alone /\ AtMostOne /\ HeldNotSucceeded
  BY <1>1 DEF Alone, AtMostOne, HeldNotSucceeded
<1>4. RoomLeft
  BY <1>1, BoundsAre DEF RoomLeft, InTake
<1>5. Awaited
  <2>1. Cardinality(WithStatus("queued") \ Taken(w)) = 0 /\ Coming(w) = 0
    <3>1. WithStatus("queued") \ Taken(w) = {}
      BY <1>1
    <3>. QED
      BY <3>1, FS_EmptySet DEF Coming
  <2>. QED
    BY <2>1 DEF Awaited
<1>. QED
  BY <1>2, <1>3, <1>4, <1>5 DEF JobsInv

\* The steps of Skip and CloseJob are those of a task that returns.
LEMMA WorkStep ==
  ASSUME NEW w, Workers = {w}, JobsInv, Work(w)
  PROVE  JobsInv'
<1>k. Known(w)
  BY WorkerFacts
<1>1. CASE Skip(w)
  BY <1>1, Returned DEF Skip
<1>2. CASE CloseJob(w)
  <2>1. result[w] \in {"failed", "succeeded"} /\ mine[w] # 0 /\ wpc[w] = "closing"
    BY <1>2, <1>k DEF CloseJob, Known
  <2>. QED
    BY <1>2, <2>1, Returned DEF CloseJob
<1>. QED
  BY <1>1, <1>2, ReadSourceStep, PickJobStep, TakeJobStep, StartJobStep, SaveSourceStep DEF Work

LEMMA JobsNext ==
  ASSUME NEW w, Workers = {w}, JobsInv, [Next]_vars
  PROVE  JobsInv'
<1>1. CASE QueueSourceIfIdle \/ RetrySource
  BY <1>1, Inserted DEF QueueSourceIfIdle, RetrySource
<1>2. CASE Publish \/ LosePublication \/ SendByHand \/ VisibilityTimeout(w) \/ BecomeDue \/ Toggle
  BY <1>2, Delivered
<1>3. CASE Work(w) \/ WorkerLost(w)
  BY <1>3, WorkStep, WorkerLostStep
<1>4. CASE \/ RecoverStale \/ SelfHealReads \/ SelfHealDies
           \/ \E j \in DOMAIN jobs : SelfHealSaves(j) \/ Age(j)
  BY <1>4, Failed
<1>5. CASE UNCHANGED vars
  <2>1. UNCHANGED <<enabled, due, jobs, publishing, messages, wpc, mine, seen, result, healing,
                    byHand, faults, orphaned>>
    BY <1>5 DEF vars, sourceVars, workerVars, countVars
  <2>2. TypeOK'
    BY <2>1 DEF JobsInv, TypeOK
  <2>3. Alone' /\ AtMostOne' /\ HeldNotSucceeded' /\ RoomLeft' /\ Awaited'
    BY <2>1
    DEF JobsInv, Alone, AtMostOne, HeldNotSucceeded, RoomLeft, Awaited, WithStatus, InTake, Taken, Coming
  <2>. QED
    BY <2>2, <2>3 DEF JobsInv
<1>. QED
  BY <1>1, <1>2, <1>3, <1>4, <1>5 DEF Next

\* With one slot every reachable state is one where a row that starts is alone and every
\* row that waits is awaited.
THEOREM JobsInvariant ==
  ASSUME NEW w, Workers = {w}
  PROVE  Spec => []JobsInv
<1>1. Init => JobsInv
  BY JobsInit
<1>2. JobsInv /\ [Next]_vars => JobsInv'
  BY JobsNext
<1>. QED
  BY <1>1, <1>2, PTL DEF Spec

\* Variables keep their types, and no message in the broker or in hand can create a row
\* for which there is no room.
THEOREM JobsTypeCorrect ==
  ASSUME NEW w, Workers = {w}
  PROVE  Spec => []TypeOK
<1>1. JobsInv => TypeOK
  BY DEF JobsInv
<1>. QED
  BY <1>1, JobsInvariant, PTL

\* With the one slot the general worker runs with, two crawls of a source never run at
\* once, however messages are lost, repeated and sent by hand.
THEOREM OneJobRuns ==
  ASSUME NEW w, Workers = {w}
  PROVE  Spec => []OneRunningJob
<1>1. JobsInv => OneRunningJob
  <2>. SUFFICES ASSUME JobsInv PROVE OneRunningJob
    OBVIOUS
  <2>1. CASE WithStatus("running") = {}
    BY <2>1, FS_EmptySet DEF OneRunningJob
  <2>2. CASE WithStatus("running") # {}
    <3>1. PICK i : WithStatus("running") = {i}
      BY <2>2 DEF JobsInv, AtMostOne
    <3>2. Cardinality(WithStatus("running")) = 1
      BY <3>1, FS_Singleton
    <3>. QED
      BY <3>2 DEF OneRunningJob
  <2>. QED
    BY <2>1, <2>2
<1>. QED
  BY <1>1, JobsInvariant, PTL

\* Every row that waits has a message, a producer about to send one, a task that has yet
\* to pick, or a publication that failed: no scheduled crawl is silently forgotten.
THEOREM QueuedJobsAwaitMessages ==
  ASSUME NEW w, Workers = {w}
  PROVE  Spec => []QueuedJobsHaveMessages
<1>1. JobsInv => QueuedJobsHaveMessages
  BY OneWorkerCounts DEF JobsInv
<1>. QED
  BY <1>1, JobsInvariant, PTL

\* Only the self heal that read a row while it ran, and the task that holds a failed row,
\* rewrite the end of a job.
THEOREM HistoryStays ==
  ASSUME NEW one, Workers = {one}
  PROVE  Spec => EndedJobsStay
<1>1. ASSUME JobsInv, [Next]_vars
      PROVE  [\A j \in DOMAIN jobs \ healing :
                  \/ jobs[j].status = "succeeded"
                  \/ jobs[j].status = "failed" /\ \A w \in Workers : mine[w] # j
                  => jobs'[j].status = jobs[j].status]_vars
  <2>. SUFFICES ASSUME Next, NEW j \in DOMAIN jobs \ healing,
                       \/ jobs[j].status = "succeeded"
                       \/ jobs[j].status = "failed" /\ \A w \in Workers : mine[w] # j
                PROVE  jobs'[j].status = jobs[j].status
    BY <1>1
  <2>k. Known(one)
    BY <1>1, WorkerFacts
  <2>0. j \in 1..Len(jobs) /\ mine[one] # j
    BY <2>k DEF Known
  <2>1. ASSUME NEW i \in 1..Len(jobs), NEW t, SetJob(i, t), i # j PROVE jobs'[j] = jobs[j]
    BY <2>0, <2>1, <2>k DEF SetJob, Known
  <2>2. CASE QueueSourceIfIdle \/ RetrySource
    BY <2>0, <2>2, <2>k, RowAdded DEF QueueSourceIfIdle, RetrySource, InsertQueued, Known
  <2>3. CASE \/ Publish \/ LosePublication \/ SendByHand \/ VisibilityTimeout(one) \/ BecomeDue \/ Toggle
             \/ SelfHealReads \/ SelfHealDies \/ WorkerLost(one)
    BY <2>3
    DEF Publish, LosePublication, SendByHand, VisibilityTimeout, BecomeDue, Toggle, SelfHealReads,
        SelfHealDies, WorkerLost
  <2>4. CASE RecoverStale
    BY <2>0, <2>4, <2>k DEF RecoverStale, Open, Known
  <2>5. ASSUME NEW i \in DOMAIN jobs, SelfHealSaves(i) PROVE jobs'[j] = jobs[j]
    BY <2>1, <2>5, <2>k DEF SelfHealSaves, Known
  <2>6. ASSUME NEW i \in DOMAIN jobs, Age(i) PROVE jobs'[j] = jobs[j]
    <3>1. i # j
      BY <2>6 DEF Age, Open
    <3>. QED
      BY <2>0, <2>6, <2>k, <3>1 DEF Age, Known
  <2>7. CASE Work(one)
    <3>1. CASE ReadSource(one) \/ PickJob(one) \/ SaveSource(one)
      BY <3>1 DEF ReadSource, PickJob, SaveSource
    <3>2. CASE Skip(one) \/ CloseJob(one)
      <4>1. CASE jobs' = jobs
        BY <4>1
      <4>2. CASE mine[one] # 0 /\ \E t : SetJob(mine[one], t)
        BY <2>0, <2>1, <2>k, <4>2 DEF Known
      <4>3. wpc[one] = "closing" => mine[one] # 0
        BY <2>k DEF Known
      <4>. QED
        BY <3>2, <4>1, <4>2, <4>3 DEF Skip, CloseJob
    <3>3. CASE TakeJob(one)
      BY <2>0, <2>k, <3>3, RowAdded DEF TakeJob, Known
    <3>4. CASE StartJob(one)
      BY <2>0, <2>k, <3>4 DEF StartJob, Known
    <3>. QED
      BY <2>7, <3>1, <3>2, <3>3, <3>4 DEF Work
  <2>. QED
    BY <2>2, <2>3, <2>4, <2>5, <2>6, <2>7 DEF Next
<1>2. Spec => []JobsInv
  BY JobsInvariant
<1>. QED
  BY <1>1, <1>2, PTL DEF Spec, EndedJobsStay
--------------------------------------------------------------------------------
(***************************************************************************)
(* The failures recorded for a URL.                                        *)
(***************************************************************************)

Row == [open: BOOLEAN, kind: Kinds, ack: {"none"} \cup Gone]
Recording == {"read", "create", "others", "save"}

\* The types of all but recent, which no property depends on.
Typed ==
    /\ rows \in Seq(Row)
    /\ at \in [Actors -> Points] /\ got \in [Visits -> Kinds \cup {"ok"}]
    /\ kept \in [Actors -> Nat] /\ alone \subseteq Actors
    /\ settled \in Kinds \cup {"ok", "unknown"} /\ crashes \in 0..MaxCrashes

\* What a visit that records a failure has in hand.
InHand ==
    \A v \in Visits :
        /\ at[v] \in Recording => got[v] \in Kinds
        /\ at[v] \in {"others", "save"} => kept[v] \in DOMAIN rows

\* Who is alone is the only one under way; what it has read of the rows is still true.
AloneSees ==
    /\ \A o \in alone : Busy = {o}
    /\ \A v \in Visits \cap alone :
           /\ at[v] = "create" => OpenFailures = {}
           /\ at[v] = "others" => kept[v] \in OpenFailures
           /\ at[v] = "save" => OpenFailures = {kept[v]}
    /\ Cleaner \in alone => settled = "unknown"

FailuresInv == Typed /\ InHand /\ AloneSees /\ AcknowledgedIsGone /\ SettledOutcome

--------------------------------------------------------------------------------
LEMMA FailuresBegin == FailuresInit => FailuresInv
<1>. SUFFICES ASSUME FailuresInit PROVE FailuresInv
  OBVIOUS
<1>1. rows \in Seq(Row) /\ DOMAIN rows = {}
  BY DEF FailuresInit
<1>2. Typed /\ InHand
  BY <1>1, CrawlFailuresAssumption DEF FailuresInit, Typed, InHand, Points, Recording, Actors
<1>3. AloneSees /\ AcknowledgedIsGone /\ SettledOutcome
  BY <1>1 DEF FailuresInit, AloneSees, AcknowledgedIsGone, SettledOutcome, OpenFailures
<1>. QED
  BY <1>2, <1>3 DEF FailuresInv

\* Closing the other rows leaves their number, kinds and acknowledgements as they are.
LEMMA ClosedOthers ==
  ASSUME rows \in Seq(Row), NEW i \in Nat, CloseOthers(i)
  PROVE  /\ rows' \in Seq(Row) /\ DOMAIN rows' = DOMAIN rows
         /\ \A j \in DOMAIN rows : rows'[j].kind = rows[j].kind /\ rows'[j].ack = rows[j].ack
         /\ OpenFailures' = OpenFailures \cap {i}
<1>1. DOMAIN rows = 1..Len(rows) /\ Len(rows) \in Nat /\ \A j \in DOMAIN rows : rows[j] \in Row
  OBVIOUS
<1>2. DOMAIN rows' = DOMAIN rows
  BY DEF CloseOthers
<1>3. ASSUME NEW j \in DOMAIN rows
      PROVE  /\ rows'[j] \in Row /\ rows'[j].open = (rows[j].open /\ j = i)
             /\ rows'[j].kind = rows[j].kind /\ rows'[j].ack = rows[j].ack
  <2>1. rows'[j] = [rows[j] EXCEPT !.open = @ /\ j = i]
    BY DEF CloseOthers
  <2>. QED
    BY <1>1, <2>1 DEF Row
<1>4. rows' \in Seq(Row)
  <2>1. rows' = [j \in 1..Len(rows) |-> rows'[j]]
    BY <1>1 DEF CloseOthers
  <2>. QED
    BY <1>1, <1>3, <2>1
<1>5. OpenFailures' = OpenFailures \cap {i}
  BY <1>2, <1>3 DEF OpenFailures
<1>. QED
  BY <1>2, <1>3, <1>4, <1>5

\* Whoever is under way goes on.
LEMMA GoOn ==
  ASSUME FailuresInv, NEW v \in Visits, at[v] \notin {"idle", "done"},
         NEW p \in Points \ {"idle", "done"}, Move(v, p),
         UNCHANGED <<got, alone, settled, crashes>>,
         kept' \in [Actors -> Nat], \A w \in Visits \ {v} : kept'[w] = kept[w],
         rows' \in Seq(Row), DOMAIN rows' = DOMAIN rows,
         \A j \in DOMAIN rows : rows'[j].kind = rows[j].kind /\ rows'[j].ack = rows[j].ack,
         p \in Recording => got[v] \in Kinds,
         p \in {"others", "save"} => kept'[v] \in DOMAIN rows,
         v \in alone /\ p = "create" => OpenFailures' = {},
         v \in alone /\ p = "others" => kept'[v] \in OpenFailures',
         v \in alone /\ p = "save" => OpenFailures' = {kept'[v]}
  PROVE  FailuresInv'
<1>. USE DEF FailuresInv
<1>1. Typed'
  BY DEF Typed, Move
<1>2. \A w \in Actors : at'[w] = IF w = v THEN p ELSE at[w]
  BY DEF Typed, Move, Actors
<1>3. InHand'
  BY <1>2 DEF InHand, Actors
<1>4. Busy' = Busy /\ v \in Busy
  BY <1>2 DEF Busy, Actors
<1>5. \A o \in alone : o = v /\ v \in Visits
  BY <1>4 DEF AloneSees
<1>6. AloneSees'
  <2>1. Cleaner \notin alone
    BY <1>5, CrawlFailuresAssumption
  <2>2. \A o \in alone' : Busy' = {o}
    BY <1>4 DEF AloneSees
  <2>3. at'[v] = p
    BY <1>2 DEF Actors
  <2>. QED
    BY <1>5, <2>1, <2>2, <2>3 DEF AloneSees
<1>7. AcknowledgedIsGone'
  BY DEF AcknowledgedIsGone
<1>8. SettledOutcome'
  BY <1>4 DEF SettledOutcome
<1>. QED
  BY <1>1, <1>3, <1>6, <1>7, <1>8

\* Whoever is under way ends, with the outcome it claims or with none.
LEMMA Ends ==
  ASSUME FailuresInv, NEW o \in Actors, at[o] \notin {"idle", "done"}, Move(o, "done"),
         alone' = alone \ {o}, UNCHANGED <<got, kept>>, crashes' \in 0..MaxCrashes,
         rows' \in Seq(Row), DOMAIN rows \subseteq DOMAIN rows', AcknowledgedIsGone',
         settled' \in Kinds \cup {"ok", "unknown"},
         settled' # "unknown" =>
             IF settled' = "ok" THEN OpenFailures' = {}
             ELSE \E i \in DOMAIN rows' : OpenFailures' = {i} /\ rows'[i].kind = settled'
  PROVE  FailuresInv'
<1>. USE DEF FailuresInv
<1>1. Typed'
  BY DEF Typed, Move, Points
<1>2. InHand'
  BY DEF InHand, Typed, Move, Recording, Actors
<1>3. alone' = {}
  BY DEF AloneSees, Busy
<1>4. AloneSees'
  BY <1>3 DEF AloneSees
<1>5. SettledOutcome'
  BY DEF SettledOutcome
<1>. QED
  BY <1>1, <1>2, <1>4, <1>5

\* Somebody starts: alone if nobody else is under way.
LEMMA Starts ==
  ASSUME FailuresInv, NEW o \in Actors, at[o] = "idle",
         NEW p \in {"resolve", "read", "older"}, Move(o, p), Begin(o),
         UNCHANGED <<rows, settled, crashes>>,
         got' \in [Visits -> Kinds \cup {"ok"}], \A w \in Visits \ {o} : got'[w] = got[w],
         p = "read" => o \in Visits /\ got'[o] \in Kinds,
         kept' \in [Actors -> Nat], \A w \in Visits \ {o} : kept'[w] = kept[w],
         o = Cleaner /\ Busy = {} => settled = "unknown"
  PROVE  FailuresInv'
<1>. USE DEF FailuresInv
<1>1. Typed'
  BY DEF Typed, Move, Points, Begin, Actors
<1>2. \A w \in Actors : at'[w] = IF w = o THEN p ELSE at[w]
  BY DEF Typed, Move
<1>3. InHand'
  BY <1>2 DEF InHand, Recording, Actors
<1>4. Busy' = Busy \cup {o}
  BY <1>2 DEF Busy
<1>5. AloneSees'
  <2>1. \A w \in alone' : w = o /\ Busy = {}
    BY DEF Begin
  <2>2. \A w \in alone' : Busy' = {w}
    BY <1>4, <2>1
  <2>3. at'[o] = p
    BY <1>2
  <2>. QED
    BY <2>1, <2>2, <2>3 DEF AloneSees
<1>6. AcknowledgedIsGone' /\ SettledOutcome'
  BY <1>4 DEF AcknowledgedIsGone, SettledOutcome
<1>. QED
  BY <1>1, <1>3, <1>5, <1>6

\* What ReadLast has read is a row that exists.
LEMMA OpenExist == OpenFailures \subseteq DOMAIN rows
  BY DEF OpenFailures

LEMMA VisitActions ==
  ASSUME FailuresInv, NEW v \in Visits,
         Visit(v) \/ ReadLast(v) \/ ResolveOthers(v) \/ Crash(v)
  PROVE  FailuresInv'
<1>. USE DEF FailuresInv
<1>0. /\ v \in Actors /\ v # Cleaner /\ rows \in Seq(Row) /\ kept \in [Actors -> Nat]
      /\ at[v] \in Recording => got[v] \in Kinds
      /\ at[v] \in {"others", "save"} => kept[v] \in DOMAIN rows
      /\ crashes \in 0..MaxCrashes
      /\ \A j \in DOMAIN rows : j \in Nat /\ rows[j] \in Row
  BY CrawlFailuresAssumption DEF Actors, Typed, InHand
<1>1. CASE Visit(v)
  <2>1. PICK k \in Kinds \cup {"ok"} :
            got' = [got EXCEPT ![v] = k] /\ Move(v, IF k = "ok" THEN "resolve" ELSE "read")
    BY <1>1 DEF Visit
  <2>2. /\ got' \in [Visits -> Kinds \cup {"ok"}] /\ got'[v] = k
        /\ \A w \in Visits \ {v} : got'[w] = got[w]
    BY <2>1 DEF Typed
  <2>3. "ok" \notin Kinds
    BY DEF Kinds, Gone
  <2>4. CASE k = "ok"
    BY <1>0, <1>1, <2>1, <2>2, <2>4, Starts DEF Visit
  <2>5. CASE k # "ok"
    BY <1>0, <1>1, <2>1, <2>2, <2>5, Starts DEF Visit
  <2>. QED
    BY <2>4, <2>5
<1>2. CASE ReadLast(v)
  <2>1. at[v] = "read" /\ UNCHANGED <<rows, recent, got, alone, settled, crashes>> /\ OpenFailures' = OpenFailures
    BY <1>2 DEF ReadLast, OpenFailures
  <2>2. CASE OpenFailures = {}
    <3>1. Move(v, "create") /\ kept' = kept
      BY <1>2, <2>2 DEF ReadLast
    <3>. QED
      BY <1>0, <2>1, <2>2, <3>1, GoOn DEF Points, Recording
  <2>3. CASE OpenFailures # {}
    <3>1. PICK i \in OpenFailures : kept' = [kept EXCEPT ![v] = i] /\ Move(v, "others")
      BY <1>2, <2>3 DEF ReadLast
    <3>2. /\ i \in DOMAIN rows /\ kept' \in [Actors -> Nat] /\ kept'[v] = i
          /\ \A w \in Visits \ {v} : kept'[w] = kept[w]
      BY <1>0, <3>1, OpenExist DEF Actors
    <3>. QED
      BY <1>0, <2>1, <3>1, <3>2, GoOn DEF Points, Recording
  <2>. QED
    BY <2>2, <2>3
<1>3. CASE ResolveOthers(v)
  <2>1. /\ at[v] = "others" /\ CloseOthers(kept[v]) /\ Move(v, "save")
        /\ UNCHANGED <<recent, got, kept, alone, settled, crashes>>
    BY <1>3 DEF ResolveOthers
  <2>2. /\ rows' \in Seq(Row) /\ DOMAIN rows' = DOMAIN rows /\ OpenFailures' = OpenFailures \cap {kept[v]}
        /\ \A j \in DOMAIN rows : rows'[j].kind = rows[j].kind /\ rows'[j].ack = rows[j].ack
    BY <1>0, <2>1, ClosedOthers
  <2>3. v \in alone => OpenFailures' = {kept'[v]}
    BY <2>1, <2>2 DEF AloneSees
  <2>. QED
    BY <1>0, <2>1, <2>2, <2>3, GoOn DEF Points, Recording
<1>4. CASE Crash(v)
  <2>1. /\ at[v] \notin {"idle", "done"} /\ Move(v, "done") /\ alone' = alone \ {v}
        /\ settled' = "unknown" /\ UNCHANGED <<rows, recent, got, kept>>
        /\ crashes' \in 0..MaxCrashes
    BY <1>0, <1>4, CrawlFailuresAssumption DEF Crash
  <2>2. AcknowledgedIsGone'
    BY <2>1 DEF AcknowledgedIsGone
  <2>. QED
    BY <1>0, <2>1, <2>2, Ends
<1>. QED
  BY <1>1, <1>2, <1>3, <1>4

\* A visit ends with a write: of a new row, of the row it keeps, or of all of them.
LEMMA VisitWrites ==
  ASSUME FailuresInv, NEW v \in Visits, Create(v) \/ Save(v) \/ MarkResolved(v)
  PROVE  FailuresInv'
<1>. USE DEF FailuresInv
<1>0. /\ v \in Actors /\ rows \in Seq(Row) /\ kept \in [Actors -> Nat]
      /\ at[v] \in Recording => got[v] \in Kinds
      /\ at[v] \in {"others", "save"} => kept[v] \in DOMAIN rows
      /\ crashes \in 0..MaxCrashes
  BY DEF Actors, Typed, InHand
<1>00. "ok" \notin Kinds /\ "unknown" \notin Kinds /\ "none" \notin Gone
  BY DEF Kinds, Gone
<1>1. CASE Create(v)
  <2>. DEFINE new == [open |-> TRUE, kind |-> got[v], ack |-> "none"]
              n == Len(rows) + 1
  <2>1. /\ at[v] = "create" /\ rows' = Append(rows, new) /\ End(v, got[v])
        /\ UNCHANGED <<got, kept, crashes>> /\ got[v] \in Kinds
    BY <1>0, <1>1 DEF Create, Recording
  <2>2. new \in Row
    BY <2>1 DEF Row
  <2>3. /\ rows' \in Seq(Row) /\ DOMAIN rows' = DOMAIN rows \cup {n} /\ rows'[n] = new
        /\ \A j \in DOMAIN rows : rows'[j] = rows[j]
    BY <1>0, <2>1, <2>2
  <2>4. AcknowledgedIsGone'
    BY <2>3 DEF AcknowledgedIsGone
  <2>5. v \in alone => OpenFailures' = {n} /\ rows'[n].kind = got[v]
    <3>1. v \in alone => OpenFailures = {}
      BY <2>1 DEF AloneSees
    <3>. QED
      BY <2>3, <3>1 DEF OpenFailures
  <2>6. /\ settled' = (IF v \in alone THEN got[v] ELSE "unknown") /\ Move(v, "done")
        /\ alone' = alone \ {v} /\ n \in DOMAIN rows'
    BY <2>1, <2>3 DEF End
  <2>. HIDE DEF new, n
  <2>. QED
    BY <1>0, <1>00, <2>1, <2>3, <2>4, <2>5, <2>6, Ends
<1>2. CASE Save(v)
  <2>1. /\ at[v] = "save" /\ End(v, got[v]) /\ UNCHANGED <<got, kept, crashes>>
        /\ got[v] \in Kinds /\ kept[v] \in DOMAIN rows
        /\ rows' = [rows EXCEPT ![kept[v]].kind = got[v], ![kept[v]].ack = "none"]
    BY <1>0, <1>2 DEF Save, Recording
  <2>2. ASSUME NEW j \in DOMAIN rows
        PROVE  /\ rows'[j] \in Row /\ rows'[j].open = rows[j].open
               /\ j = kept[v] => rows'[j].kind = got[v] /\ rows'[j].ack = "none"
               /\ j # kept[v] => rows'[j] = rows[j]
    <3>1. rows[j] \in Row
      BY <1>0
    <3>2. CASE j = kept[v]
      <4>1. rows'[j] = [rows[j] EXCEPT !.kind = got[v], !.ack = "none"]
        BY <2>1, <3>2
      <4>. QED
        BY <2>1, <3>1, <3>2, <4>1 DEF Row
    <3>3. CASE j # kept[v]
      BY <2>1, <3>1, <3>3
    <3>. QED
      BY <3>2, <3>3
  <2>3. DOMAIN rows' = DOMAIN rows /\ rows' \in Seq(Row)
    <3>1. DOMAIN rows' = 1..Len(rows) /\ Len(rows) \in Nat /\ DOMAIN rows = 1..Len(rows)
      BY <1>0, <2>1
    <3>2. rows' = [j \in 1..Len(rows) |-> rows'[j]]
      BY <2>1, <3>1
    <3>. QED
      BY <2>2, <3>1, <3>2
  <2>4. AcknowledgedIsGone'
    BY <2>2, <2>3 DEF AcknowledgedIsGone
  <2>5. OpenFailures' = OpenFailures
    BY <2>2, <2>3 DEF OpenFailures
  <2>6. v \in alone => OpenFailures' = {kept[v]} /\ rows'[kept[v]].kind = got[v]
    BY <2>1, <2>2, <2>5 DEF AloneSees
  <2>7. /\ settled' = (IF v \in alone THEN got[v] ELSE "unknown") /\ Move(v, "done")
        /\ alone' = alone \ {v}
    BY <2>1 DEF End
  <2>. QED
    BY <1>0, <1>00, <2>1, <2>3, <2>4, <2>6, <2>7, Ends
<1>3. CASE MarkResolved(v)
  <2>1. CloseOthers(0) /\ at[v] \in {"resolve", "again"} /\ UNCHANGED <<got, kept, crashes>>
    BY <1>3 DEF MarkResolved
  <2>2. /\ rows' \in Seq(Row) /\ DOMAIN rows' = DOMAIN rows /\ OpenFailures' = OpenFailures \cap {0}
        /\ \A j \in DOMAIN rows : rows'[j].kind = rows[j].kind /\ rows'[j].ack = rows[j].ack
    BY <1>0, <2>1, ClosedOthers
  <2>3. OpenFailures' = {}
    <3>1. 0 \notin OpenFailures
      BY <1>0, OpenExist
    <3>. QED
      BY <2>2, <3>1
  <2>4. CASE Move(v, "again") /\ UNCHANGED <<alone, settled>>
    BY <1>0, <2>1, <2>2, <2>4, GoOn DEF Points, Recording
  <2>5. CASE End(v, "ok")
    <3>1. AcknowledgedIsGone'
      BY <2>2 DEF AcknowledgedIsGone
    <3>2. /\ settled' = (IF v \in alone THEN "ok" ELSE "unknown") /\ Move(v, "done")
          /\ alone' = alone \ {v}
      BY <2>5 DEF End
    <3>. QED
      BY <1>0, <2>1, <2>2, <2>3, <3>1, <3>2, Ends
  <2>. QED
    BY <1>3, <2>4, <2>5 DEF MarkResolved
<1>. QED
  BY <1>1, <1>2, <1>3

\* The cleanup starts only where an uncrossed visit has not ended: two rows are open.
LEMMA CleanupActions ==
  ASSUME FailuresInv, Cleanup \/ ResolveOlder
  PROVE  FailuresInv'
<1>. USE DEF FailuresInv
<1>0. /\ Cleaner \in Actors /\ Cleaner \notin Visits /\ rows \in Seq(Row)
      /\ kept \in [Actors -> Nat] /\ got \in [Visits -> Kinds \cup {"ok"}]
      /\ crashes \in 0..MaxCrashes /\ settled \in Kinds \cup {"ok", "unknown"}
      /\ \A j \in DOMAIN rows : j \in Nat
  BY CrawlFailuresAssumption DEF Actors, Typed
<1>1. CASE Cleanup
  <2>1. PICK i \in OpenFailures : kept' = [kept EXCEPT ![Cleaner] = i]
    BY <1>1 DEF Cleanup
  <2>2. kept' \in [Actors -> Nat] /\ \A w \in Visits : kept'[w] = kept[w]
    BY <1>0, <2>1, OpenExist DEF Actors
  <2>3. Busy = {} => settled = "unknown"
    <3>1. ~(OpenFailures = {}) /\ \A i2 : OpenFailures # {i2}
      BY <1>1 DEF Cleanup
    <3>. QED
      BY <3>1 DEF SettledOutcome
  <2>. QED
    BY <1>0, <1>1, <2>2, <2>3, Starts DEF Cleanup
<1>2. CASE ResolveOlder
  <2>1. /\ at[Cleaner] = "older" /\ CloseOthers(kept[Cleaner]) /\ kept[Cleaner] \in Nat
        /\ UNCHANGED <<got, kept, crashes>>
    BY <1>0, <1>2 DEF ResolveOlder
  <2>2. /\ rows' \in Seq(Row) /\ DOMAIN rows' = DOMAIN rows
        /\ \A j \in DOMAIN rows : rows'[j].kind = rows[j].kind /\ rows'[j].ack = rows[j].ack
    BY <1>0, <2>1, ClosedOthers
  <2>3. AcknowledgedIsGone'
    BY <2>2 DEF AcknowledgedIsGone
  <2>4. settled' = "unknown" /\ Move(Cleaner, "done") /\ alone' = alone \ {Cleaner}
    BY <1>2 DEF ResolveOlder, End, AloneSees
  <2>. QED
    BY <1>0, <2>1, <2>2, <2>3, <2>4, Ends
<1>. QED
  BY <1>1, <1>2

LEMMA AcknowledgeStep ==
  ASSUME FailuresInv, NEW i \in DOMAIN rows, Acknowledge(i)
  PROVE  FailuresInv'
<1>. USE DEF FailuresInv
<1>0. rows \in Seq(Row) /\ rows[i].kind \in Gone /\ UNCHANGED <<at, got, kept, alone, settled, crashes>>
  BY DEF Typed, Acknowledge
<1>1. ASSUME NEW j \in DOMAIN rows
      PROVE  /\ rows'[j] \in Row /\ rows'[j].open = rows[j].open /\ rows'[j].kind = rows[j].kind
             /\ rows'[j].ack = IF j = i THEN rows[i].kind ELSE rows[j].ack
  <2>1. rows[j] \in Row
    BY <1>0
  <2>2. rows'[j] = IF j = i THEN [rows[j] EXCEPT !.ack = rows[i].kind] ELSE rows[j]
    BY DEF Acknowledge
  <2>. QED
    BY <1>0, <2>1, <2>2 DEF Row
<1>2. DOMAIN rows' = DOMAIN rows /\ rows' \in Seq(Row)
  <2>1. DOMAIN rows' = 1..Len(rows) /\ Len(rows) \in Nat /\ DOMAIN rows = 1..Len(rows)
    BY <1>0 DEF Acknowledge
  <2>2. rows' = [j \in 1..Len(rows) |-> rows'[j]]
    BY <2>1 DEF Acknowledge
  <2>. QED
    BY <1>1, <2>1, <2>2
<1>3. OpenFailures' = OpenFailures /\ Busy' = Busy
  BY <1>0, <1>1, <1>2 DEF OpenFailures, Busy
<1>4. Typed' /\ InHand'
  BY <1>0, <1>2 DEF Typed, InHand
<1>5. AloneSees' /\ SettledOutcome'
  BY <1>0, <1>1, <1>2, <1>3 DEF AloneSees, SettledOutcome
<1>6. AcknowledgedIsGone'
  BY <1>0, <1>1, <1>2 DEF AcknowledgedIsGone
<1>. QED
  BY <1>4, <1>5, <1>6

\* A listing page was fetched: nothing is written and nobody is crossed.
LEMMA ListPageStep ==
  ASSUME FailuresInv, NEW v \in Visits, ListPage(v)
  PROVE  FailuresInv'
<1>. USE DEF FailuresInv
<1>0. /\ UNCHANGED <<rows, recent, got, kept, alone, settled, crashes>> /\ at[v] = "idle"
      /\ at \in [Actors -> Points] /\ v \in Actors
  BY DEF ListPage, Typed, Actors
<1>1. \A o \in Actors : at'[o] = IF o = v THEN "done" ELSE at[o]
  BY <1>0 DEF ListPage, Move
<1>2. Typed'
  BY <1>0 DEF ListPage, Move, Typed, Points
<1>3. Busy' = Busy /\ OpenFailures' = OpenFailures
  BY <1>0, <1>1 DEF Busy, OpenFailures
<1>4. InHand'
  BY <1>0, <1>1 DEF InHand, Recording, Actors
<1>5. AloneSees'
  <2>1. \A w \in Visits : at'[w] \in {"create", "others", "save"} => at'[w] = at[w]
    BY <1>0, <1>1 DEF Actors
  <2>. QED
    BY <1>0, <1>3, <2>1 DEF AloneSees
<1>6. AcknowledgedIsGone' /\ SettledOutcome'
  BY <1>0, <1>3 DEF AcknowledgedIsGone, SettledOutcome
<1>. QED
  BY <1>2, <1>4, <1>5, <1>6

LEMMA FailuresStep ==
  ASSUME FailuresInv, [FailuresNext]_failureVars
  PROVE  FailuresInv'
<1>1. CASE UNCHANGED failureVars
  BY <1>1 DEF failureVars, FailuresInv, Typed, InHand, AloneSees, AcknowledgedIsGone, SettledOutcome,
              Busy, OpenFailures
<1>. QED
  BY <1>1, VisitActions, VisitWrites, ListPageStep, CleanupActions, AcknowledgeStep
  DEF FailuresNext, Record

\* What an uncrossed visit has read of the rows stays true until it writes.
THEOREM FailuresInvariant == FailuresSpec => []FailuresInv
  BY FailuresBegin, FailuresStep, PTL DEF FailuresSpec

\* The check constraint of the acknowledgements holds, whatever is saved over a row.
THEOREM AcknowledgementsHold == FailuresSpec => []AcknowledgedIsGone
  BY FailuresInvariant, PTL DEF FailuresInv

\* After an uncrossed visit that records or resolves the open rows are what it found.
THEOREM OutcomesSettle == FailuresSpec => []SettledOutcome
  BY FailuresInvariant, PTL DEF FailuresInv
================================================================================
