--------------------------- MODULE EventStreamProofs ---------------------------
(***************************************************************************)
(* For any page size, any number of events, broken connections, failed     *)
(* requests and cancellations the page handles every event once and in     *)
(* order, and does not announce an end that is not one, but for a failed   *)
(* dispatch that is retried.                                               *)
(*                                                                         *)
(* The first rests on where ids are: handled, on the wire, read by the     *)
(* handler, in the log - each part goes on where the one before it ends.   *)
(* The second on what the worker can still change at each of its points.   *)
(***************************************************************************)
EXTENDS EventStream, SequenceTheorems, TLAPS

\* The next k ids after n.
Following(n, k) == [i \in 1..k |-> n + i]

IdsInOrder ==
    /\ handled = Number(lastId)
    /\ handler \in {"events", "status"} => source = "open"
    /\ handler # "status" => page = <<>>
    /\ source = "open" => cursor = lastId + Len(wire) /\ wire = Following(lastId, Len(wire))
    /\ page = Following(cursor, Len(page)) /\ cursor + Len(page) <= Len(log)

Failing == {"failed", "cancelled"}

\* What a status can be at each point of the worker.
WorkerAt ==
    /\ worker = "idle" => status \in {"queued", "cancelled", "failed"}
    /\ worker = "executing" => status \in {"working", "cancelling"}
    /\ worker \in {"saved", "completed"} => status \in {"succeeded", "failed"}
    /\ worker = "recovered" => status = "failed"
    /\ worker = "lost" => status # "queued"
    /\ dispatchFailed => status = "failed" /\ worker \in {"idle", "done"}

\* A page that is told s is told the truth.
Told(s) == s \in Failing => status = s \/ (s = "failed" /\ misled)

\* Whoever tells that the run has failed or is cancelled tells the truth; a dispatch that
\* failed has left no event.
Truthful ==
    /\ \A i \in 1..Len(log) :
           /\ log[i] = "run.failed" => status = "failed" /\ ~dispatchFailed
           /\ log[i] = "run.cancelled" => status = "cancelled"
    /\ \A s \in {shown, sync, cancel} : Told(s)

ClosedAtEnd == shown \in Terminal => source = "closed"

StreamInv == TypeOK /\ IdsInOrder /\ WorkerAt /\ Truthful /\ ClosedAtEnd

--------------------------------------------------------------------------------
(***************************************************************************)
(* Ids in order.                                                           *)
(***************************************************************************)
LEMMA FollowingType ==
  ASSUME NEW n \in Nat, NEW k \in Nat
  PROVE  /\ Following(n, k) \in Seq(Nat) /\ Len(Following(n, k)) = k
         /\ \A i \in 1..k : Following(n, k)[i] = n + i
         /\ \A m \in Nat : n + k <= m => Following(n, k) \in Seq(1..m)
  BY DEF Following

LEMMA NumberIsFollowing == \A n : Number(n) = Following(0, n)
<1>1. ASSUME NEW n PROVE \A i \in 1..n : 0 + i = i
  OBVIOUS
<1>. QED
  BY <1>1 DEF Number, Following

LEMMA Joined ==
  ASSUME NEW n \in Nat, NEW k \in Nat, NEW j \in Nat
  PROVE  Following(n, k) \o Following(n + k, j) = Following(n, k + j)
<1>. DEFINE s == Following(n, k)
            t == Following(n + k, j)
            u == Following(n, k + j)
<1>1. /\ s \in Seq(Nat) /\ Len(s) = k /\ \A i \in 1..k : s[i] = n + i
      /\ t \in Seq(Nat) /\ Len(t) = j /\ \A i \in 1..j : t[i] = n + k + i
      /\ u \in Seq(Nat) /\ Len(u) = k + j /\ \A i \in 1..(k + j) : u[i] = n + i
  <2>1. n + k \in Nat /\ k + j \in Nat
    OBVIOUS
  <2>. QED
    BY <2>1, FollowingType
<1>. HIDE DEF s, t, u
<1>2. /\ s \o t \in Seq(Nat) /\ Len(s \o t) = k + j
      /\ \A i \in 1..(k + j) : (s \o t)[i] = IF i <= k THEN s[i] ELSE t[i - k]
  BY <1>1, ConcatProperties
<1>3. ASSUME NEW i \in 1..(k + j) PROVE (s \o t)[i] = u[i]
  <2>0. u[i] = n + i
    BY <1>1
  <2>1. CASE i <= k
    <3>1. i \in 1..k
      BY <2>1
    <3>2. (s \o t)[i] = s[i]
      BY <1>2, <2>1
    <3>. QED
      BY <1>1, <2>0, <3>1, <3>2
  <2>2. CASE ~(i <= k)
    <3>1. i - k \in 1..j /\ n + k + (i - k) = n + i
      BY <2>2
    <3>2. t[i - k] = n + i
      BY <1>1, <3>1
    <3>3. (s \o t)[i] = t[i - k]
      BY <1>2, <2>2
    <3>. QED
      BY <2>0, <3>2, <3>3
  <2>. QED
    BY <2>1, <2>2
<1>4. s \o t = u
  BY <1>1, <1>2, <1>3, SeqEqual
<1>. QED
  BY <1>4 DEF s, t, u

LEMMA First ==
  ASSUME NEW n \in Nat, NEW k \in Nat \ {0}
  PROVE  /\ Head(Following(n, k)) = n + 1
         /\ Tail(Following(n, k)) = Following(n + 1, k - 1)
<1>. DEFINE s == Following(n, k)
            u == Following(n + 1, k - 1)
<1>1. /\ s \in Seq(Nat) /\ Len(s) = k /\ \A i \in 1..k : s[i] = n + i
      /\ u \in Seq(Nat) /\ Len(u) = k - 1 /\ \A i \in 1..(k - 1) : u[i] = n + 1 + i
  <2>1. n + 1 \in Nat /\ k - 1 \in Nat /\ k \in Nat
    OBVIOUS
  <2>. QED
    BY <2>1, FollowingType
<1>. HIDE DEF s, u
<1>2. Head(s) = n + 1 /\ Tail(s) \in Seq(Nat) /\ Len(Tail(s)) = k - 1
  BY <1>1
<1>3. \A i \in 1..(k - 1) : Tail(s)[i] = u[i]
  BY <1>1
<1>4. Tail(s) = u
  BY <1>1, <1>2, <1>3, SeqEqual
<1>. QED
  BY <1>2, <1>4 DEF s, u

LEMMA Numbered ==
  ASSUME NEW n \in Nat
  PROVE  Append(Number(n), n + 1) = Number(n + 1)
<1>. DEFINE s == Number(n)
            u == Number(n + 1)
<1>1. /\ s \in Seq(Nat) /\ Len(s) = n /\ \A i \in 1..n : s[i] = i
      /\ u \in Seq(Nat) /\ Len(u) = n + 1 /\ \A i \in 1..(n + 1) : u[i] = i
  BY FollowingType, NumberIsFollowing DEF Number
<1>. HIDE DEF s, u
<1>2. Append(s, n + 1) \in Seq(Nat) /\ Len(Append(s, n + 1)) = n + 1
  BY <1>1
<1>3. \A i \in 1..(n + 1) : Append(s, n + 1)[i] = u[i]
  BY <1>1
<1>4. Append(s, n + 1) = u
  BY <1>1, <1>2, <1>3, SeqEqual
<1>. QED
  BY <1>4 DEF s, u

\* What a poll reads after c of l events, m being the last it reads.
LEMMA Polled ==
  ASSUME NEW l \in Nat, NEW c \in 0..l, NEW m \in c..l
  PROVE  SubSeq(Number(l), c + 1, m) = Following(c, m - c)
<1>. DEFINE s == Number(l)
            u == Following(c, m - c)
<1>1. /\ s \in Seq(Nat) /\ Len(s) = l /\ \A i \in 1..l : s[i] = i
      /\ u \in Seq(Nat) /\ Len(u) = m - c /\ \A i \in 1..(m - c) : u[i] = c + i
  BY FollowingType, NumberIsFollowing DEF Number
<1>. HIDE DEF s, u
<1>2. /\ SubSeq(s, c + 1, m) \in Seq(Nat) /\ Len(SubSeq(s, c + 1, m)) = m - c
      /\ \A i \in 1..(m - c) : SubSeq(s, c + 1, m)[i] = s[c + i]
  BY <1>1
<1>3. \A i \in 1..(m - c) : SubSeq(s, c + 1, m)[i] = u[i]
  BY <1>1, <1>2
<1>4. SubSeq(s, c + 1, m) = u
  BY <1>1, <1>2, <1>3, SeqEqual
<1>. QED
  BY <1>4 DEF s, u

LEMMA NoneFollowing == \A n \in Nat : Following(n, 0) = <<>>
<1>1. ASSUME NEW n \in Nat PROVE Following(n, 0) = <<>>
  BY FollowingType, EmptySeq
<1>. QED
  BY <1>1

LEMMA Widened ==
  ASSUME NEW n \in Nat, NEW m \in Nat, n <= m, NEW s \in Seq(1..n)
  PROVE  s \in Seq(1..m)
  OBVIOUS

--------------------------------------------------------------------------------
(***************************************************************************)
(* The invariant, by the parts that a step leaves alone.                   *)
(***************************************************************************)
RunTyped ==
    /\ status \in Statuses /\ log \in Seq(EventTypes)
    /\ worker \in {"idle", "executing", "saved", "completed", "recovered", "lost", "done"}
    /\ dispatchFailed \in BOOLEAN /\ misled \in BOOLEAN

StreamTyped ==
    /\ handler \in {"none", "events", "status", "ended"}
    /\ cursor \in 0..Len(log) /\ lastId \in 0..Len(log)
    /\ page \in Seq(1..Len(log)) /\ wire \in Seq(1..Len(log)) /\ handled \in Seq(1..Len(log))
    /\ source \in {"connecting", "open", "closed", "dead"}

SyncTyped ==
    /\ shown \in Statuses /\ sync \in {"idle", "asked"} \cup Statuses
    /\ again \in BOOLEAN /\ throttled \in BOOLEAN
    /\ cancel \in {"idle", "asked", "committed"} \cup Statuses

BoundsTyped == faults \in 0..MaxFaults /\ refused \in 0..MaxRefused /\ cancels \in 0..MaxCancels

LEMMA Typing == TypeOK <=> RunTyped /\ StreamTyped /\ SyncTyped /\ BoundsTyped
  BY DEF TypeOK, RunTyped, StreamTyped, SyncTyped, BoundsTyped

LEMMA TypingNext == TypeOK' <=> RunTyped' /\ StreamTyped' /\ SyncTyped' /\ BoundsTyped'
  BY DEF TypeOK, RunTyped, StreamTyped, SyncTyped, BoundsTyped

LEMMA BoundsAre == MaxFaults \in Nat /\ MaxRefused \in Nat /\ MaxCancels \in Nat
  BY EventStreamAssumption

LEMMA StatusNames == /\ Failing \subseteq Terminal /\ Terminal \subseteq Statuses
                     /\ {"queued", "working", "cancelling", "idle", "asked", "committed"} \cap Terminal = {}
                     /\ {"idle", "asked", "committed"} \cap Statuses = {}
  BY DEF Failing, Terminal, Statuses

LEMMA StreamInit == Init => StreamInv
<1>. SUFFICES ASSUME Init PROVE StreamInv
  OBVIOUS
<1>. USE DEF Init
<1>1. log \in Seq(EventTypes) /\ Len(log) = 1 /\ log[1] = "run.created"
  BY DEF EventTypes
<1>2. RunTyped /\ SyncTyped /\ BoundsTyped
  <2>1. RunTyped
    BY <1>1 DEF RunTyped, Statuses
  <2>2. SyncTyped
    BY DEF SyncTyped, Statuses
  <2>3. BoundsTyped
    BY BoundsAre DEF BoundsTyped
  <2>. QED
    BY <2>1, <2>2, <2>3
<1>3. StreamTyped
  BY <1>1 DEF StreamTyped
<1>4. IdsInOrder
  <2>1. Number(0) = <<>> /\ Following(0, 0) = <<>> /\ Len(<<>>) = 0
    BY NumberIsFollowing, NoneFollowing
  <2>. QED
    BY <1>1, <2>1 DEF IdsInOrder
<1>5. WorkerAt /\ Truthful /\ ClosedAtEnd
  BY <1>1 DEF WorkerAt, Truthful, Told, ClosedAtEnd, Failing, Terminal
<1>. QED
  BY <1>2, <1>3, <1>4, <1>5, Typing DEF StreamInv

\* The run goes on: its log only grows, and an end that was told stays, or the page was
\* misled by it.
LEMMA RunStep ==
  ASSUME StreamInv, UNCHANGED <<streamVars, shown, syncVars>>,
         cancel' \in {cancel, "committed"}, BoundsTyped', RunTyped', WorkerAt',
         status \in Failing /\ ~dispatchFailed => UNCHANGED <<status, dispatchFailed>>,
         status = "failed" => status' = "failed" \/ misled' \/ "failed" \notin {shown, sync, cancel},
         misled => misled',
         \/ log' = log
         \/ \E e \in EventTypes : /\ log' = Append(log, e)
                                  /\ e = "run.failed" => status' = "failed" /\ ~dispatchFailed'
                                  /\ e = "run.cancelled" => status' = "cancelled"
  PROVE  StreamInv'
<1>. USE DEF StreamInv
<1>1. log \in Seq(EventTypes) /\ Len(log) \in Nat
  BY DEF TypeOK
<1>2. /\ Len(log) <= Len(log)' /\ Len(log)' \in Nat
      /\ \A i \in 1..Len(log)' : /\ log'[i] = "run.failed" => status' = "failed" /\ ~dispatchFailed'
                                 /\ log'[i] = "run.cancelled" => status' = "cancelled"
  <2>1. CASE log' = log
    BY <1>1, <2>1 DEF Truthful, WorkerAt, Failing
  <2>2. CASE log' # log
    <3>1. PICK e \in EventTypes : /\ log' = Append(log, e)
                                  /\ e = "run.failed" => status' = "failed" /\ ~dispatchFailed'
                                  /\ e = "run.cancelled" => status' = "cancelled"
      BY <2>2
    <3>2. /\ Len(log)' = Len(log) + 1 /\ log'[Len(log) + 1] = e
          /\ \A i \in 1..Len(log) : log'[i] = log[i]
      BY <1>1, <3>1
    <3>. QED
      BY <1>1, <3>1, <3>2 DEF Truthful, WorkerAt, Failing
  <2>. QED
    BY <2>1, <2>2
<1>3. StreamTyped'
  BY <1>1, <1>2, Typing, Widened DEF StreamTyped, streamVars
<1>4. SyncTyped'
  BY Typing DEF SyncTyped, syncVars
<1>5. IdsInOrder'
  BY <1>1, <1>2, Typing DEF IdsInOrder, streamVars, StreamTyped
<1>6. Truthful' /\ ClosedAtEnd'
  <2>1. ASSUME NEW t \in {shown', sync', cancel'} PROVE Told(t)'
    <3>1. t \in {shown, sync, cancel} \/ t = "committed"
      BY DEF syncVars
    <3>2. CASE t = "committed"
      BY <3>2 DEF Told, Failing
    <3>3. CASE t \in {shown, sync, cancel}
      BY <3>3 DEF Truthful, Told, WorkerAt, Failing
    <3>. QED
      BY <3>1, <3>2, <3>3
  <2>. QED
    BY <1>2, <2>1 DEF Truthful, ClosedAtEnd, streamVars
<1>. QED
  BY <1>3, <1>4, <1>5, <1>6, TypingNext

\* The page or the handler goes on; the run does not.
LEMMA PageStep ==
  ASSUME StreamInv, UNCHANGED runVars, BoundsTyped', SyncTyped', StreamTyped', IdsInOrder',
         \A s \in {shown', sync', cancel'} : Told(s),
         ClosedAtEnd'
  PROVE  StreamInv'
<1>. USE DEF StreamInv
<1>1. RunTyped'
  BY Typing DEF RunTyped, runVars
<1>2. WorkerAt' /\ Truthful'
  BY DEF WorkerAt, Truthful, Told, runVars
<1>. QED
  BY <1>1, <1>2, TypingNext

--------------------------------------------------------------------------------
(***************************************************************************)
(* The run's actions.                                                      *)
(***************************************************************************)
LEMMA RunActions ==
  ASSUME StreamInv, Execute
  PROVE  StreamInv'
<1>. USE DEF StreamInv
<1>0. /\ UNCHANGED <<streamVars, shown, syncVars, cancel>> /\ RunTyped /\ BoundsTyped /\ WorkerAt
      /\ log \in Seq(EventTypes)
  BY Typing DEF Execute, RunTyped
<1>1. BoundsTyped'
  BY <1>0, BoundsAre DEF Execute, WorkerLost, DispatchFails, Fault, boundVars, BoundsTyped
<1>2. \/ log' = log
      \/ \E e \in EventTypes : /\ log' = Append(log, e)
                               /\ e = "run.failed" => status' = "failed" /\ ~dispatchFailed'
                               /\ e = "run.cancelled" => status' = "cancelled"
  BY <1>0
  DEF Execute, Claim, Progress, SaveOutcome, LogCompleted, Raise, Return, Recover, LogRecovered,
      CancelElsewhere, DispatchFails, RetryDispatch, CancelRun, WorkerLost, FinishCancellation, Append1,
      WorkerAt, EventTypes
<1>3. log' \in Seq(EventTypes)
  BY <1>0, <1>2
<1>4. status' \in Statuses
  BY <1>0
  DEF Execute, Claim, Progress, SaveOutcome, LogCompleted, Raise, Return, Recover, LogRecovered,
      CancelElsewhere, DispatchFails, RetryDispatch, CancelRun, WorkerLost, FinishCancellation, RunTyped,
      Statuses, Terminal
<1>5. worker' \in {"idle", "executing", "saved", "completed", "recovered", "lost", "done"}
  BY <1>0
  DEF Execute, Claim, Progress, SaveOutcome, LogCompleted, Raise, Return, Recover, LogRecovered,
      CancelElsewhere, DispatchFails, RetryDispatch, WorkerLost, RunTyped
<1>6. CASE DispatchFails
  BY <1>0, <1>1, <1>3, <1>4, <1>5, <1>6, RunStep
  DEF DispatchFails, Fault, RunTyped, WorkerAt, Terminal, Failing
<1>7. CASE RetryDispatch
  <2>1. WorkerAt' /\ log' = log /\ (misled => misled') /\ dispatchFailed
    BY <1>0, <1>7 DEF RetryDispatch, WorkerAt
  <2>2. misled' \/ "failed" \notin {shown, sync, cancel}
    BY <1>7 DEF RetryDispatch
  <2>3. RunTyped'
    BY <1>0, <1>3, <1>4, <1>5, <1>7 DEF RetryDispatch, RunTyped
  <2>. QED
    BY <1>0, <1>1, <2>1, <2>2, <2>3, RunStep
<1>8. ASSUME UNCHANGED <<dispatchFailed, misled>>,
             \/ Claim \/ Progress \/ SaveOutcome \/ LogCompleted \/ Raise \/ Return
             \/ Recover \/ LogRecovered \/ CancelElsewhere \/ WorkerLost
      PROVE  StreamInv'
  <2>1. WorkerAt'
    BY <1>0, <1>8
    DEF Claim, Progress, SaveOutcome, LogCompleted, Raise, Return, Recover, LogRecovered,
        CancelElsewhere, CancelRun, WorkerLost, FinishCancellation, WorkerAt, Terminal
  <2>2. status \in Failing => status' = status
    BY <1>0, <1>8
    DEF Claim, Progress, SaveOutcome, LogCompleted, Raise, Return, Recover, LogRecovered,
        CancelElsewhere, CancelRun, WorkerLost, FinishCancellation, WorkerAt, Terminal, Failing
  <2>3. RunTyped'
    BY <1>0, <1>3, <1>4, <1>5, <1>8 DEF RunTyped
  <2>4. /\ status \in Failing /\ ~dispatchFailed => UNCHANGED <<status, dispatchFailed>>
        /\ status = "failed" => status' = "failed"
        /\ misled => misled'
    BY <1>8, <2>2 DEF Failing
  <2>. QED
    BY <1>0, <1>1, <1>2, <2>1, <2>3, <2>4, RunStep
<1>. QED
  BY <1>6, <1>7, <1>8 DEF Execute

\* The page's own cancel request changes the run as anybody's does.
LEMMA CancelCommitsStep ==
  ASSUME StreamInv, CancelCommits
  PROVE  StreamInv'
<1>. USE DEF StreamInv
<1>0. /\ UNCHANGED <<worker, dispatchFailed, misled, streamVars, shown, syncVars, boundVars>>
      /\ cancel' = "committed" /\ RunTyped /\ BoundsTyped /\ WorkerAt /\ log \in Seq(EventTypes)
  BY Typing DEF CancelCommits, RunTyped
<1>1. \/ log' = log
      \/ \E e \in EventTypes : /\ log' = Append(log, e)
                               /\ e = "run.failed" => status' = "failed" /\ ~dispatchFailed'
                               /\ e = "run.cancelled" => status' = "cancelled"
  BY DEF CancelCommits, CancelRun, Append1, EventTypes
<1>2. log' \in Seq(EventTypes)
  BY <1>0, <1>1
<1>3. status' \in Statuses /\ WorkerAt' /\ (status \in Failing => status' = status)
  BY <1>0 DEF CancelCommits, CancelRun, RunTyped, WorkerAt, Statuses, Terminal, Failing
<1>4. /\ status \in Failing /\ ~dispatchFailed => UNCHANGED <<status, dispatchFailed>>
      /\ status = "failed" => status' = "failed"
      /\ misled => misled'
  BY <1>0, <1>3 DEF Failing
<1>5. RunTyped' /\ BoundsTyped'
  BY <1>0, <1>2, <1>3 DEF RunTyped, BoundsTyped, boundVars
<1>. QED
  BY <1>0, <1>1, <1>3, <1>4, <1>5, RunStep

--------------------------------------------------------------------------------
(***************************************************************************)
(* The handler and the page.                                               *)
(***************************************************************************)
\* Steps that leave the stream alone.
LEMMA StreamStays ==
  ASSUME StreamInv, UNCHANGED <<log, streamVars>>
  PROVE  StreamTyped' /\ IdsInOrder'
  BY Typing DEF StreamInv, StreamTyped, IdsInOrder, streamVars

\* The page closes its stream.
LEMMA Closed ==
  ASSUME StreamInv, CloseStream, UNCHANGED <<log, cursor>>,
         \/ UNCHANGED <<lastId, handled>>
         \/ lastId' = lastId + 1 /\ handled' = Append(handled, lastId + 1) /\ lastId < Len(log)
  PROVE  StreamTyped' /\ IdsInOrder'
<1>. USE DEF StreamInv
<1>1. StreamTyped /\ IdsInOrder /\ Len(log) \in Nat /\ lastId \in Nat /\ cursor \in Nat
  BY Typing DEF StreamTyped, RunTyped
<1>2. lastId' \in 0..Len(log) /\ handled' = Number(lastId')
  <2>1. CASE UNCHANGED <<lastId, handled>>
    BY <1>1, <2>1 DEF IdsInOrder, StreamTyped
  <2>2. CASE lastId' = lastId + 1 /\ handled' = Append(handled, lastId + 1) /\ lastId < Len(log)
    <3>1. handled' = Number(lastId + 1)
      BY <1>1, <2>2, Numbered DEF IdsInOrder
    <3>. QED
      BY <1>1, <2>2, <3>1
  <2>. QED
    BY <2>1, <2>2
<1>3. handled' \in Seq(1..Len(log))
  <2>1. handled' = Following(0, lastId')
    BY <1>2, NumberIsFollowing
  <2>. QED
    BY <1>1, <1>2, <2>1, FollowingType
<1>4. StreamTyped'
  BY <1>1, <1>2, <1>3 DEF StreamTyped, CloseStream
<1>5. IdsInOrder'
  <2>1. page' = Following(cursor', 0) /\ Len(page') = 0
    BY <1>1, NoneFollowing DEF CloseStream
  <2>. QED
    BY <1>1, <1>2, <2>1 DEF IdsInOrder, CloseStream, StreamTyped
<1>. QED
  BY <1>4, <1>5

LEMMA HandlerSteps ==
  ASSUME StreamInv, Serve
  PROVE  StreamInv'
<1>. USE DEF StreamInv
<1>0. /\ UNCHANGED <<runVars, shown, syncVars, cancel, boundVars, source, lastId, handled>>
      /\ StreamTyped /\ IdsInOrder /\ SyncTyped /\ BoundsTyped
      /\ Len(log) \in Nat /\ cursor \in 0..Len(log) /\ lastId \in 0..Len(log)
  BY Typing DEF Serve, ReadEvents, Send, StreamTyped, RunTyped
<1>1. SyncTyped' /\ BoundsTyped' /\ ClosedAtEnd' /\ log' = log
  BY <1>0 DEF SyncTyped, BoundsTyped, syncVars, boundVars, ClosedAtEnd, runVars
<1>2. \A s \in {shown', sync', cancel'} : Told(s)
  BY <1>0 DEF Truthful, Told, syncVars
<1>3. CASE ReadEvents
  <2>. DEFINE m == Lesser(cursor + PageSize, Len(log))
  <2>1. m \in cursor..Len(log)
    BY <1>0, EventStreamAssumption DEF Lesser
  <2>2. page' = Following(cursor, m - cursor)
    BY <1>0, <1>3, <2>1, Polled DEF ReadEvents
  <2>3. PICK d \in Nat : page' = Following(cursor, d) /\ cursor + d <= Len(log)
    BY <1>0, <2>1, <2>2
  <2>. HIDE DEF m
  <2>4. cursor \in Nat
    BY <1>0
  <2>5. Len(page') = d /\ page' \in Seq(1..Len(log))
    BY <1>0, <2>3, <2>4, FollowingType
  <2>6. /\ handler = "events" /\ handler' = "status"
        /\ UNCHANGED <<cursor, wire, source, lastId, handled>>
    BY <1>3 DEF ReadEvents
  <2>7. StreamTyped'
    BY <1>0, <1>1, <2>5, <2>6 DEF StreamTyped
  <2>8. IdsInOrder'
    BY <1>0, <1>1, <2>3, <2>5, <2>6 DEF IdsInOrder
  <2>. QED
    BY <1>0, <1>1, <1>2, <2>7, <2>8, PageStep
<1>4. CASE Send
  <2>0. PICK k \in Nat, j \in Nat : k = Len(wire) /\ j = Len(page)
    BY <1>0 DEF StreamTyped
  <2>1. /\ source = "open" /\ cursor = lastId + k /\ wire = Following(lastId, k)
        /\ page = Following(cursor, j) /\ cursor + j <= Len(log)
    BY <1>0, <1>4, <2>0 DEF IdsInOrder, Send
  <2>2. lastId \in Nat /\ k + j \in Nat
    BY <1>0
  <2>3. wire' = Following(lastId, k + j) /\ cursor' = lastId + (k + j) /\ page' = <<>>
    <3>1. wire' = wire \o page /\ cursor' = cursor + j /\ page' = <<>>
      BY <1>4, <2>0 DEF Send
    <3>2. wire' = Following(lastId, k) \o Following(lastId + k, j)
      BY <2>1, <3>1
    <3>3. cursor' = lastId + (k + j)
      BY <2>1, <2>2, <3>1
    <3>. QED
      BY <2>2, <3>1, <3>2, <3>3, Joined
  <2>4. Len(wire') = k + j /\ wire' \in Seq(1..Len(log)) /\ cursor' <= Len(log)
    BY <1>0, <2>1, <2>2, <2>3, FollowingType
  <2>5. page' = Following(cursor', 0) /\ Len(page') = 0 /\ cursor' \in Nat
    BY <2>2, <2>3, NoneFollowing
  <2>6. handler' \in {"events", "ended"}
    BY <1>4 DEF Send
  <2>7. StreamTyped'
    BY <1>0, <1>1, <2>3, <2>4, <2>5, <2>6 DEF StreamTyped
  <2>8. IdsInOrder'
    <3>1. handled' = Number(lastId') /\ source' = "open" /\ page' = <<>>
      BY <1>0, <2>1, <2>3 DEF IdsInOrder
    <3>2. cursor' = lastId' + Len(wire') /\ wire' = Following(lastId', Len(wire'))
      BY <1>0, <2>3, <2>4
    <3>3. page' = Following(cursor', Len(page')) /\ cursor' + Len(page') <= Len(log')
      BY <1>1, <2>4, <2>5
    <3>. QED
      BY <3>1, <3>2, <3>3 DEF IdsInOrder
  <2>. QED
    BY <1>0, <1>1, <1>2, <2>7, <2>8, PageStep
<1>. QED
  BY <1>0, <1>3, <1>4 DEF Serve
\* A status request is made, or noted to be made.
LEMMA Asked ==
  ASSUME SyncTyped, SyncRun
  PROVE  sync' \in {"asked", sync} /\ again' \in BOOLEAN
  BY DEF SyncTyped, SyncRun

\* An error of the stream leaves the page with a status request and a throttle, no more.
LEMMA OnErrorAsks ==
  ASSUME SyncTyped, OnError
  PROVE  sync' \in {"asked", sync} /\ again' \in BOOLEAN /\ throttled' \in BOOLEAN
  BY Asked DEF SyncTyped, OnError, syncVars

LEMMA SynchroniseSteps ==
  ASSUME StreamInv, Synchronise
  PROVE  StreamInv'
<1>. USE DEF StreamInv
<1>0. /\ UNCHANGED <<runVars, cancel, log, status>>
      /\ RunTyped /\ StreamTyped /\ SyncTyped /\ BoundsTyped
  BY Typing DEF Synchronise, runVars
<1>1. BoundsTyped'
  BY <1>0, BoundsAre DEF Synchronise, SyncFails, Fault, boundVars, BoundsTyped
<1>2. CASE SyncAnswer
  <2>1. sync \in Statuses /\ SyncEnds
    BY <1>2 DEF SyncAnswer
  <2>2. sync' \in {"asked", "idle"} /\ again' \in BOOLEAN /\ throttled' \in BOOLEAN
    BY <1>0, <2>1 DEF SyncEnds, SyncTyped
  <2>3. CASE shown' = sync /\ sync \in Terminal /\ CloseStream /\ UNCHANGED <<cursor, lastId, handled>>
    <3>1. StreamTyped' /\ IdsInOrder'
      BY <1>0, <2>3, Closed
    <3>2. SyncTyped' /\ ClosedAtEnd'
      BY <1>0, <2>1, <2>2, <2>3 DEF SyncTyped, ClosedAtEnd, CloseStream
    <3>3. \A s \in {shown', sync', cancel'} : Told(s)
      BY <1>0, <2>2, <2>3 DEF Truthful, Told, Failing
    <3>. QED
      BY <1>0, <1>1, <3>1, <3>2, <3>3, PageStep
  <2>4. CASE UNCHANGED streamVars /\ (UNCHANGED shown \/ (shown' = sync /\ sync \notin Terminal))
    <3>1. StreamTyped' /\ IdsInOrder'
      BY <1>0, <2>4, StreamStays
    <3>2. SyncTyped' /\ ClosedAtEnd'
      BY <1>0, <2>1, <2>2, <2>4 DEF SyncTyped, ClosedAtEnd, streamVars
    <3>3. \A s \in {shown', sync', cancel'} : Told(s)
      BY <1>0, <2>2, <2>4 DEF Truthful, Told, Failing
    <3>. QED
      BY <1>0, <1>1, <3>1, <3>2, <3>3, PageStep
  <2>. QED
    BY <1>2, <2>3, <2>4 DEF SyncAnswer
<1>3. ASSUME SyncRead \/ SyncFails \/ Refresh \/ ThrottleEnds PROVE StreamInv'
  <2>1. UNCHANGED <<streamVars, shown>>
    BY <1>3 DEF SyncRead, SyncFails, Refresh, ThrottleEnds
  <2>2. StreamTyped' /\ IdsInOrder' /\ ClosedAtEnd'
    BY <1>0, <2>1, StreamStays DEF ClosedAtEnd, streamVars
  <2>3. sync' \in {"asked", "idle", sync, status} /\ again' \in BOOLEAN /\ throttled' \in BOOLEAN
    BY <1>0, <1>3, Asked DEF SyncRead, SyncFails, SyncEnds, Refresh, ThrottleEnds, SyncTyped
  <2>4. SyncTyped'
    BY <1>0, <2>1, <2>3 DEF SyncTyped, RunTyped
  <2>5. \A s \in {shown', sync', cancel'} : Told(s)
    BY <1>0, <2>1, <2>3 DEF Truthful, Told, Failing
  <2>. QED
    BY <1>0, <1>1, <2>2, <2>4, <2>5, PageStep
<1>. QED
  BY <1>2, <1>3 DEF Synchronise
\* An event is handled: the first on the wire, which is the next after the last handled.
LEMMA ReceiveStep ==
  ASSUME StreamInv, Receive, UNCHANGED <<runVars, cancel, boundVars>>
  PROVE  StreamInv'
<1>. USE DEF StreamInv
<1>0. /\ UNCHANGED <<status, log, cancel, cursor, throttled>> /\ RunTyped /\ StreamTyped /\ SyncTyped
      /\ BoundsTyped' /\ source = "open" /\ log \in Seq(EventTypes)
  BY Typing DEF Receive, runVars, boundVars, BoundsTyped, RunTyped
<1>1. PICK k \in Nat \ {0} : k = Len(wire)
  BY <1>0, EmptySeq DEF StreamTyped, Receive
<1>2. /\ cursor = lastId + k /\ wire = Following(lastId, k) /\ handled = Number(lastId)
      /\ lastId \in Nat /\ cursor \in Nat /\ cursor <= Len(log) /\ Len(log) \in Nat
  BY <1>0, <1>1 DEF IdsInOrder, StreamTyped
<1>3. Head(wire) = lastId + 1 /\ Tail(wire) = Following(lastId + 1, k - 1)
  BY <1>1, <1>2, First
<1>4. lastId' = lastId + 1 /\ handled' = Append(handled, lastId + 1) /\ lastId + 1 \in 1..Len(log)
  BY <1>1, <1>2, <1>3 DEF Receive
<1>5. shown \notin Terminal
  BY <1>0 DEF ClosedAtEnd
<1>6. PICK e \in EventTypes : e = log[lastId + 1]
  BY <1>0, <1>4
<1>7. /\ e = "run.failed" => status = "failed"
      /\ e = "run.cancelled" => status = "cancelled"
  BY <1>4, <1>6 DEF Truthful
<1>8. CASE e \in DOMAIN Outcome
  <2>1. CloseStream /\ shown' = Outcome[e] /\ SyncRun
    BY <1>3, <1>6, <1>8 DEF Receive
  <2>2. StreamTyped' /\ IdsInOrder'
    BY <1>0, <1>2, <1>4, <2>1, Closed
  <2>3. e \in {"run.completed", "run.cancelled", "run.failed"}
    BY <1>8 DEF Outcome
  <2>4. /\ e = "run.completed" => shown' = "succeeded"
        /\ e = "run.cancelled" => shown' = "cancelled"
        /\ e = "run.failed" => shown' = "failed"
    BY <2>1, <2>3 DEF Outcome
  <2>5. sync' \in {"asked", sync} /\ again' \in BOOLEAN
    BY <1>0, <2>1, Asked
  <2>6. SyncTyped' /\ ClosedAtEnd'
    BY <1>0, <2>1, <2>3, <2>4, <2>5 DEF SyncTyped, ClosedAtEnd, CloseStream, Statuses, Terminal
  <2>7. \A s \in {shown', sync', cancel'} : Told(s)
    BY <1>0, <1>7, <2>3, <2>4, <2>5 DEF Truthful, Told, Failing
  <2>. QED
    BY <1>0, <2>2, <2>6, <2>7, PageStep
<1>9. CASE e \notin DOMAIN Outcome
  <2>1. /\ shown' \in {"working", shown} /\ wire' = Tail(wire)
        /\ UNCHANGED <<source, handler, page, sync, again>>
    BY <1>3, <1>6, <1>9 DEF Receive
  <2>2. wire' = Following(lastId', k - 1) /\ cursor' = lastId' + (k - 1) /\ k - 1 \in Nat /\ lastId' \in Nat
    BY <1>0, <1>1, <1>2, <1>3, <1>4, <2>1
  <2>3. Len(wire') = k - 1 /\ wire' \in Seq(1..Len(log))
    <3>1. lastId' + (k - 1) <= Len(log)
      BY <1>0, <1>2, <2>2
    <3>. QED
      BY <1>2, <2>2, <3>1, FollowingType
  <2>4. handled' = Number(lastId')
    BY <1>2, <1>4, Numbered
  <2>5. handled' \in Seq(1..Len(log))
    <3>1. handled' = Following(0, lastId') /\ 0 + lastId' <= Len(log)
      BY <1>2, <1>4, <2>4, NumberIsFollowing
    <3>. QED
      BY <1>2, <2>2, <3>1, FollowingType
  <2>6. StreamTyped'
    BY <1>0, <1>4, <2>1, <2>3, <2>5 DEF StreamTyped
  <2>7. IdsInOrder'
    <3>1. cursor' = lastId' + Len(wire') /\ wire' = Following(lastId', Len(wire'))
      BY <2>2, <2>3
    <3>2. page' = Following(cursor', Len(page')) /\ cursor' + Len(page') <= Len(log')
      BY <1>0, <2>1 DEF IdsInOrder
    <3>. QED
      BY <1>0, <2>1, <2>4, <3>1, <3>2 DEF IdsInOrder
  <2>8. SyncTyped' /\ ClosedAtEnd'
    BY <1>0, <1>5, <2>1 DEF SyncTyped, ClosedAtEnd, Statuses, Terminal
  <2>9. \A s \in {shown', sync', cancel'} : Told(s)
    BY <1>0, <2>1 DEF Truthful, Told, Failing
  <2>. QED
    BY <1>0, <2>6, <2>8, <2>7, <2>9, PageStep
<1>. QED
  BY <1>8, <1>9

LEMMA FollowSteps ==
  ASSUME StreamInv, Follow
  PROVE  StreamInv'
<1>. USE DEF StreamInv
<1>0. /\ UNCHANGED <<runVars, cancel, log, status>>
      /\ RunTyped /\ StreamTyped /\ SyncTyped /\ BoundsTyped
  BY Typing DEF Follow, runVars
<1>1. BoundsTyped'
  BY <1>0, BoundsAre DEF Follow, Break, Refuse, Fault, boundVars, BoundsTyped
<1>2. CASE Receive /\ UNCHANGED boundVars
  BY <1>0, <1>2, ReceiveStep
<1>3. ASSUME Connect \/ StreamEnds \/ Break \/ Refuse PROVE StreamInv'
  <2>1. /\ source \in {"connecting", "open"} /\ UNCHANGED <<shown, lastId, handled>>
        /\ lastId \in Nat /\ cursor \in Nat /\ lastId <= Len(log) /\ Len(log) \in Nat
    BY <1>0, <1>3 DEF Connect, StreamEnds, Break, Refuse, StreamTyped
  <2>2. shown \notin Terminal /\ ClosedAtEnd'
    BY <2>1 DEF ClosedAtEnd
  <2>3. sync' \in {"asked", sync} /\ again' \in BOOLEAN /\ throttled' \in BOOLEAN
    BY <1>0, <1>3, OnErrorAsks DEF Connect, StreamEnds, Break, Refuse, SyncTyped, syncVars
  <2>4. SyncTyped'
    BY <1>0, <2>1, <2>3 DEF SyncTyped
  <2>5. \A s \in {shown', sync', cancel'} : Told(s)
    BY <1>0, <2>1, <2>3 DEF Truthful, Told, Failing
  <2>6. StreamTyped'
    <3>1. /\ handler' \in {"none", "events", handler} /\ source' \in {"open", "connecting", "dead"}
          /\ cursor' \in {cursor, lastId} /\ page' \in {page, <<>>} /\ wire' \in {wire, <<>>}
      BY <1>3 DEF Connect, StreamEnds, Break, Refuse
    <3>2. <<>> \in Seq(1..Len(log))
      OBVIOUS
    <3>. QED
      BY <1>0, <2>1, <3>1, <3>2 DEF StreamTyped
  <2>7. IdsInOrder'
    <3>1. /\ Following(lastId, 0) = <<>> /\ Following(cursor, 0) = <<>> /\ Len(<<>>) = 0
      BY <2>1, NoneFollowing
    <3>2. CASE Connect
      BY <1>0, <2>1, <3>1, <3>2 DEF IdsInOrder, Connect
    <3>3. CASE StreamEnds
      BY <1>0, <2>1, <3>3 DEF IdsInOrder, StreamEnds
    <3>4. CASE Break
      BY <1>0, <2>1, <3>1, <3>4 DEF IdsInOrder, Break, StreamTyped
    <3>5. CASE Refuse
      BY <1>0, <2>1, <3>5 DEF IdsInOrder, Refuse
    <3>. QED
      BY <1>3, <3>2, <3>3, <3>4, <3>5
  <2>. QED
    BY <1>0, <1>1, <2>2, <2>4, <2>5, <2>6, <2>7, PageStep
<1>. QED
  BY <1>2, <1>3 DEF Follow

LEMMA CancelSteps ==
  ASSUME StreamInv, CancelHere
  PROVE  StreamInv'
<1>. USE DEF StreamInv
<1>0. RunTyped /\ StreamTyped /\ SyncTyped /\ BoundsTyped
  BY Typing
<1>1. CASE CancelAnswer
  <2>1. /\ UNCHANGED <<status, log, runVars, boundVars>> /\ cancel \in Statuses /\ shown' = cancel
        /\ cancel' = "idle" /\ BoundsTyped'
    BY <1>0, <1>1 DEF CancelAnswer, runVars, boundVars, BoundsTyped
  <2>2. CASE cancel \in Terminal
    <3>1. CloseStream /\ SyncRun /\ UNCHANGED <<cursor, lastId, handled, throttled>>
      BY <1>1, <2>2 DEF CancelAnswer
    <3>2. StreamTyped' /\ IdsInOrder'
      BY <2>1, <3>1, Closed
    <3>3. sync' \in {"asked", sync} /\ again' \in BOOLEAN
      BY <1>0, <3>1, Asked
    <3>4. SyncTyped' /\ ClosedAtEnd'
      BY <1>0, <2>1, <3>1, <3>3 DEF SyncTyped, ClosedAtEnd, CloseStream
    <3>5. \A s \in {shown', sync', cancel'} : Told(s)
      BY <2>1, <3>3 DEF Truthful, Told, Failing
    <3>. QED
      BY <2>1, <3>2, <3>4, <3>5, PageStep
  <2>3. CASE cancel \notin Terminal
    <3>1. UNCHANGED <<streamVars, syncVars>>
      BY <1>1, <2>3 DEF CancelAnswer
    <3>2. StreamTyped' /\ IdsInOrder'
      BY <2>1, <3>1, StreamStays
    <3>3. SyncTyped' /\ ClosedAtEnd'
      BY <1>0, <2>1, <2>3, <3>1 DEF SyncTyped, ClosedAtEnd, syncVars
    <3>4. \A s \in {shown', sync', cancel'} : Told(s)
      BY <2>1, <3>1 DEF Truthful, Told, Failing, syncVars
    <3>. QED
      BY <2>1, <3>2, <3>3, <3>4, PageStep
  <2>. QED
    BY <2>2, <2>3
<1>2. ASSUME ClickCancel \/ CancelReads \/ CancelFails PROVE StreamInv'
  <2>1. /\ UNCHANGED <<status, log, runVars, streamVars, source, shown, syncVars, sync>>
        /\ cancel' \in {"idle", "asked", status}
    BY <1>2 DEF ClickCancel, CancelReads, CancelFails, runVars, streamVars, syncVars
  <2>2. BoundsTyped'
    BY <1>0, <1>2, BoundsAre DEF ClickCancel, CancelReads, CancelFails, Fault, boundVars, BoundsTyped
  <2>3. StreamTyped' /\ IdsInOrder' /\ ClosedAtEnd'
    BY <2>1, StreamStays DEF ClosedAtEnd
  <2>4. SyncTyped'
    BY <1>0, <2>1 DEF SyncTyped, RunTyped, syncVars
  <2>5. \A s \in {shown', sync', cancel'} : Told(s)
    BY <2>1 DEF Truthful, Told, Failing
  <2>. QED
    BY <2>1, <2>2, <2>3, <2>4, <2>5, PageStep
<1>. QED
  BY <1>1, <1>2, CancelCommitsStep DEF CancelHere

LEMMA StreamNext ==
  ASSUME StreamInv, [Next]_vars
  PROVE  StreamInv'
<1>1. CASE Next
  BY <1>1, RunActions, HandlerSteps, SynchroniseSteps, FollowSteps, CancelSteps DEF Next
<1>2. CASE UNCHANGED vars
  <2>1. UNCHANGED <<status, log, worker, dispatchFailed, misled, handler, cursor, page, wire, source, lastId, handled, shown,
                    sync, again, throttled, cancel, faults, refused, cancels>>
    BY <1>2 DEF vars, runVars, streamVars, syncVars, boundVars
  <2>. QED
    BY <2>1 DEF StreamInv, TypeOK, IdsInOrder, WorkerAt, Truthful, Told, ClosedAtEnd
<1>. QED
  BY <1>1, <1>2

--------------------------------------------------------------------------------
\* Every reachable state is one where ids are in order and no end is announced that is
\* not one.
THEOREM StreamInvariant == Spec => []StreamInv
  BY StreamInit, StreamNext, PTL DEF Spec

\* Variables keep their types, and every id on its way names an event that exists.
THEOREM StreamTypeCorrect == Spec => []TypeOK
<1>1. StreamInv => TypeOK
  BY DEF StreamInv
<1>. QED
  BY <1>1, StreamInvariant, PTL

\* For every page size and any number of broken and ended connections, the page handles
\* every event once and in order: research_run_events resumes after Last-Event-ID
\* without skipping or repeating any.
THEOREM NothingIsSkipped == Spec => []NothingSkippedOrRepeated
<1>1. StreamInv => NothingSkippedOrRepeated
  BY DEF StreamInv, IdsInOrder, NothingSkippedOrRepeated
<1>. QED
  BY <1>1, StreamInvariant, PTL

\* What the page shows as failed or cancelled is so, whichever of the stream, a status
\* answer or the answer to its cancel request told it; only a failure that was there or on
\* its way when a failed dispatch was retried may be shown although the run goes on.
THEOREM ShownEndsAreTrue == Spec => []ShownEndIsTrue
<1>1. StreamInv => ShownEndIsTrue
  BY DEF StreamInv, Truthful, Told, Failing, ShownEndIsTrue
<1>. QED
  BY <1>1, StreamInvariant, PTL

\* Only the answer to the page's own cancel request takes it from an end back to a
\* status before it: a late status answer is dropped (research.html's
\* syncRun), and a page that shows an end has closed its stream.
THEOREM ShownEndsStayShown == Spec => ShownEndStays
<1>1. ASSUME StreamInv, [Next]_vars
      PROVE  [(shown \in Terminal /\ shown' \notin Terminal => CancelAnswer)]_vars
  <2>. SUFFICES ASSUME Next, shown \in Terminal, shown' \notin Terminal PROVE CancelAnswer
    BY <1>1
  <2>1. source = "closed" /\ shown' # shown
    BY <1>1 DEF StreamInv, ClosedAtEnd
  <2>2. ~Execute /\ ~Serve
    BY <2>1 DEF Execute, Serve
  <2>3. ~Synchronise
    BY <2>1 DEF Synchronise, SyncRead, SyncAnswer, SyncFails, Refresh, ThrottleEnds
  <2>4. ~Follow
    BY <2>1 DEF Follow, Connect, StreamEnds, Receive, Break, Refuse
  <2>5. ~(ClickCancel \/ CancelCommits \/ CancelReads \/ CancelFails)
    BY <2>1 DEF ClickCancel, CancelCommits, CancelReads, CancelFails
  <2>. QED
    BY <2>2, <2>3, <2>4, <2>5 DEF Next, CancelHere
<1>. QED
  BY <1>1, StreamInvariant, PTL DEF Spec, ShownEndStays
================================================================================
