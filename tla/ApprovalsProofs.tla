---------------------------- MODULE ApprovalsProofs ----------------------------
(***************************************************************************)
(* For any number of approvals and clicks a tool is only called after its  *)
(* approval is persisted, decisions stand, and an approval whose command   *)
(* and decision met no crash and no contest ends as UndisturbedOutcome     *)
(* says.  The last rests on what the one who decides finds at each step:   *)
(* it saves the run whatever it finds there, and from then on the run only *)
(* moves if the command's own save is still to come.                       *)
(***************************************************************************)
EXTENDS Approvals, TLAPS

\* Whoever decides on an approval, or has called its tool, has left a decision on its row;
\* there is no row before the command has made it.
Persisted ==
    \A a \in Approvals :
        /\ calls[a] > 0 \/ DecidingOn(a) => approval[a] \in {"executing"} \cup Decided
        /\ requester[a] \in {"idle", "run"} => approval[a] = "absent"

Waiting == {"waiting_approval", "cancelling"}

\* What the command and cancellations make of a run that no decision has saved.
Undecided(a) ==
    /\ requester[a] \in {"waiting", "done"} => run[a] \in Waiting
    /\ a \notin overtaken

\* What becomes of it after a decision has saved it.
Settled(a) == IF a \in overtaken
              THEN requester[a] \in {"waiting", "done"} /\ run[a] \in Waiting
              ELSE run[a] = Matching[approval[a]]

\* What a click in progress finds.
Finds(c, a) ==
    /\ approval[a] = CASE clerk[c] \in {"approved", "returned", "raised"} -> "executing"
                       [] clerk[c] \in {"executed", "log executed"} -> "executed"
                       [] OTHER -> "failed"
    /\ calls[a] = IF clerk[c] = "approved" THEN 0 ELSE 1
    /\ IF clerk[c] \in {"log executed", "log failed"} THEN Settled(a) ELSE a \notin overtaken

\* What an approval without one holds.
Rests(a) ==
    /\ approval[a] \in {"absent", "pending"} \cup Decided
    /\ calls[a] = IF approval[a] \in {"executed", "failed"} THEN 1 ELSE 0
    /\ IF approval[a] \in Decided THEN Settled(a) ELSE Undecided(a)

Decides(c, a) == on[c] = a /\ InProgress(c)

Consistent(a) ==
    /\ requester[a] \in {"approval", "waiting", "done"} => approval[a] # "absent"
    /\ \A c \in Clicks : Decides(c, a) => Finds(c, a)
    /\ \A c, d \in Clicks : Decides(c, a) /\ Decides(d, a) => c = d
    /\ ~DecidingOn(a) => Rests(a)

InStep == \A a \in Approvals \ disturbed : Consistent(a)

ApprovalsInv == TypeOK /\ Persisted /\ InStep

--------------------------------------------------------------------------------
LEMMA ApprovalsInit == Init => ApprovalsInv
<1>. SUFFICES ASSUME Init PROVE ApprovalsInv
  OBVIOUS
<1>1. TypeOK
  BY DEF Init, TypeOK, RunStatuses, ApprovalStatuses
<1>2. \A a \in Approvals : ~DecidingOn(a)
  BY DEF Init, DecidingOn, InProgress
<1>3. Persisted
  BY <1>2 DEF Init, Persisted
<1>4. InStep
  BY <1>2 DEF Init, InStep, Consistent, Decides, Rests, Undecided, Decided, DecidingOn
<1>. QED
  BY <1>1, <1>3, <1>4 DEF ApprovalsInv

LEMMA LogGrows ==
  ASSUME TypeOK, NEW a \in Approvals, NEW e \in EventTypes, AppendEvent(a, e)
  PROVE  log' \in [Approvals -> Seq(EventTypes)]
<1>1. log \in [Approvals -> Seq(EventTypes)] /\ log[a] \in Seq(EventTypes)
  BY DEF TypeOK
<1>2. Append(log[a], e) \in Seq(EventTypes)
  BY <1>1
<1>. QED
  BY <1>1, <1>2 DEF AppendEvent

\* Nothing happens to an approval that the step is not about.
LEMMA Untouched ==
  ASSUME NEW b \in Approvals, Consistent(b), run'[b] = run[b], approval'[b] = approval[b],
         calls'[b] = calls[b], requester'[b] = requester[b], b \in overtaken' <=> b \in overtaken,
         \A d \in Clicks : Decides(d, b)' = Decides(d, b) /\ (Decides(d, b) => clerk'[d] = clerk[d])
  PROVE  Consistent(b)'
<1>1. DecidingOn(b)' = DecidingOn(b)
  BY DEF DecidingOn, Decides
<1>2. Settled(b)' = Settled(b) /\ (Rests(b) => Rests(b)')
  BY DEF Settled, Undecided, Rests
<1>3. ASSUME NEW d \in Clicks, Decides(d, b)
      PROVE  Finds(d, b)'
  <2>1. Finds(d, b) /\ clerk'[d] = clerk[d]
    BY <1>3 DEF Consistent
  <2>. QED
    BY <1>2, <2>1 DEF Finds
<1>. QED
  BY <1>1, <1>2, <1>3 DEF Consistent

\* The command goes on; clicks stay where they are.
LEMMA RequestStep ==
  ASSUME ApprovalsInv, NEW a \in Approvals, Request(a) \/ CancelRun(a)
  PROVE  ApprovalsInv'
<1>. USE DEF ApprovalsInv
<1>1. UNCHANGED <<calls, clerk, on>> /\ disturbed \subseteq disturbed'
  BY DEF Request, CreateRun, CreateApproval, MarkWaiting, LogRequested, RequesterDies, CancelRun, Disturb
<1>2. /\ \A b \in Approvals : DecidingOn(b)' = DecidingOn(b)
      /\ \A c \in Clicks : InProgress(c)' = InProgress(c)
  BY <1>1 DEF DecidingOn, InProgress
<1>3. \A b \in Approvals \ {a} :
         /\ run'[b] = run[b] /\ approval'[b] = approval[b] /\ requester'[b] = requester[b]
  BY DEF Request, CreateRun, CreateApproval, MarkWaiting, LogRequested, RequesterDies, CancelRun,
         SetRun, SetApproval, TypeOK
<1>4. overtaken' \in {overtaken, overtaken \cup {a}}
  BY DEF Request, CreateRun, CreateApproval, MarkWaiting, LogRequested, RequesterDies, CancelRun
<1>5. TypeOK'
  <2>1. /\ run' \in [Approvals -> RunStatuses] /\ approval' \in [Approvals -> ApprovalStatuses]
        /\ requester' \in [Approvals -> {"idle", "run", "approval", "waiting", "done"}]
        /\ disturbed' \subseteq Approvals
    BY DEF Request, CreateRun, CreateApproval, MarkWaiting, LogRequested, RequesterDies, CancelRun,
           SetRun, SetApproval, Disturb, TypeOK, RunStatuses, ApprovalStatuses
  <2>3. overtaken' \subseteq Approvals
    BY <1>4 DEF TypeOK
  <2>2. log' \in [Approvals -> Seq(EventTypes)]
    <3>1. UNCHANGED log \/ \E e \in EventTypes : AppendEvent(a, e)
      BY DEF Request, CreateRun, CreateApproval, MarkWaiting, LogRequested, RequesterDies, CancelRun,
             EventTypes
    <3>. QED
      BY <3>1, LogGrows DEF TypeOK
  <2>. QED
    BY <1>1, <2>1, <2>2, <2>3 DEF TypeOK
<1>6. Persisted'
  <2>1. /\ calls[a] > 0 \/ DecidingOn(a) => approval'[a] \in {"executing"} \cup Decided
        /\ requester'[a] \in {"idle", "run"} => approval'[a] = "absent"
    BY DEF Request, CreateRun, CreateApproval, MarkWaiting, LogRequested, RequesterDies, CancelRun,
           SetApproval, TypeOK, Persisted, Decided
  <2>. QED
    BY <1>1, <1>2, <1>3, <2>1 DEF Persisted
<1>7. InStep'
  <2>1. \A b \in Approvals, c \in Clicks : Decides(c, b)' = Decides(c, b) /\ clerk'[c] = clerk[c]
    BY <1>1, <1>2 DEF Decides
  <2>2. ASSUME NEW b \in Approvals \ disturbed', b # a
        PROVE  Consistent(b)'
    BY <1>1, <1>3, <1>4, <2>1, <2>2, Untouched DEF InStep
  <2>3. ASSUME a \notin disturbed'
        PROVE  Consistent(a)'
    <3>1. Consistent(a)
      BY <1>1, <2>3 DEF InStep
    <3>2. requester'[a] \in {"approval", "waiting", "done"} => approval'[a] # "absent"
      BY <2>3, <3>1
      DEF Consistent, Request, CreateRun, CreateApproval, MarkWaiting, LogRequested, RequesterDies,
          CancelRun, Disturb, SetApproval, TypeOK
    <3>3. CASE CreateRun(a) \/ CreateApproval(a)
      <4>1. ~DecidingOn(a) /\ approval[a] = "absent"
        BY <3>3 DEF Persisted, CreateRun, CreateApproval, Decided
      <4>2. a \notin overtaken /\ calls[a] = 0
        BY <3>1, <4>1 DEF Consistent, Rests, Undecided, Decided
      <4>3. /\ approval'[a] \in {"absent", "pending"} /\ requester'[a] \in {"run", "approval"}
            /\ overtaken' = overtaken
        BY <3>3, <4>1 DEF CreateRun, CreateApproval, SetApproval, TypeOK
      <4>4. Rests(a)'
        BY <1>1, <4>2, <4>3 DEF Rests, Undecided, Decided
      <4>. QED
        BY <1>2, <2>1, <3>2, <4>1, <4>4 DEF Consistent, Decides, DecidingOn
    <3>4. CASE MarkWaiting(a)
      <4>1. /\ requester[a] = "approval" /\ requester'[a] = "waiting" /\ run'[a] = "waiting_approval"
            /\ overtaken' = IF RunSaved(a) THEN overtaken \cup {a} ELSE overtaken
            /\ approval' = approval
        BY <3>4 DEF MarkWaiting, SetRun, TypeOK
      <4>2. ASSUME NEW c \in Clicks, Decides(c, a) PROVE Finds(c, a)'
        <5>1. Finds(c, a)
          BY <3>1, <4>2 DEF Consistent
        <5>2. CASE clerk[c] \in {"log executed", "log failed"}
          <6>1. RunSaved(a)
            BY <3>1, <4>2, <5>1, <5>2 DEF RunSaved, Consistent, Decides, InProgress, Finds, Decided
          <6>. QED
            BY <1>1, <4>1, <5>1, <5>2, <6>1 DEF Finds, Settled, Waiting
        <5>3. CASE clerk[c] \notin {"log executed", "log failed"}
          <6>1. ~RunSaved(a)
            BY <4>2, <5>1, <5>3 DEF RunSaved, Decides, InProgress, Finds, TypeOK, Decided
          <6>. QED
            BY <1>1, <4>1, <5>1, <5>3, <6>1 DEF Finds
        <5>. QED
          BY <5>2, <5>3
      <4>3. ASSUME ~DecidingOn(a) PROVE Rests(a)'
        <5>1. Rests(a) /\ (RunSaved(a) <=> approval[a] \in Decided)
          BY <3>1, <4>3 DEF Consistent, RunSaved, DecidingOn, InProgress
        <5>. QED
          BY <1>1, <4>1, <5>1 DEF Rests, Settled, Undecided, Waiting
      <4>. QED
        BY <1>2, <2>1, <3>1, <3>2, <4>2, <4>3 DEF Consistent
    <3>5. CASE LogRequested(a) \/ CancelRun(a)
      <4>1. UNCHANGED <<overtaken, approval>>
        BY <3>5 DEF LogRequested, CancelRun
      <4>2. \/ requester'[a] = requester[a]
            \/ requester[a] = "waiting" /\ requester'[a] = "done"
        BY <3>5 DEF LogRequested, CancelRun, TypeOK
      <4>3. \/ run'[a] = run[a]
            \/ run[a] = "queued"
            \/ run[a] = "waiting_approval" /\ run'[a] = "cancelling"
        BY <3>5 DEF LogRequested, CancelRun, SetRun, TypeOK, RunStatuses, TerminalRun
      <4>4. ASSUME approval[a] \in Decided, Settled(a) PROVE Settled(a)'
        BY <4>1, <4>2, <4>3, <4>4 DEF Settled, Waiting, Matching, Decided
      <4>5. ASSUME Undecided(a) PROVE Undecided(a)'
        BY <4>1, <4>2, <4>3, <4>5 DEF Undecided, Waiting
      <4>6. ASSUME NEW c \in Clicks, Decides(c, a) PROVE Finds(c, a)'
        <5>1. Finds(c, a)
          BY <3>1, <4>6 DEF Consistent
        <5>. QED
          BY <1>1, <4>1, <4>4, <5>1 DEF Finds, Decided
      <4>7. Rests(a) => Rests(a)'
        BY <1>1, <4>1, <4>4, <4>5 DEF Rests
      <4>. QED
        BY <1>2, <2>1, <3>1, <3>2, <4>6, <4>7 DEF Consistent
    <3>. QED
      BY <2>3, <3>3, <3>4, <3>5 DEF Request, RequesterDies, Disturb
  <2>. QED
    BY <2>2, <2>3 DEF InStep
<1>. QED
  BY <1>5, <1>6, <1>7

\* A click takes a decision.  If it is the first one, nobody else is deciding.
LEMMA DecisionStep ==
  ASSUME ApprovalsInv, NEW c \in Clicks, NEW a \in Approvals, Reject(c, a) \/ Approve(c, a)
  PROVE  ApprovalsInv'
<1>. USE DEF ApprovalsInv
<1>1. /\ clerk[c] = "idle" /\ approval[a] \notin {"absent"} \cup Decided
      /\ disturbed' = (IF approval[a] = "pending" THEN disturbed ELSE disturbed \cup {a})
      /\ UNCHANGED <<calls, requester, overtaken>>
      /\ on'[c] = a /\ \A d \in Clicks \ {c} : on'[d] = on[d] /\ clerk'[d] = clerk[d]
  BY DEF Reject, Approve, MayDecide, Contested, At, TypeOK
<1>2. CASE Reject(c, a)
  <2>1. /\ run'[a] = "cancelled" /\ approval'[a] = "rejected" /\ clerk'[c] = "done"
        /\ \A b \in Approvals \ {a} : run'[b] = run[b] /\ approval'[b] = approval[b]
    BY <1>2 DEF Reject, SetRun, SetApproval, At, TypeOK
  <2>2. TypeOK'
    <3>1. log' \in [Approvals -> Seq(EventTypes)]
      BY <1>2, LogGrows DEF Reject, EventTypes
    <3>. QED
      BY <1>1, <1>2, <3>1, ApprovalsAssumption
      DEF Reject, SetRun, SetApproval, At, TypeOK, RunStatuses, ApprovalStatuses, Decided
  <2>3. \A b \in Approvals : DecidingOn(b)' = DecidingOn(b)
    BY <1>1, <2>1 DEF DecidingOn, InProgress
  <2>4. Persisted'
    BY <1>1, <2>1, <2>3 DEF Persisted, Decided
  <2>5. \A d \in Clicks, b \in Approvals : Decides(d, b)' = Decides(d, b) /\ (Decides(d, b) => d # c)
    BY <1>1, <2>1 DEF Decides, InProgress
  <2>6. ASSUME NEW b \in Approvals \ disturbed', b # a
        PROVE  Consistent(b)'
    BY <1>1, <2>1, <2>5, <2>6, Untouched DEF InStep
  <2>7. ASSUME a \notin disturbed'
        PROVE  Consistent(a)'
    <3>1. approval[a] = "pending" /\ a \notin disturbed
      BY <1>1, <2>7
    <3>2. ~DecidingOn(a)
      BY <3>1 DEF Persisted, Decided
    <3>3. a \notin overtaken /\ calls[a] = 0
      BY <3>1, <3>2 DEF InStep, Consistent, Rests, Undecided, Decided
    <3>4. Rests(a)' /\ ~DecidingOn(a)'
      BY <1>1, <2>1, <2>3, <3>2, <3>3 DEF Rests, Settled, Matching, Decided
    <3>. QED
      BY <2>1, <3>4 DEF Consistent, DecidingOn, Decides
  <2>. QED
    BY <2>2, <2>4, <2>6, <2>7 DEF InStep
<1>3. CASE Approve(c, a)
  <2>1. /\ approval'[a] = "executing" /\ clerk'[c] = "approved" /\ UNCHANGED <<run, log>>
        /\ \A b \in Approvals \ {a} : approval'[b] = approval[b]
    BY <1>3 DEF Approve, SetApproval, At, TypeOK
  <2>2. TypeOK'
    BY <1>1, <1>3, ApprovalsAssumption
    DEF Approve, SetApproval, At, TypeOK, ApprovalStatuses
  <2>3. \A b \in Approvals \ {a} : DecidingOn(b)' = DecidingOn(b)
    BY <1>1, <2>1 DEF DecidingOn, InProgress
  <2>4. Persisted'
    BY <1>1, <2>1, <2>3 DEF Persisted, Decided
  <2>5. \A d \in Clicks, b \in Approvals \ {a} :
           Decides(d, b)' = Decides(d, b) /\ (Decides(d, b) => d # c)
    BY <1>1, <2>1 DEF Decides, InProgress
  <2>6. ASSUME NEW b \in Approvals \ disturbed', b # a
        PROVE  Consistent(b)'
    BY <1>1, <2>1, <2>5, <2>6, Untouched DEF InStep
  <2>7. ASSUME a \notin disturbed'
        PROVE  Consistent(a)'
    <3>1. approval[a] = "pending" /\ a \notin disturbed
      BY <1>1, <2>7
    <3>2. ~DecidingOn(a)
      BY <3>1 DEF Persisted, Decided
    <3>3. a \notin overtaken /\ calls[a] = 0
      BY <3>1, <3>2 DEF InStep, Consistent, Rests, Undecided, Decided
    <3>4. \A d \in Clicks : Decides(d, a)' <=> d = c
      BY <1>1, <2>1, <3>2 DEF Decides, DecidingOn, InProgress
    <3>5. Finds(c, a)'
      BY <1>1, <2>1, <3>3 DEF Finds
    <3>. QED
      BY <2>1, <3>4, <3>5 DEF Consistent, DecidingOn, Decides
  <2>. QED
    BY <2>2, <2>4, <2>6, <2>7 DEF InStep
<1>. QED
  BY <1>2, <1>3

\* A click goes on with its approval.
LEMMA ClerkStep ==
  ASSUME ApprovalsInv, NEW c \in Clicks,
         CallTool(c) \/ SaveApproval(c) \/ SaveRun(c) \/ LogOutcome(c) \/ ClerkDies(c)
  PROVE  ApprovalsInv'
<1>. USE DEF ApprovalsInv
<1>1. PICK a \in Approvals : a = on[c] /\ InProgress(c)
  BY DEF CallTool, SaveApproval, SaveRun, LogOutcome, ClerkDies, InProgress, TypeOK
<1>2. /\ UNCHANGED <<requester, on, overtaken>> /\ disturbed \subseteq disturbed'
      /\ \A d \in Clicks \ {c} : clerk'[d] = clerk[d]
      /\ \A b \in Approvals \ {a} : run'[b] = run[b] /\ approval'[b] = approval[b] /\ calls'[b] = calls[b]
  BY <1>1 DEF CallTool, SaveApproval, SaveRun, LogOutcome, ClerkDies, SetRun, SetApproval, At, Disturb, TypeOK
<1>3. TypeOK'
  <2>1. /\ run' \in [Approvals -> RunStatuses] /\ approval' \in [Approvals -> ApprovalStatuses]
        /\ disturbed' \subseteq Approvals
    BY <1>1 DEF CallTool, SaveApproval, SaveRun, LogOutcome, ClerkDies, SetRun, SetApproval, Disturb,
                TypeOK, RunStatuses, ApprovalStatuses, Decided
  <2>2. calls' \in [Approvals -> Nat]
    <3>0. calls \in [Approvals -> Nat]
      BY DEF TypeOK
    <3>1. calls[a] \in Nat /\ calls[a] + 1 \in Nat
      BY <3>0
    <3>2. UNCHANGED calls \/ calls' = [calls EXCEPT ![a] = @ + 1]
      BY <1>1 DEF CallTool, SaveApproval, SaveRun, LogOutcome, ClerkDies
    <3>. QED
      BY <3>0, <3>1, <3>2
  <2>3. log' \in [Approvals -> Seq(EventTypes)]
    <3>1. UNCHANGED log \/ \E e \in EventTypes : AppendEvent(a, e)
      BY <1>1 DEF CallTool, SaveApproval, SaveRun, LogOutcome, ClerkDies, EventTypes, AppendEvent
    <3>. QED
      BY <1>1, <3>1, LogGrows DEF TypeOK
  <2>4. clerk' \in [Clicks -> {"idle", "approved", "returned", "raised", "executed", "failed",
                               "log executed", "log failed", "done"}]
    BY DEF CallTool, SaveApproval, SaveRun, LogOutcome, ClerkDies, At, TypeOK
  <2>5. \A d \in Clicks : on'[d] = Nothing => clerk'[d] = "idle"
    BY <1>1, <1>2, ApprovalsAssumption DEF TypeOK
  <2>. QED
    BY <1>2, <2>1, <2>2, <2>3, <2>4, <2>5 DEF TypeOK
<1>4. approval'[a] \in {"executing"} \cup Decided /\ requester[a] \notin {"idle", "run"}
  <2>1. DecidingOn(a)
    BY <1>1 DEF DecidingOn
  <2>2. approval[a] \in {"executing"} \cup Decided
    BY <1>1, <2>1 DEF Persisted
  <2>. QED
    BY <1>1, <2>2
    DEF Persisted, CallTool, SaveApproval, SaveRun, LogOutcome, ClerkDies, SetApproval, TypeOK, Decided
<1>5. \A d \in Clicks, b \in Approvals \ {a} :
         Decides(d, b)' = Decides(d, b) /\ (Decides(d, b) => clerk'[d] = clerk[d])
  BY <1>1, <1>2 DEF Decides, InProgress
<1>6. Persisted'
  <2>1. \A b \in Approvals \ {a} : DecidingOn(b)' = DecidingOn(b)
    BY <1>5 DEF DecidingOn, Decides
  <2>. QED
    BY <1>2, <1>4, <2>1 DEF Persisted
<1>7. ASSUME NEW b \in Approvals \ disturbed', b # a
      PROVE  Consistent(b)'
  BY <1>2, <1>5, <1>7, Untouched DEF InStep
<1>8. ASSUME a \notin disturbed'
      PROVE  Consistent(a)'
  <2>1. Finds(c, a) /\ \A d \in Clicks : Decides(d, a) => d = c
    BY <1>1, <1>2, <1>8 DEF InStep, Consistent, Decides
  <2>2. approval'[a] # "absent"
    BY <1>4 DEF Decided
  <2>3. \A d \in Clicks : Decides(d, a)' => d = c
    BY <1>2, <2>1 DEF Decides, InProgress
  <2>4. CASE LogOutcome(c)
    <3>1. clerk'[c] = "done" /\ UNCHANGED <<run, approval, calls>>
      BY <2>4 DEF LogOutcome, At, TypeOK
    <3>2. Rests(a)'
      BY <1>2, <2>1, <2>4, <3>1 DEF Finds, Settled, Rests, LogOutcome, Decided
    <3>3. \A d \in Clicks : ~Decides(d, a)'
      BY <2>3, <3>1 DEF Decides, InProgress
    <3>. QED
      BY <2>2, <3>2, <3>3 DEF Consistent, DecidingOn, Decides
  <2>5. ASSUME Finds(c, a)', InProgress(c)'
        PROVE  Consistent(a)'
    <3>1. DecidingOn(a)'
      BY <1>1, <1>2, <2>5 DEF DecidingOn
    <3>. QED
      BY <2>2, <2>3, <2>5, <3>1 DEF Consistent
  <2>6. CASE CallTool(c)
    <3>1. /\ clerk[c] = "approved" /\ clerk'[c] \in {"returned", "raised"}
          /\ calls'[a] = calls[a] + 1 /\ UNCHANGED <<run, approval>>
      BY <1>1, <2>6 DEF CallTool, At, TypeOK
    <3>2. calls[a] = 0 /\ approval[a] = "executing" /\ a \notin overtaken
      BY <2>1, <3>1 DEF Finds
    <3>3. calls'[a] = 1 /\ approval'[a] = "executing" /\ a \notin overtaken'
      BY <1>2, <3>1, <3>2
    <3>4. Finds(c, a)'
      BY <3>1, <3>3 DEF Finds
    <3>. QED
      BY <2>5, <3>1, <3>4 DEF InProgress
  <2>7. CASE SaveApproval(c)
    <3>1. /\ UNCHANGED <<run, calls, overtaken>>
          /\ \/ clerk[c] = "returned" /\ approval'[a] = "executed" /\ clerk'[c] = "executed"
             \/ clerk[c] = "raised" /\ approval'[a] = "failed" /\ clerk'[c] = "failed"
      BY <1>1, <1>2, <2>7 DEF SaveApproval, SetApproval, At, TypeOK
    <3>2. Finds(c, a)'
      BY <2>1, <3>1 DEF Finds
    <3>. QED
      BY <2>5, <3>1, <3>2 DEF InProgress
  <2>8. CASE SaveRun(c)
    <3>1. /\ UNCHANGED <<approval, calls, overtaken>>
          /\ \/ clerk[c] = "executed" /\ run'[a] = "succeeded" /\ clerk'[c] = "log executed"
             \/ clerk[c] = "failed" /\ run'[a] = "failed" /\ clerk'[c] = "log failed"
      BY <1>1, <1>2, <2>8 DEF SaveRun, SetRun, At, TypeOK
    <3>2. /\ a \notin overtaken /\ calls[a] = 1
          /\ clerk[c] = "executed" => approval[a] = "executed"
          /\ clerk[c] = "failed" => approval[a] = "failed"
      BY <2>1, <3>1 DEF Finds
    <3>3. run'[a] = Matching[approval'[a]] /\ a \notin overtaken'
      <4>1. Matching["executed"] = "succeeded" /\ Matching["failed"] = "failed"
        BY DEF Matching
      <4>2. CASE clerk[c] = "executed"
        BY <3>1, <3>2, <4>1, <4>2
      <4>3. CASE clerk[c] = "failed"
        BY <3>1, <3>2, <4>1, <4>3
      <4>. QED
        BY <3>1, <4>2, <4>3
    <3>4. Finds(c, a)'
      BY <3>1, <3>2, <3>3 DEF Finds, Settled
    <3>. QED
      BY <2>5, <3>1, <3>4 DEF InProgress
  <2>. QED
    BY <1>1, <1>8, <2>4, <2>6, <2>7, <2>8 DEF ClerkDies, Disturb
<1>. QED
  BY <1>3, <1>6, <1>7, <1>8 DEF InStep

LEMMA ApprovalsStep == ApprovalsInv /\ [Next]_vars => ApprovalsInv'
<1>. SUFFICES ASSUME ApprovalsInv, [Next]_vars PROVE ApprovalsInv'
  OBVIOUS
<1>1. CASE UNCHANGED vars
  <2>1. \A a \in Approvals, d \in Clicks : Decides(d, a)' = Decides(d, a)
    BY <1>1 DEF vars, Decides, InProgress
  <2>2. InStep'
    BY <1>1, <2>1, Untouched DEF vars, ApprovalsInv, InStep
  <2>. QED
    BY <1>1, <2>2 DEF vars, ApprovalsInv, TypeOK, Persisted, DecidingOn, InProgress
<1>. QED
  BY <1>1, RequestStep, DecisionStep, ClerkStep DEF Next, Decide

\* What whoever decides finds at each step, and what an approval holds when nobody does.
THEOREM ApprovalsInvariant == Spec => []ApprovalsInv
  BY ApprovalsInit, ApprovalsStep, PTL DEF Spec

\* Every variable keeps its type; a click in progress has its approval.
THEOREM ApprovalsTypeCorrect == Spec => []TypeOK
  BY ApprovalsInvariant, PTL DEF ApprovalsInv

\* No tool is called without a persisted approval.
THEOREM ToolsNeedApproval == Spec => []ToolNeedsApproval
<1>1. ApprovalsInv => ToolNeedsApproval
  BY DEF ApprovalsInv, Persisted, ToolNeedsApproval, DecidingOn, InProgress
<1>. QED
  BY <1>1, ApprovalsInvariant, PTL

\* An approval with no crash and no contested execution ends with its tool called as often
\* as the outcome says and its run in the matching state; the run is left waiting if and
\* only if nobody has decided or the command's save came after the decision's.
THEOREM OutcomesMatch == Spec => []UndisturbedOutcome
<1>1. ASSUME ApprovalsInv, NEW a \in Approvals \ disturbed, requester[a] = "done", ~DecidingOn(a)
      PROVE  /\ approval[a] \in {"pending"} \cup Decided
             /\ calls[a] = (IF approval[a] \in {"executed", "failed"} THEN 1 ELSE 0)
             /\ IF approval[a] = "pending" \/ a \in overtaken
                THEN run[a] \in {"waiting_approval", "cancelling"}
                ELSE run[a] = Matching[approval[a]]
  <2>1. approval[a] # "absent" /\ Rests(a)
    BY <1>1 DEF ApprovalsInv, InStep, Consistent
  <2>. QED
    BY <1>1, <2>1 DEF Rests, Settled, Undecided, Waiting, Decided
<1>2. ApprovalsInv => UndisturbedOutcome
  BY <1>1 DEF UndisturbedOutcome
<1>. QED
  BY <1>2, ApprovalsInvariant, PTL

\* Nobody takes back or repeats what was decided.
THEOREM DecisionsStand == Spec => DecisionStands
<1>1. ASSUME ApprovalsInv, [Next]_vars, NEW a \in Approvals, approval[a] \in Decided, ~DecidingOn(a)
      PROVE  approval'[a] = approval[a] /\ calls'[a] = calls[a]
  <2>. USE <1>1 DEF ApprovalsInv
  <2>1. CASE UNCHANGED vars
    BY <2>1 DEF vars
  <2>2. ASSUME NEW b \in Approvals, Request(b) \/ CancelRun(b)
        PROVE  approval'[a] = approval[a] /\ calls'[a] = calls[a]
    BY <2>2 DEF Request, CreateRun, CreateApproval, MarkWaiting, LogRequested, RequesterDies, CancelRun,
                SetApproval, Persisted, TypeOK, Decided
  <2>3. ASSUME NEW c \in Clicks, NEW b \in Approvals, Reject(c, b) \/ Approve(c, b)
        PROVE  approval'[a] = approval[a] /\ calls'[a] = calls[a]
    BY <2>3 DEF Reject, Approve, MayDecide, SetApproval, TypeOK
  <2>4. ASSUME NEW c \in Clicks,
               CallTool(c) \/ SaveApproval(c) \/ SaveRun(c) \/ LogOutcome(c) \/ ClerkDies(c)
        PROVE  approval'[a] = approval[a] /\ calls'[a] = calls[a]
    <3>1. on[c] # a
      BY <2>4 DEF CallTool, SaveApproval, SaveRun, LogOutcome, ClerkDies, InProgress, DecidingOn
    <3>. QED
      BY <2>4, <3>1 DEF CallTool, SaveApproval, SaveRun, LogOutcome, ClerkDies, SetApproval, TypeOK
  <2>. QED
    BY <2>1, <2>2, <2>3, <2>4 DEF Next, Decide
<1>2. ApprovalsInv /\ [Next]_vars =>
        [\A a \in Approvals : approval[a] \in Decided /\ ~DecidingOn(a)
             => approval'[a] = approval[a] /\ calls'[a] = calls[a]]_vars
  BY <1>1
<1>. QED
  BY <1>2, ApprovalsInvariant, PTL DEF Spec, DecisionStands
================================================================================
