----------------------------- MODULE RunLifecycle -----------------------------
(***************************************************************************)
(* What the research runtime promises of a run, with no web request,       *)
(* broker or worker in sight: the states it moves through and when it is   *)
(* paid for.  ResearchRun is shown to implement this specification.        *)
(***************************************************************************)
CONSTANT Runs

VARIABLES phase, paid

lifeVars == <<phase, paid>>

Init ==
    /\ phase = [r \in Runs |-> "absent"]
    /\ paid = [r \in Runs |-> FALSE]

Become(r, from, to) ==
    /\ phase[r] = from
    /\ phase' = [phase EXCEPT ![r] = to]
    /\ UNCHANGED paid

Submit(r) == Become(r, "absent", "queued")

\* A failed dispatch takes an unpaid run out of the queue; only its own retry returns it.
LoseDispatch(r) == Become(r, "queued", "undelivered")
Resubmit(r) == Become(r, "undelivered", "queued")

Start(r) == Become(r, "queued", "running")

\* Paying happens once, and never for a run whose cancellation has been requested.
Pay(r) ==
    /\ phase[r] = "running" /\ ~paid[r]
    /\ paid' = [paid EXCEPT ![r] = TRUE]
    /\ UNCHANGED phase

Cancel(r) == Become(r, "queued", "cancelled") \/ Become(r, "running", "cancelling")
Finish(r) ==
    \/ Become(r, "running", "succeeded") /\ paid[r]
    \/ Become(r, "running", "failed")
    \/ Become(r, "cancelling", "cancelled")

\* The executing worker may still fail a run it has reported as succeeded.
Overturn(r) == Become(r, "succeeded", "failed")

Next ==
    \E r \in Runs :
        \/ Submit(r) \/ LoseDispatch(r) \/ Resubmit(r) \/ Start(r) \/ Pay(r)
        \/ Cancel(r) \/ Finish(r) \/ Overturn(r)

Spec == Init /\ [][Next]_lifeVars
================================================================================
