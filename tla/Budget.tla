-------------------------------- MODULE Budget --------------------------------
(***************************************************************************)
(* The budget of the paid model (aggregator/services/ai.py): a call        *)
(* reserves its estimated cost in the AIUsageDaily row of the day, and     *)
(* replaces the estimate by what the provider reports, or takes it back.   *)
(* The callers are DeepSeekAIProvider.analyze, the planner, the research   *)
(* answer and the campus questions; only questions look at the month.      *)
(*                                                                         *)
(* Costs are counted in some unit of money.  A call is assumed to cost no  *)
(* more than its estimate (the prompt at one token per character, the      *)
(* answer at max_tokens); what the provider bills for calls that fail is   *)
(* not known to the program and not part of the model.                     *)
(***************************************************************************)
EXTENDS Integers, FiniteSets, FiniteSetsExt

CONSTANTS
    Calls,              \* attempts to use the paid model
    Questions,          \* those that answer a campus question
    Costs,              \* possible estimates
    DailyBudget, MonthlyBudget,
    MaxDay              \* bound: the days 0..MaxDay of one month

ASSUME BudgetAssumption ==
    /\ IsFiniteSet(Calls) /\ Questions \subseteq Calls /\ Costs \subseteq Nat
    /\ {DailyBudget, MonthlyBudget, MaxDay} \subseteq Nat

VARIABLES
    day,                \* timezone.localdate()
    usage,              \* AIUsageDaily.cost_cny of each day
    stage,              \* where each call stands
    held,               \* its DeepSeekBudgetReservation: date and estimated cost
    reported            \* the cost of the usage that the provider reported

vars == <<day, usage, stage, held, reported>>

Days == 0..MaxDay
Stages == {"idle", "allowed", "dated", "refused", "reserved", "answered", "crashed", "finalized", "released"}

Init ==
    /\ day = 0
    /\ usage = [d \in Days |-> 0]
    /\ stage = [c \in Calls |-> "idle"]
    /\ held = [c \in Calls |-> [day |-> 0, cost |-> 0]]
    /\ reported = [c \in Calls |-> 0]

Goto(c, s) == stage' = [stage EXCEPT ![c] = s]
SpentInMonth == MapThenSumSet(LAMBDA d : usage[d], Days)

\* estimate_deepseek_usage(): a question is answered without the model unless its
\* estimate fits what is left of the day and of the month; nothing is locked.
EstimateAllows(e) == usage[day] + e <= DailyBudget /\ SpentInMonth + e <= MonthlyBudget

EstimateQuestion(c) ==
    /\ stage[c] = "idle" /\ c \in Questions
    /\ \E e \in Costs :
        /\ Goto(c, IF EstimateAllows(e) THEN "allowed" ELSE "refused")
        /\ held' = [held EXCEPT ![c] = [day |-> day, cost |-> e]]
    /\ UNCHANGED <<day, usage, reported>>

\* Bug: the date is taken in a time zone that is ahead of the portal's.
MutReadDate(c) ==
    /\ \/ stage[c] = "allowed" /\ held' = [held EXCEPT ![c].day = day + 1]
       \/ stage[c] = "idle" /\ c \notin Questions
          /\ \E e \in Costs : held' = [held EXCEPT ![c] = [day |-> day + 1, cost |-> e]]
    /\ Goto(c, "dated")
    /\ UNCHANGED <<day, usage, reported>>
\* reserve_deepseek_budget() reads the date first and then waits for the row's lock.
ReadDate(c) ==
    /\ \/ stage[c] = "allowed" /\ held' = [held EXCEPT ![c].day = day]
       \/ stage[c] = "idle" /\ c \notin Questions
          /\ \E e \in Costs : held' = [held EXCEPT ![c] = [day |-> day, cost |-> e]]
    /\ Goto(c, "dated")
    /\ UNCHANGED <<day, usage, reported>>

\* Bug: the budget is compared with what was spent before this call.
MutReserve(c) ==
    /\ stage[c] = "dated"
    /\ IF usage[held[c].day] > DailyBudget
       THEN Goto(c, "refused") /\ UNCHANGED usage
       ELSE Goto(c, "reserved") /\ usage' = [usage EXCEPT ![held[c].day] = @ + held[c].cost]
    /\ UNCHANGED <<day, held, reported>>
Reserve(c) ==
    /\ stage[c] = "dated"
    /\ IF usage[held[c].day] + held[c].cost > DailyBudget
       THEN Goto(c, "refused") /\ UNCHANGED usage
       ELSE Goto(c, "reserved") /\ usage' = [usage EXCEPT ![held[c].day] = @ + held[c].cost]
    /\ UNCHANGED <<day, held, reported>>

\* The provider answers; a usage without token counts costs nothing.
Answer(c) ==
    /\ stage[c] = "reserved"
    /\ \E r \in 0..held[c].cost : reported' = [reported EXCEPT ![c] = r]
    /\ Goto(c, "answered")
    /\ UNCHANGED <<day, usage, held>>

NonNegative(x) == IF x < 0 THEN 0 ELSE x

\* Bug: the answer is booked on the day it arrives.
MutFinalize(c) ==
    /\ stage[c] = "answered"
    /\ usage' = [usage EXCEPT ![day] = NonNegative(@ - held[c].cost + reported[c])]
    /\ Goto(c, "finalized")
    /\ UNCHANGED <<day, held, reported>>
Finalize(c) ==
    /\ stage[c] = "answered"
    /\ usage' = [usage EXCEPT ![held[c].day] = NonNegative(@ - held[c].cost + reported[c])]
    /\ Goto(c, "finalized")
    /\ UNCHANGED <<day, held, reported>>

\* The call failed (a question has then tried twice), its answer was empty, or an
\* exception came before the answer was booked.
Release(c) ==
    /\ stage[c] \in {"reserved", "answered"}
    /\ usage' = [usage EXCEPT ![held[c].day] = NonNegative(@ - held[c].cost)]
    /\ Goto(c, "released")
    /\ UNCHANGED <<day, held, reported>>

\* The process dies: what it has reserved stays reserved, else nothing is left of it.
Crash(c) ==
    /\ stage[c] \in {"allowed", "dated", "reserved", "answered"}
    /\ Goto(c, IF stage[c] \in {"reserved", "answered"} THEN "crashed" ELSE "refused")
    /\ UNCHANGED <<day, usage, held, reported>>

Midnight ==
    /\ day < MaxDay /\ day' = day + 1
    /\ UNCHANGED <<usage, stage, held, reported>>

Next ==
    \/ \E c \in Calls :
        EstimateQuestion(c) \/ ReadDate(c) \/ Reserve(c) \/ Answer(c) \/ Finalize(c) \/ Release(c) \/ Crash(c)
    \/ Midnight

Spec == Init /\ [][Next]_vars

--------------------------------------------------------------------------------
\* Every variable keeps its type: a day's cost never becomes negative, and every
\* reservation keeps the day it was made on.
TypeOK ==
    /\ day \in Days
    /\ usage \in [Days -> Nat]
    /\ stage \in [Calls -> Stages]
    /\ held \in [Calls -> [day: Days, cost: Nat]]
    /\ reported \in [Calls -> Nat]

\* What is reserved and spent of a day never exceeds its budget, whichever calls
\* overlap, fail, crash or finish after midnight.
DailyBudgetHeld == \A d \in Days : usage[d] <= DailyBudget

\* The books balance: a day's cost is the estimates of the calls that are under way or
\* died, and the reported cost of those that finished.  No cost is booked twice, on
\* another day or on another call's account, and no subtraction is cut off at zero.
Charge(c) ==
    CASE stage[c] \in {"reserved", "answered", "crashed"} -> held[c].cost
      [] stage[c] = "finalized" -> reported[c]
      [] OTHER -> 0
BooksBalance ==
    \A d \in Days : usage[d] = MapThenSumSet(Charge, {c \in Calls : held[c].day = d})
================================================================================
