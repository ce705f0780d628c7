-------------------------------- MODULE IpQuota --------------------------------
(***************************************************************************)
(* The daily counter of admissions per IP address (agent_runtime/          *)
(* admission.py), for one address.  The counter is a key of the Redis      *)
(* cache; every call computes the key anew from the date, so that a        *)
(* request that begins before midnight may return its unit after it, to    *)
(* another day's counter.  Redis runs commands one at a time and may evict *)
(* a key (maxmemory-policy allkeys-lru); the cache may be out of reach.    *)
(*                                                                         *)
(* A request here is one that needs a new reservation: a new run or the    *)
(* retry of a failed dispatch.  That create_research_run finds the run     *)
(* already there is left out: the owner's row lock excludes it.            *)
(***************************************************************************)
EXTENDS Integers, FiniteSets

CONSTANTS
    Requests,
    Limit,              \* RESEARCH_AGENT_DAILY_LIMIT; 0 is refused before the counter
    MaxDay, MaxFaults   \* bounds: the days 0..MaxDay; deaths, evictions, failures of the cache

ASSUME IpQuotaAssumption ==
    IsFiniteSet(Requests) /\ Limit \in Nat \ {0} /\ {MaxDay, MaxFaults} \subseteq Nat

VARIABLES
    day,                \* timezone.localdate()
    present, count,     \* the days whose key exists; the counters, 0 without a key
    at, held,           \* where each request stands; the day whose counter has its unit
    strays,             \* history: units taken from a day's counter by others than their holders
    broken,             \* history: requests that met a fault
    faults

vars == <<day, present, count, at, held, strays, broken, faults>>

Days == 0..MaxDay
Nowhere == -1
Stages == {"idle", "incr", "over", "reserved", "admitted", "sent", "refused", "returned", "died"}

Init ==
    /\ day = 0
    /\ present = {} /\ count = [d \in Days |-> 0]
    /\ at = [r \in Requests |-> "idle"] /\ held = [r \in Requests |-> Nowhere]
    /\ strays = [d \in Days |-> 0]
    /\ broken = {} /\ faults = 0

Goto(r, stage) == at' = [at EXCEPT ![r] = stage]
Count(r, n) == count' = [count EXCEPT ![day] = n] /\ held' = [held EXCEPT ![r] = day]

(***************************************************************************)
(* _reserve_ip: add, then incr, then decr if the limit is exceeded.        *)
(***************************************************************************)
\* The first request of a day makes the key.
Add(r) ==
    /\ at[r] = "idle"
    /\ IF day \in present
       THEN Goto(r, "incr") /\ UNCHANGED <<present, count, held>>
       ELSE Goto(r, "reserved") /\ present' = present \cup {day} /\ Count(r, 1)
    /\ UNCHANGED <<day, strays, broken, faults>>

\* Bug: the counter is compared before it is incremented.
MutIncr(r) ==
    /\ at[r] = "incr"
    /\ IF day \in present
       THEN Count(r, count[day] + 1) /\ Goto(r, IF count[day] <= Limit THEN "reserved" ELSE "over")
       ELSE Goto(r, "refused") /\ UNCHANGED <<count, held>>
    /\ UNCHANGED <<day, present, strays, broken, faults>>
\* Without a key (midnight, an eviction) incr raises, and the request is refused (503).
Incr(r) ==
    /\ at[r] = "incr"
    /\ IF day \in present
       THEN Count(r, count[day] + 1) /\ Goto(r, IF count[day] + 1 <= Limit THEN "reserved" ELSE "over")
       ELSE Goto(r, "refused") /\ UNCHANGED <<count, held>>
    /\ UNCHANGED <<day, present, strays, broken, faults>>

\* decr takes a unit from today's counter if there is one, whosever unit it is.
Decr(r) ==
    IF day \notin present THEN UNCHANGED <<count, held, strays>>
    ELSE /\ count' = [count EXCEPT ![day] = @ - 1]
         /\ IF held[r] = day THEN held' = [held EXCEPT ![r] = Nowhere] /\ UNCHANGED strays
                             ELSE strays' = [strays EXCEPT ![day] = @ + 1] /\ UNCHANGED held

GiveBack(r) ==
    /\ at[r] = "over"
    /\ Decr(r) /\ Goto(r, "refused")
    /\ UNCHANGED <<day, present, broken, faults>>

(***************************************************************************)
(* admit and _deliver.                                                     *)
(***************************************************************************)
Commit(r) ==
    /\ at[r] = "reserved"
    /\ Goto(r, "admitted")
    /\ UNCHANGED <<day, present, count, held, strays, broken, faults>>

\* Bug: the transaction rolls back and the unit is kept.
MutRollBack(r) ==
    /\ at[r] = "reserved"
    /\ Goto(r, "refused")
    /\ UNCHANGED <<day, present, count, held, strays, broken, faults>>
RollBack(r) ==
    /\ at[r] = "reserved"
    /\ Decr(r) /\ Goto(r, "refused")
    /\ UNCHANGED <<day, present, broken, faults>>

Publish(r) ==
    /\ at[r] = "admitted"
    /\ Goto(r, "sent")
    /\ UNCHANGED <<day, present, count, held, strays, broken, faults>>

\* The broker refuses the message, now or when the same run is delivered again later.
DispatchFails(r) ==
    /\ at[r] = "admitted"
    /\ Decr(r) /\ Goto(r, "returned")
    /\ UNCHANGED <<day, present, broken, faults>>

(***************************************************************************)
(* Faults.                                                                 *)
(***************************************************************************)
Fault(rs) == faults < MaxFaults /\ faults' = faults + 1 /\ broken' = broken \cup rs

\* A cache call raises before it has an effect: a reservation is refused, a unit to be
\* returned stays where it is.
CacheFails(r) ==
    /\ \/ at[r] \in {"idle", "incr", "over", "reserved"} /\ Goto(r, "refused")
       \/ at[r] = "admitted" /\ Goto(r, "returned")
    /\ Fault({r})
    /\ UNCHANGED <<day, present, count, held, strays>>

\* incr has an effect, and its answer is lost.
AnswerLost(r) ==
    /\ at[r] = "incr" /\ day \in present
    /\ Count(r, count[day] + 1) /\ Goto(r, "refused")
    /\ Fault({r})
    /\ UNCHANGED <<day, present, strays>>

\* The web process dies before the run is committed.
Die(r) ==
    /\ at[r] \in {"incr", "over", "reserved"}
    /\ Goto(r, "died")
    /\ Fault({r})
    /\ UNCHANGED <<day, present, count, held, strays>>

Evict(d) ==
    /\ d \in present
    /\ present' = present \ {d} /\ count' = [count EXCEPT ![d] = 0]
    /\ strays' = [strays EXCEPT ![d] = @ + count[d]]
    /\ Fault({r \in Requests : held[r] = d})
    /\ UNCHANGED <<day, at, held>>

Midnight ==
    /\ day < MaxDay /\ day' = day + 1
    /\ UNCHANGED <<present, count, at, held, strays, broken, faults>>

--------------------------------------------------------------------------------
Step(r) ==
    \/ Add(r) \/ Incr(r) \/ GiveBack(r)
    \/ Commit(r) \/ RollBack(r) \/ Publish(r) \/ DispatchFails(r)
    \/ CacheFails(r) \/ AnswerLost(r) \/ Die(r)

Next == (\E r \in Requests : Step(r)) \/ (\E d \in Days : Evict(d)) \/ Midnight

Spec == Init /\ [][Next]_vars

--------------------------------------------------------------------------------
\* Every variable keeps its type.
TypeOK ==
    /\ day \in Days /\ present \subseteq Days
    /\ count \in [Days -> Int] /\ strays \in [Days -> Int]
    /\ at \in [Requests -> Stages] /\ held \in [Requests -> Days \cup {Nowhere}]
    /\ broken \subseteq Requests /\ faults \in 0..MaxFaults

Holders(d) == {r \in Requests : held[r] = d}
Admitted(d) == {r \in Holders(d) : at[r] \in {"reserved", "admitted", "sent"}}

\* No more requests of an address are admitted in a day than the limit and, beyond it, one
\* for each unit that others took from the day's counter: a unit of an earlier day that
\* was returned after midnight, or a counter that was evicted.  Requests that overlap
\* between add, incr and decr admit none in excess.
DailyLimitPerIp == \A d \in Days : Cardinality(Admitted(d)) <= Limit + strays[d]

\* A request that was refused, or whose dispatch failed, has given its unit back, so that
\* it does not count against the address for the rest of the day; unless it met a
\* fault, or midnight passed in between.
UnitsReturned ==
    \A r \in Requests \ broken :
        at[r] \in {"refused", "returned"} /\ held[r] # Nowhere => held[r] < day
================================================================================
