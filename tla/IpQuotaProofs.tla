----------------------------- MODULE IpQuotaProofs -----------------------------
(***************************************************************************)
(* The daily limit of an address holds, and units are returned, for any    *)
(* number of requests, any limit and any number of days and faults.        *)
(*                                                                         *)
(* The argument counts: a day's counter is the number of requests that     *)
(* hold one of its units, less the units that others took.  A request is   *)
(* let in only when the counter it has just written is within the limit;   *)
(* every unit that leaves the counter later has lost its holder or is one  *)
(* more stray, so that the number let in keeps to the bound.               *)
(***************************************************************************)
EXTENDS IpQuota, FiniteSetTheorems, TLAPS

\* The counter of a day tells how many hold its units; without a key it is 0.
CounterCounts == \A d \in Days : count[d] = Cardinality(Holders(d)) - strays[d]
NoKeyIsZero == \A d \in Days \ present : count[d] = 0

\* Units are taken once per request and never from a later day; the key a unit was taken
\* from is there as long as its holder met no fault.
HeldUnits ==
    \A r \in Requests :
        /\ held[r] <= day
        /\ at[r] \in {"idle", "incr"} => held[r] = Nowhere
        /\ r \notin broken /\ held[r] # Nowhere => held[r] \in present

IpQuotaInv ==
    TypeOK /\ CounterCounts /\ NoKeyIsZero /\ HeldUnits /\ DailyLimitPerIp /\ UnitsReturned

--------------------------------------------------------------------------------
LEMMA DayBounds == Days \subseteq Int /\ 0 \in Days /\ Nowhere \in Int /\ \A d \in Days : Nowhere < d
  BY IpQuotaAssumption DEF Days, Nowhere

\* What holds units is a finite set of requests.
LEMMA SetBounds ==
  ASSUME NEW S \in SUBSET Requests
  PROVE  /\ IsFiniteSet(S) /\ Cardinality(S) \in Nat
         /\ \A T \in SUBSET S : Cardinality(T) \in Nat /\ Cardinality(T) <= Cardinality(S)
<1>1. IsFiniteSet(S)
  BY IpQuotaAssumption, FS_Subset
<1>2. Cardinality(S) \in Nat
  BY <1>1, FS_CardinalityType
<1>3. ASSUME NEW T \in SUBSET S
      PROVE  Cardinality(T) \in Nat /\ Cardinality(T) <= Cardinality(S)
  BY <1>1, FS_Subset, FS_CardinalityType
<1>. QED
  BY <1>1, <1>2, <1>3

LEMMA QuotaInit == Init => IpQuotaInv
<1>. SUFFICES ASSUME Init PROVE IpQuotaInv
  OBVIOUS
<1>1. TypeOK /\ NoKeyIsZero /\ HeldUnits /\ UnitsReturned
  BY DayBounds, IpQuotaAssumption
  DEF Init, TypeOK, NoKeyIsZero, HeldUnits, UnitsReturned, Stages, Nowhere
<1>2. ASSUME NEW d \in Days PROVE Holders(d) = {} /\ Admitted(d) = {}
  BY DayBounds DEF Init, Holders, Admitted
<1>3. CounterCounts /\ DailyLimitPerIp
  BY <1>2, FS_EmptySet, IpQuotaAssumption DEF Init, CounterCounts, DailyLimitPerIp
<1>. QED
  BY <1>1, <1>3 DEF IpQuotaInv

\* A request that holds no unit takes one of today's; it is let in only within the limit.
LEMMA TakeUnit ==
  ASSUME IpQuotaInv, NEW r \in Requests, held[r] = Nowhere,
         NEW s \in {"reserved", "over", "refused"}, Goto(r, s), Count(r, count[day] + 1),
         s = "reserved" => count[day] + 1 <= Limit,
         present' = present \cup {day}, UNCHANGED <<day, strays>>,
         broken' = (IF s = "refused" THEN broken \cup {r} ELSE broken),
         faults' \in 0..MaxFaults
  PROVE  IpQuotaInv'
<1>. USE DEF IpQuotaInv
<1>1. TypeOK' /\ NoKeyIsZero' /\ HeldUnits' /\ UnitsReturned'
  BY DayBounds DEF TypeOK, NoKeyIsZero, HeldUnits, UnitsReturned, Goto, Count, Stages
<1>2. Holders(day)' = Holders(day) \cup {r} /\ r \notin Holders(day)
  BY DayBounds DEF TypeOK, Holders, Count
<1>3. ASSUME NEW d \in Days, d # day
      PROVE  Holders(d)' = Holders(d) /\ Admitted(d)' = Admitted(d) /\ count'[d] = count[d]
  BY <1>3, DayBounds DEF TypeOK, Holders, Admitted, Count, Goto
<1>4. Cardinality(Holders(day)') = Cardinality(Holders(day)) + 1
  <2>1. IsFiniteSet(Holders(day))
    BY SetBounds DEF Holders
  <2>. QED
    BY <1>2, <2>1, FS_AddElement
<1>5. count'[day] = count[day] + 1 /\ day \in Days /\ day' = day
  BY DEF TypeOK, Count
<1>6. ASSUME NEW d \in Days
      PROVE  count'[d] = Cardinality(Holders(d)') - strays'[d]
  <2>1. CASE d = day
    BY <1>4, <1>5, <2>1, SetBounds DEF TypeOK, CounterCounts, Holders
  <2>2. CASE d # day
    BY <1>3, <2>2 DEF CounterCounts
  <2>. QED
    BY <2>1, <2>2
<1>7. ASSUME NEW d \in Days
      PROVE  Cardinality(Admitted(d)') <= Limit + strays'[d]
  <2>1. CASE d # day
    BY <1>3, <2>1 DEF DailyLimitPerIp
  <2>2. CASE d = day /\ s # "reserved"
    <3>1. Admitted(d)' = Admitted(d)
      BY <2>2, <1>2 DEF TypeOK, Holders, Admitted, Count, Goto
    <3>. QED
      BY <3>1 DEF DailyLimitPerIp
  <2>3. CASE d = day /\ s = "reserved"
    <3>1. Cardinality(Admitted(d)') <= Cardinality(Holders(d)')
      BY SetBounds DEF Admitted, Holders
    <3>2. Cardinality(Admitted(d)') \in Nat /\ Cardinality(Holders(d)') \in Nat
      BY SetBounds DEF Admitted, Holders
    <3>3. Cardinality(Holders(d)') = count'[d] + strays'[d] /\ count'[d] <= Limit
      BY <1>5, <1>6, <2>3, <3>2, IpQuotaAssumption DEF TypeOK
    <3>. QED
      BY <3>1, <3>2, <3>3, <2>3, <1>5, IpQuotaAssumption DEF TypeOK
  <2>. QED
    BY <2>1, <2>2, <2>3
<1>. QED
  BY <1>1, <1>6, <1>7 DEF CounterCounts, DailyLimitPerIp

\* A request ends and takes a unit from today's counter, its own or a stray one.
LEMMA ReturnUnit ==
  ASSUME IpQuotaInv, NEW r \in Requests, at[r] \notin {"idle", "incr"},
         NEW s \in {"refused", "returned"}, Goto(r, s), Decr(r),
         UNCHANGED <<day, present, broken, faults>>
  PROVE  IpQuotaInv'
<1>. USE DEF IpQuotaInv
<1>1. CASE day \notin present
  <2>1. UNCHANGED <<count, held, strays>>
    BY <1>1 DEF Decr
  <2>2. TypeOK' /\ NoKeyIsZero' /\ HeldUnits'
    BY <1>1, <2>1, DayBounds DEF TypeOK, NoKeyIsZero, HeldUnits, Goto, Stages
  <2>5. UnitsReturned'
    <3>0. held[r] \in Days \cup {Nowhere} /\ day \in Days
      BY DEF TypeOK
    <3>1. held[r] \in Int /\ day \in Int /\ (r \notin broken /\ held[r] # Nowhere => held[r] < day)
      <4>1. held[r] <= day /\ (r \notin broken /\ held[r] # Nowhere => held[r] \in present)
        BY DEF HeldUnits
      <4>2. held[r] \in Int /\ day \in Int
        BY <3>0, DayBounds
      <4>. QED
        BY <1>1, <4>1, <4>2
    <3>2. \A q \in Requests : q # r => at'[q] = at[q]
      BY DEF TypeOK, Goto
    <3>. QED
      BY <2>1, <3>1, <3>2 DEF UnitsReturned
  <2>3. ASSUME NEW d \in Days
        PROVE  Holders(d)' = Holders(d) /\ Admitted(d)' \in SUBSET Admitted(d)
    BY <2>1 DEF TypeOK, Holders, Admitted, Goto
  <2>4. ASSUME NEW d \in Days
        PROVE  Cardinality(Admitted(d)') <= Limit + strays'[d]
    <3>1. Cardinality(Admitted(d)') <= Cardinality(Admitted(d))
      BY <2>3, SetBounds DEF Admitted, Holders
    <3>2. Cardinality(Admitted(d)') \in Nat /\ Cardinality(Admitted(d)) \in Nat
      BY SetBounds DEF Admitted, Holders
    <3>. QED
      BY <2>1, <3>1, <3>2, IpQuotaAssumption DEF DailyLimitPerIp, TypeOK
  <2>. QED
    BY <2>1, <2>2, <2>3, <2>4, <2>5 DEF CounterCounts, DailyLimitPerIp
<1>2. CASE day \in present
  <2>0. held[r] \in Days \cup {Nowhere} /\ day \in Days /\ held[r] <= day
    BY DEF TypeOK, HeldUnits
  <2>1. TypeOK' /\ NoKeyIsZero' /\ HeldUnits' /\ UnitsReturned'
    <3>1. TypeOK' /\ NoKeyIsZero'
      BY <1>2, <2>0, DayBounds DEF TypeOK, NoKeyIsZero, Goto, Stages, Decr
    <3>2. HeldUnits'
      BY <1>2, <2>0, DayBounds DEF TypeOK, HeldUnits, Goto, Decr
    <3>3. held'[r] # Nowhere => held'[r] < day'
      <4>1. held[r] \in Int /\ day \in Int
        BY <2>0, DayBounds
      <4>. QED
        BY <1>2, <2>0, <4>1 DEF TypeOK, Decr
    <3>4. \A q \in Requests : q # r => at'[q] = at[q] /\ held'[q] = held[q]
      BY <1>2 DEF TypeOK, Goto, Decr
    <3>5. UnitsReturned'
      BY <3>3, <3>4 DEF UnitsReturned
    <3>. QED
      BY <3>1, <3>2, <3>5
  <2>2. day \in Days /\ count'[day] = count[day] - 1
    BY <1>2 DEF TypeOK, Decr
  <2>3. ASSUME NEW d \in Days, d # day
        PROVE  Holders(d)' = Holders(d) /\ count'[d] = count[d] /\ strays'[d] = strays[d]
    BY <1>2, <2>3, DayBounds DEF TypeOK, Holders, Decr
  <2>4. ASSUME NEW d \in Days
        PROVE  Admitted(d)' \in SUBSET Admitted(d)
    BY <1>2, DayBounds DEF TypeOK, Holders, Admitted, Goto, Decr
  <2>5. count'[day] = Cardinality(Holders(day)') - strays'[day] /\ strays'[day] >= strays[day]
    <3>1. CASE held[r] = day
      <4>1. Holders(day)' = Holders(day) \ {r} /\ r \in Holders(day)
        BY <1>2, <2>2, <3>1, DayBounds DEF TypeOK, Holders, Decr
      <4>2. IsFiniteSet(Holders(day)) /\ Cardinality(Holders(day)) \in Nat
        BY SetBounds DEF Holders
      <4>3. Cardinality(Holders(day)') = Cardinality(Holders(day)) - 1
        BY <4>1, <4>2, FS_RemoveElement
      <4>4. strays' = strays
        BY <1>2, <3>1 DEF Decr
      <4>. QED
        BY <2>2, <4>2, <4>3, <4>4 DEF TypeOK, CounterCounts
    <3>2. CASE held[r] # day
      <4>1. Holders(day)' = Holders(day) /\ strays'[day] = strays[day] + 1
        BY <1>2, <3>2 DEF TypeOK, Holders, Decr
      <4>2. Cardinality(Holders(day)) \in Nat
        BY SetBounds DEF Holders
      <4>. QED
        BY <2>2, <4>1, <4>2 DEF TypeOK, CounterCounts
    <3>. QED
      BY <3>1, <3>2
  <2>6. CounterCounts'
    BY <2>3, <2>5 DEF CounterCounts
  <2>7. ASSUME NEW d \in Days
        PROVE  Cardinality(Admitted(d)') <= Limit + strays'[d]
    <3>1. Cardinality(Admitted(d)') <= Cardinality(Admitted(d))
      BY <2>4, SetBounds DEF Admitted, Holders
    <3>2. Cardinality(Admitted(d)') \in Nat /\ Cardinality(Admitted(d)) \in Nat
      BY SetBounds DEF Admitted, Holders
    <3>3. strays'[d] >= strays[d] /\ strays[d] \in Int /\ strays'[d] \in Int
      BY <2>1, <2>3, <2>5 DEF TypeOK
    <3>. QED
      BY <3>1, <3>2, <3>3, IpQuotaAssumption DEF DailyLimitPerIp
  <2>. QED
    BY <2>1, <2>6, <2>7 DEF DailyLimitPerIp
<1>. QED
  BY <1>1, <1>2

\* A request goes on, or meets a fault, with whatever unit it has.
LEMMA UnitStays ==
  ASSUME IpQuotaInv, NEW r \in Requests, NEW s \in Stages, Goto(r, s),
         UNCHANGED <<day, present, count, held, strays>>,
         broken \subseteq broken', broken' \subseteq Requests, faults' \in 0..MaxFaults,
         s \in {"reserved", "admitted", "sent"} => at[r] \in {"reserved", "admitted", "sent"},
         s \in {"idle", "incr"} => held[r] = Nowhere,
         s \in {"refused", "returned"} => r \in broken' \/ held[r] = Nowhere
  PROVE  IpQuotaInv'
<1>. USE DEF IpQuotaInv
<1>1. TypeOK' /\ NoKeyIsZero' /\ HeldUnits' /\ UnitsReturned'
  BY DEF TypeOK, NoKeyIsZero, HeldUnits, UnitsReturned, Goto
<1>2. ASSUME NEW d \in Days
      PROVE  Holders(d)' = Holders(d) /\ Admitted(d)' \in SUBSET Admitted(d)
  BY DEF TypeOK, Holders, Admitted, Goto
<1>3. ASSUME NEW d \in Days
      PROVE  Cardinality(Admitted(d)') <= Limit + strays'[d]
  <2>1. Cardinality(Admitted(d)') <= Cardinality(Admitted(d))
    BY <1>2, SetBounds DEF Admitted, Holders
  <2>2. Cardinality(Admitted(d)') \in Nat /\ Cardinality(Admitted(d)) \in Nat
    BY SetBounds DEF Admitted, Holders
  <2>. QED
    BY <2>1, <2>2, IpQuotaAssumption DEF DailyLimitPerIp, TypeOK
<1>. QED
  BY <1>1, <1>2, <1>3 DEF CounterCounts, DailyLimitPerIp

\* An evicted counter starts from 0 again: its holders' units become strays.
LEMMA EvictStep ==
  ASSUME IpQuotaInv, NEW d \in Days, Evict(d)
  PROVE  IpQuotaInv'
<1>. USE DEF IpQuotaInv
<1>1. TypeOK' /\ NoKeyIsZero'
  BY IpQuotaAssumption DEF TypeOK, NoKeyIsZero, Evict, Fault
<1>2. HeldUnits' /\ UnitsReturned'
  BY DEF HeldUnits, UnitsReturned, Evict, Fault
<1>3. ASSUME NEW e \in Days
      PROVE  Holders(e)' = Holders(e) /\ Admitted(e)' = Admitted(e)
  BY DEF Holders, Admitted, Evict
<1>4. CounterCounts'
  <2>1. ASSUME NEW e \in Days
        PROVE  count'[e] = Cardinality(Holders(e)) - strays'[e]
    <3>1. Cardinality(Holders(e)) \in Nat
      BY SetBounds DEF Holders
    <3>. QED
      BY <3>1 DEF TypeOK, CounterCounts, Evict
  <2>. QED
    BY <1>3, <2>1 DEF CounterCounts
<1>5. ASSUME NEW e \in Days
      PROVE  Cardinality(Admitted(e)) <= Limit + strays'[e]
  <2>1. CASE e # d
    BY <2>1 DEF DailyLimitPerIp, TypeOK, Evict
  <2>2. CASE e = d
    <3>1. strays'[d] = Cardinality(Holders(d))
      <4>1. Cardinality(Holders(d)) \in Nat
        BY SetBounds DEF Holders
      <4>. QED
        BY <4>1 DEF TypeOK, CounterCounts, Evict
    <3>2. Cardinality(Admitted(d)) <= Cardinality(Holders(d))
      BY SetBounds DEF Admitted, Holders
    <3>3. Cardinality(Admitted(d)) \in Nat /\ Cardinality(Holders(d)) \in Nat
      BY SetBounds DEF Admitted, Holders
    <3>. QED
      BY <2>2, <3>1, <3>2, <3>3, IpQuotaAssumption
  <2>. QED
    BY <2>1, <2>2
<1>. QED
  BY <1>1, <1>2, <1>3, <1>4, <1>5 DEF DailyLimitPerIp

LEMMA MidnightStep == IpQuotaInv /\ Midnight => IpQuotaInv'
<1>. SUFFICES ASSUME IpQuotaInv, Midnight PROVE IpQuotaInv'
  OBVIOUS
<1>. USE DEF IpQuotaInv
<1>1. TypeOK' /\ NoKeyIsZero' /\ CounterCounts' /\ DailyLimitPerIp'
  BY IpQuotaAssumption
  DEF Midnight, TypeOK, NoKeyIsZero, CounterCounts, DailyLimitPerIp, Holders, Admitted, Days
<1>2. ASSUME NEW r \in Requests PROVE held[r] \in Int /\ day \in Int
  BY DayBounds DEF TypeOK
<1>3. HeldUnits' /\ UnitsReturned'
  BY <1>2 DEF Midnight, HeldUnits, UnitsReturned
<1>. QED
  BY <1>1, <1>3

LEMMA RequestStep ==
  ASSUME IpQuotaInv, NEW r \in Requests, Step(r)
  PROVE  IpQuotaInv'
<1>. USE DEF IpQuotaInv
<1>0. /\ day \in Days /\ count[day] \in Int /\ faults \in 0..MaxFaults /\ broken \subseteq Requests
      /\ at[r] \in {"idle", "incr"} => held[r] = Nowhere
      /\ day \notin present => count[day] = 0
  BY DEF TypeOK, HeldUnits, NoKeyIsZero
<1>1. CASE Add(r)
  <2>1. CASE day \in present
    BY <1>0, <1>1, <2>1, UnitStays DEF Add, Stages
  <2>2. CASE day \notin present
    BY <1>0, <1>1, <2>2, TakeUnit, IpQuotaAssumption DEF Add
  <2>. QED
    BY <2>1, <2>2
<1>2. CASE Incr(r)
  <2>1. CASE day \in present
    <3>1. present \cup {day} = present /\ UNCHANGED <<day, present, strays, broken, faults>>
      BY <1>2, <2>1 DEF Incr
    <3>2. CASE count[day] + 1 <= Limit
      BY <1>0, <1>2, <2>1, <3>1, <3>2, TakeUnit DEF Incr
    <3>3. CASE ~(count[day] + 1 <= Limit)
      BY <1>0, <1>2, <2>1, <3>1, <3>3, TakeUnit DEF Incr
    <3>. QED
      BY <3>2, <3>3
  <2>2. CASE day \notin present
    BY <1>0, <1>2, <2>2, UnitStays DEF Incr, Stages
  <2>. QED
    BY <2>1, <2>2
<1>3. CASE GiveBack(r)
  BY <1>3, ReturnUnit DEF GiveBack
<1>4. CASE Commit(r)
  BY <1>0, <1>4, UnitStays DEF Commit, Stages
<1>5. CASE RollBack(r)
  BY <1>5, ReturnUnit DEF RollBack
<1>6. CASE Publish(r)
  BY <1>0, <1>6, UnitStays DEF Publish, Stages
<1>7. CASE DispatchFails(r)
  BY <1>7, ReturnUnit DEF DispatchFails
<1>8. ASSUME Fault({r})
      PROVE  /\ broken' = broken \cup {r} /\ broken \subseteq broken' /\ broken' \subseteq Requests
             /\ faults' \in 0..MaxFaults
  BY <1>0, <1>8, IpQuotaAssumption DEF Fault
<1>9. CASE CacheFails(r)
  <2>1. PICK s \in {"refused", "returned"} : Goto(r, s)
    BY <1>9 DEF CacheFails
  <2>2. /\ broken' = broken \cup {r} /\ broken \subseteq broken' /\ broken' \subseteq Requests
        /\ faults' \in 0..MaxFaults
    BY <1>8, <1>9 DEF CacheFails
  <2>. QED
    BY <1>9, <2>1, <2>2, UnitStays DEF CacheFails, Stages
<1>10. CASE AnswerLost(r)
  <2>1. present \cup {day} = present
    BY <1>10 DEF AnswerLost
  <2>. QED
    BY <1>0, <1>8, <1>10, <2>1, TakeUnit DEF AnswerLost
<1>11. CASE Die(r)
  <2>1. /\ broken' = broken \cup {r} /\ broken \subseteq broken' /\ broken' \subseteq Requests
        /\ faults' \in 0..MaxFaults
    BY <1>8, <1>11 DEF Die
  <2>. QED
    BY <1>11, <2>1, UnitStays DEF Die, Stages
<1>. QED
  BY <1>1, <1>2, <1>3, <1>4, <1>5, <1>6, <1>7, <1>9, <1>10, <1>11 DEF Step

LEMMA QuotaStep == IpQuotaInv /\ [Next]_vars => IpQuotaInv'
<1>. SUFFICES ASSUME IpQuotaInv, [Next]_vars PROVE IpQuotaInv'
  OBVIOUS
<1>1. CASE UNCHANGED vars
  BY <1>1 DEF vars, IpQuotaInv, TypeOK, CounterCounts, NoKeyIsZero, HeldUnits,
              DailyLimitPerIp, UnitsReturned, Holders, Admitted
<1>. QED
  BY <1>1, RequestStep, EvictStep, MidnightStep DEF Next

\* The counter's bookkeeping, which every other fact rests on, always holds.
THEOREM QuotaInvariant == Spec => []IpQuotaInv
  BY QuotaInit, QuotaStep, PTL DEF Spec

\* Every variable keeps its type.
THEOREM IpQuotaTypeCorrect == Spec => []TypeOK
  BY QuotaInvariant, PTL DEF IpQuotaInv

\* However requests overlap between add, incr and decr, no more of an address are admitted
\* in a day than the limit and the units that others took from its counter.
THEOREM LimitPerIpHolds == Spec => []DailyLimitPerIp
  BY QuotaInvariant, PTL DEF IpQuotaInv

\* A request that was refused or could not be dispatched has given its unit back.
THEOREM UnitsAreReturned == Spec => []UnitsReturned
  BY QuotaInvariant, PTL DEF IpQuotaInv
================================================================================
