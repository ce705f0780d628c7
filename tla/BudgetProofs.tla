----------------------------- MODULE BudgetProofs -----------------------------
(***************************************************************************)
(* The daily budget holds and the books balance for any number of calls    *)
(* and days, any estimates and any budgets.                                *)
(***************************************************************************)
EXTENDS Budget, FiniteSetTheorems, TLAPS

LEMMA NonNegativeType ==
  ASSUME NEW x \in Int
  PROVE  NonNegative(x) \in Nat /\ (x >= 0 => NonNegative(x) = x) /\ (x < 0 => NonNegative(x) = 0)
  BY DEF NonNegative

\* What the two steps that take an estimate back leave of a day: at most what it had.
LEMMA TakingBack ==
  ASSUME NEW u \in Nat, NEW e \in Nat, NEW r \in 0..e
  PROVE  NonNegative(u - e + r) \in Nat /\ NonNegative(u - e + r) <= u
<1>1. u - e + r \in Int /\ u - e + r <= u
  OBVIOUS
<1>. QED
  BY <1>1, NonNegativeType

LEMMA DayZero == 0 \in Days
  BY BudgetAssumption DEF Days

\* A call that has been answered costs no more than its estimate.
AnsweredWithinEstimate == \A c \in Calls : stage[c] = "answered" => reported[c] <= held[c].cost

BudgetInv == TypeOK /\ AnsweredWithinEstimate /\ DailyBudgetHeld

LEMMA BudgetInit == Init => BudgetInv
  BY DayZero, BudgetAssumption
  DEF Init, BudgetInv, TypeOK, AnsweredWithinEstimate, DailyBudgetHeld, Stages

\* A step of one call that writes its day's row, and no more than the budget into it.
LEMMA BookingStep ==
  ASSUME BudgetInv, NEW c \in Calls, NEW s \in Stages \ {"answered"}, Goto(c, s),
         NEW v \in Nat, v <= DailyBudget, usage' = [usage EXCEPT ![held[c].day] = v],
         UNCHANGED <<day, held, reported>>
  PROVE  BudgetInv'
<1>1. held[c].day \in Days
  BY DEF BudgetInv, TypeOK
<1>2. TypeOK'
  BY <1>1 DEF BudgetInv, TypeOK, Goto
<1>3. AnsweredWithinEstimate'
  BY DEF BudgetInv, TypeOK, AnsweredWithinEstimate, Goto
<1>4. DailyBudgetHeld'
  BY <1>1 DEF BudgetInv, TypeOK, DailyBudgetHeld
<1>. QED
  BY <1>2, <1>3, <1>4 DEF BudgetInv

\* A step of one call that leaves the books alone.
LEMMA UnbookedStep ==
  ASSUME BudgetInv, NEW c \in Calls, NEW s \in Stages \ {"answered"}, Goto(c, s),
         held' \in [Calls -> [day: Days, cost: Nat]],
         \A b \in Calls \ {c} : held'[b] = held[b],
         UNCHANGED <<day, usage, reported>>
  PROVE  BudgetInv'
<1>1. TypeOK'
  BY DEF BudgetInv, TypeOK, Goto
<1>2. AnsweredWithinEstimate'
  BY DEF BudgetInv, TypeOK, AnsweredWithinEstimate, Goto
<1>3. DailyBudgetHeld'
  BY DEF BudgetInv, DailyBudgetHeld
<1>. QED
  BY <1>1, <1>2, <1>3 DEF BudgetInv

LEMMA BudgetStep == BudgetInv /\ [Next]_vars => BudgetInv'
<1>. SUFFICES ASSUME BudgetInv, [Next]_vars PROVE BudgetInv'
  OBVIOUS
<1>1. ASSUME NEW c \in Calls, EstimateQuestion(c) PROVE BudgetInv'
  <2>1. PICK e \in Costs : held' = [held EXCEPT ![c] = [day |-> day, cost |-> e]]
    BY <1>1 DEF EstimateQuestion
  <2>2. e \in Nat /\ day \in Days
    BY BudgetAssumption DEF BudgetInv, TypeOK
  <2>3. held' \in [Calls -> [day: Days, cost: Nat]] /\ \A b \in Calls \ {c} : held'[b] = held[b]
    BY <2>1, <2>2 DEF BudgetInv, TypeOK
  <2>4. PICK s \in {"allowed", "refused"} : Goto(c, s)
    BY <1>1 DEF EstimateQuestion
  <2>. QED
    BY <1>1, <2>3, <2>4, UnbookedStep DEF EstimateQuestion, Stages
<1>2. ASSUME NEW c \in Calls, ReadDate(c) PROVE BudgetInv'
  <2>1. held' \in [Calls -> [day: Days, cost: Nat]] /\ \A b \in Calls \ {c} : held'[b] = held[b]
    <3>1. CASE held' = [held EXCEPT ![c].day = day]
      BY <3>1 DEF BudgetInv, TypeOK
    <3>2. ASSUME NEW e \in Costs, held' = [held EXCEPT ![c] = [day |-> day, cost |-> e]]
          PROVE  held' \in [Calls -> [day: Days, cost: Nat]] /\ \A b \in Calls \ {c} : held'[b] = held[b]
      BY <3>2, BudgetAssumption DEF BudgetInv, TypeOK
    <3>. QED
      BY <1>2, <3>1, <3>2 DEF ReadDate
  <2>. QED
    BY <1>2, <2>1, UnbookedStep DEF ReadDate, Stages
<1>3. ASSUME NEW c \in Calls, Reserve(c) PROVE BudgetInv'
  <2> DEFINE sum == usage[held[c].day] + held[c].cost
  <2>1. sum \in Nat
    BY DEF BudgetInv, TypeOK
  <2>2. CASE sum > DailyBudget
    <3>1. Goto(c, "refused") /\ UNCHANGED <<day, usage, held, reported>>
      BY <1>3, <2>2 DEF Reserve
    <3>. QED
      BY <3>1, UnbookedStep DEF BudgetInv, TypeOK, Stages
  <2>3. CASE ~(sum > DailyBudget)
    <3>1. Goto(c, "reserved") /\ usage' = [usage EXCEPT ![held[c].day] = sum] /\ UNCHANGED <<day, held, reported>>
      BY <1>3, <2>3 DEF Reserve
    <3>2. sum <= DailyBudget
      BY <2>1, <2>3, BudgetAssumption
    <3>. QED
      BY <2>1, <3>1, <3>2, BookingStep DEF Stages
  <2>. QED
    BY <2>2, <2>3
<1>4. ASSUME NEW c \in Calls, Answer(c) PROVE BudgetInv'
  <2>1. PICK r \in 0..held[c].cost : reported' = [reported EXCEPT ![c] = r]
    BY <1>4 DEF Answer
  <2>2. r \in Nat /\ r <= held[c].cost
    BY <2>1 DEF BudgetInv, TypeOK
  <2>3. TypeOK'
    BY <1>4, <2>1, <2>2 DEF Answer, BudgetInv, TypeOK, Goto, Stages
  <2>4. AnsweredWithinEstimate'
    BY <1>4, <2>1, <2>2 DEF Answer, BudgetInv, TypeOK, Goto, AnsweredWithinEstimate
  <2>5. DailyBudgetHeld'
    BY <1>4 DEF Answer, BudgetInv, DailyBudgetHeld
  <2>. QED
    BY <2>3, <2>4, <2>5 DEF BudgetInv
<1>5. ASSUME NEW c \in Calls, Finalize(c) PROVE BudgetInv'
  <2> DEFINE old == usage[held[c].day]
             new == NonNegative(old - held[c].cost + reported[c])
  <2>1. old \in Nat /\ held[c].cost \in Nat /\ reported[c] \in 0..held[c].cost /\ old <= DailyBudget
    BY <1>5 DEF Finalize, BudgetInv, TypeOK, AnsweredWithinEstimate, DailyBudgetHeld
  <2>2. new \in Nat /\ new <= old
    BY <2>1, TakingBack
  <2>3. new <= DailyBudget
    BY <2>1, <2>2, BudgetAssumption
  <2>4. Goto(c, "finalized") /\ usage' = [usage EXCEPT ![held[c].day] = new] /\ UNCHANGED <<day, held, reported>>
    BY <1>5 DEF Finalize
  <2>. QED
    BY <2>2, <2>3, <2>4, BookingStep DEF Stages
<1>6. ASSUME NEW c \in Calls, Release(c) PROVE BudgetInv'
  <2> DEFINE old == usage[held[c].day]
             new == NonNegative(old - held[c].cost)
  <2>1. old \in Nat /\ held[c].cost \in Nat /\ old <= DailyBudget
    BY <1>6 DEF BudgetInv, TypeOK, DailyBudgetHeld
  <2>2. old - held[c].cost = old - held[c].cost + 0 /\ 0 \in 0..held[c].cost
    BY <2>1
  <2>3. new \in Nat /\ new <= old
    BY <2>1, <2>2, TakingBack
  <2>4. new <= DailyBudget
    BY <2>1, <2>3, BudgetAssumption
  <2>5. Goto(c, "released") /\ usage' = [usage EXCEPT ![held[c].day] = new] /\ UNCHANGED <<day, held, reported>>
    BY <1>6 DEF Release
  <2>. QED
    BY <2>3, <2>4, <2>5, BookingStep DEF Stages
<1>7. ASSUME NEW c \in Calls, Crash(c) PROVE BudgetInv'
  <2>1. PICK s \in {"crashed", "refused"} : Goto(c, s)
    BY <1>7 DEF Crash
  <2>2. UNCHANGED <<day, usage, held, reported>>
    BY <1>7 DEF Crash
  <2>. QED
    BY <2>1, <2>2, UnbookedStep DEF BudgetInv, TypeOK, Stages
<1>8. CASE Midnight
  <2>1. day' \in Days
    BY <1>8, BudgetAssumption DEF Midnight, BudgetInv, TypeOK, Days
  <2>. QED
    BY <1>8, <2>1 DEF Midnight, BudgetInv, TypeOK, AnsweredWithinEstimate, DailyBudgetHeld
<1>9. CASE UNCHANGED vars
  BY <1>9 DEF vars, BudgetInv, TypeOK, AnsweredWithinEstimate, DailyBudgetHeld
<1>. QED
  BY <1>1, <1>2, <1>3, <1>4, <1>5, <1>6, <1>7, <1>8, <1>9 DEF Next

\* Costs stay natural numbers and every reservation keeps a day of the month.
THEOREM TypeCorrect == Spec => []TypeOK
<1>1. BudgetInv => TypeOK
  BY DEF BudgetInv
<1>. QED
  BY <1>1, BudgetInit, BudgetStep, PTL DEF Spec

\* What is reserved and spent of a day never exceeds the daily budget, whichever calls
\* overlap, fail, crash or are booked after midnight.
THEOREM BudgetIsNeverExceeded == Spec => []DailyBudgetHeld
<1>1. BudgetInv => DailyBudgetHeld
  BY DEF BudgetInv
<1>. QED
  BY <1>1, BudgetInit, BudgetStep, PTL DEF Spec

(***************************************************************************)
(* Sums over finite sets.  The sum of the books is a recursive function on *)
(* the subsets of a set, given by CHOOSE: that such a function exists, and *)
(* what it is when one element changes, is shown by induction on the size  *)
(* of the subsets.  The induction is on a set of numbers, not on a formula.*)
(***************************************************************************)
LEMMA Everything ==
  ASSUME NEW A \in SUBSET Nat, 0 \in A, \A n \in A : n + 1 \in A
  PROVE  A = Nat
<1>. DEFINE R == {ss \in Nat \X Nat : ss[1] < ss[2]}
            T == Nat \ A
<1>. SUFFICES ASSUME T # {} PROVE FALSE
  OBVIOUS
<1>1. IsWellFoundedOn(R, Nat)
  BY NatLessThanWellFounded DEF OpToRel
<1>2. ASSUME NEW m \in Nat, NEW k \in Nat, k < m PROVE <<k, m>> \in R
  BY <1>2
<1>. HIDE DEF R
<1>3. PICK m \in T : \A k \in T : ~ (<<k, m>> \in R)
  BY <1>1, WFMin
<1>4. m - 1 \in Nat /\ m - 1 < m /\ (m - 1) + 1 = m
  BY <1>3
<1>5. m - 1 \notin T
  BY <1>2, <1>3, <1>4
<1>. QED
  BY <1>3, <1>4, <1>5

Chosen(s) == CHOOSE x \in s : TRUE
\* g is the sum of F over every subset of S: Total is what MapThenSumSet computes.
Adds(g, F, s) == g[s] = IF s = {} THEN 0 ELSE F[Chosen(s)] + g[s \ {Chosen(s)}]
IsTotal(g, F, S) == g = [s \in SUBSET S |-> IF s = {} THEN 0 ELSE F[Chosen(s)] + g[s \ {Chosen(s)}]]
Total(F, S) == (CHOOSE g : IsTotal(g, F, S))[S]

LEMMA ChosenIsIn ==
  ASSUME NEW s, s # {}
  PROVE  Chosen(s) \in s
  BY DEF Chosen

\* Taking an element from a finite set leaves one element less.
LEMMA OneLess ==
  ASSUME NEW S, IsFiniteSet(S), NEW s \in SUBSET S, NEW x \in s
  PROVE  /\ IsFiniteSet(s) /\ Cardinality(s) \in Nat \ {0} /\ s \ {x} \in SUBSET S
         /\ Cardinality(s \ {x}) = Cardinality(s) - 1
<1>1. IsFiniteSet(s)
  BY FS_Subset
<1>2. IsFiniteSet(s \ {x}) /\ Cardinality(s \ {x}) = Cardinality(s) - 1
  BY <1>1, FS_RemoveElement
<1>3. Cardinality(s) \in Nat /\ Cardinality(s \ {x}) \in Nat
  BY <1>1, <1>2, FS_CardinalityType
<1>. QED
  BY <1>1, <1>2, <1>3

\* A sum exists: it is built up on larger and larger subsets.
LEMMA TotalExists ==
  ASSUME NEW F, NEW S, IsFiniteSet(S)
  PROVE  \E g : IsTotal(g, F, S)
<1>. DEFINE Small(n) == {s \in SUBSET S : Cardinality(s) <= n}
            A == {n \in Nat : \E g : \A s \in Small(n) : Adds(g, F, s)}
<1>1. 0 \in A
  <2>1. \A s \in Small(0) : s = {}
    <3>. SUFFICES ASSUME NEW s \in Small(0), s # {} PROVE FALSE
      OBVIOUS
    <3>1. Chosen(s) \in s
      BY ChosenIsIn
    <3>2. Cardinality(s) \in Nat \ {0} /\ Cardinality(s) <= 0
      BY <3>1, OneLess
    <3>. QED
      BY <3>2
  <2>. DEFINE g == [s \in SUBSET S |-> 0]
  <2>2. \A s \in Small(0) : Adds(g, F, s)
    BY <2>1 DEF Adds
  <2>. QED
    BY <2>2
<1>2. ASSUME NEW n \in A PROVE n + 1 \in A
  <2>1. PICK g : \A s \in Small(n) : Adds(g, F, s)
    OBVIOUS
  <2>. DEFINE h == [s \in SUBSET S |-> IF s \in Small(n) THEN g[s] ELSE F[Chosen(s)] + g[s \ {Chosen(s)}]]
  <2>2. ASSUME NEW s \in Small(n + 1) PROVE Adds(h, F, s)
    <3>1. CASE s = {}
      <4>1. s \in Small(n)
        BY <3>1, FS_EmptySet
      <4>. QED
        BY <2>1, <3>1, <4>1 DEF Adds
    <3>2. CASE s # {}
      <4> DEFINE c == Chosen(s)
      <4>1. c \in s
        BY <3>2, ChosenIsIn
      <4>. HIDE DEF c
      <4>2. s \ {c} \in SUBSET S /\ Cardinality(s \ {c}) = Cardinality(s) - 1 /\ Cardinality(s) \in Nat
        BY <4>1, OneLess
      <4>3. s \ {c} \in Small(n)
        BY <4>2
      <4>4. h[s \ {c}] = g[s \ {c}]
        BY <4>3
      <4>5. s \in Small(n) => g[s] = F[c] + g[s \ {c}]
        BY <2>1, <3>2 DEF Adds, c
      <4>6. h[s] = F[c] + g[s \ {c}]
        BY <4>5 DEF c
      <4>. QED
        BY <3>2, <4>4, <4>6 DEF Adds, c
    <3>. QED
      BY <3>1, <3>2
  <2>. HIDE DEF h
  <2>. QED
    BY <2>2
<1>3. A = Nat
  <2>. HIDE DEF A
  <2>1. A \in SUBSET Nat
    BY DEF A
  <2>. QED
    BY <1>1, <1>2, <2>1, Everything
<1>4. Cardinality(S) \in Nat
  BY FS_CardinalityType
<1>5. PICK g : \A s \in Small(Cardinality(S)) : Adds(g, F, s)
  BY <1>3, <1>4
<1>6. \A s \in SUBSET S : Adds(g, F, s)
  BY <1>5, FS_Subset
<1>. DEFINE G == [s \in SUBSET S |-> g[s]]
<1>7. ASSUME NEW s \in SUBSET S PROVE G[s] = IF s = {} THEN 0 ELSE F[Chosen(s)] + G[s \ {Chosen(s)}]
  BY <1>6 DEF Adds
<1>8. G = [s \in SUBSET S |-> IF s = {} THEN 0 ELSE F[Chosen(s)] + G[s \ {Chosen(s)}]]
  BY <1>7
<1>. HIDE DEF G
<1>. QED
  BY <1>8 DEF IsTotal

\* The sum as its two cases, and its type.
LEMMA TotalOf ==
  ASSUME NEW F, NEW S, IsFiniteSet(S)
  PROVE  \E g : Total(F, S) = g[S] /\ \A s \in SUBSET S : Adds(g, F, s)
<1>1. PICK g : g = (CHOOSE h : IsTotal(h, F, S))
  OBVIOUS
<1>2. IsTotal(g, F, S)
  BY <1>1, TotalExists
<1>3. \A s \in SUBSET S : Adds(g, F, s)
  BY <1>2 DEF IsTotal, Adds
<1>. QED
  BY <1>1, <1>3 DEF Total

LEMMA AddsType ==
  ASSUME NEW F, NEW S, IsFiniteSet(S), \A c \in S : F[c] \in Nat, NEW g, \A s \in SUBSET S : Adds(g, F, s)
  PROVE  \A s \in SUBSET S : g[s] \in Nat
<1>. DEFINE A == {n \in Nat : \A s \in SUBSET S : Cardinality(s) = n => g[s] \in Nat}
<1>0. ASSUME NEW s \in SUBSET S, s # {}, g[s \ {Chosen(s)}] \in Nat PROVE g[s] \in Nat
  <2>1. Chosen(s) \in S /\ g[s] = F[Chosen(s)] + g[s \ {Chosen(s)}]
    BY <1>0, ChosenIsIn DEF Adds
  <2>. QED
    BY <1>0, <2>1
<1>1. 0 \in A
  <2>. SUFFICES ASSUME NEW s \in SUBSET S, Cardinality(s) = 0 PROVE g[s] \in Nat
    OBVIOUS
  <2>1. s = {}
    BY ChosenIsIn, OneLess
  <2>. QED
    BY <2>1 DEF Adds
<1>2. ASSUME NEW n \in A PROVE n + 1 \in A
  <2>. SUFFICES ASSUME NEW s \in SUBSET S, Cardinality(s) = n + 1 PROVE g[s] \in Nat
    OBVIOUS
  <2>1. s # {}
    BY FS_EmptySet
  <2>2. Chosen(s) \in s
    BY <2>1, ChosenIsIn
  <2>3. s \ {Chosen(s)} \in SUBSET S /\ Cardinality(s \ {Chosen(s)}) = n
    BY <2>2, OneLess
  <2>. QED
    BY <1>0, <2>1, <2>3
<1>3. A = Nat
  <2>. HIDE DEF A
  <2>1. A \in SUBSET Nat
    BY DEF A
  <2>. QED
    BY <1>1, <1>2, <2>1, Everything
<1>4. \A s \in SUBSET S : Cardinality(s) \in Nat
  BY FS_Subset, FS_CardinalityType
<1>. QED
  BY <1>3, <1>4

\* Any element may be taken out of a sum, not only the chosen one.
LEMMA TakeOut ==
  ASSUME NEW F, NEW S, IsFiniteSet(S), \A c \in S : F[c] \in Nat, NEW g, \A s \in SUBSET S : Adds(g, F, s)
  PROVE  \A s \in SUBSET S : \A x \in s : g[s] = F[x] + g[s \ {x}]
<1>. DEFINE A == {n \in Nat : \A s \in SUBSET S : Cardinality(s) = n => \A x \in s : g[s] = F[x] + g[s \ {x}]}
<1>0. \A s \in SUBSET S : g[s] \in Nat
  BY AddsType
<1>1. 0 \in A
  BY OneLess
<1>2. ASSUME NEW n \in A PROVE n + 1 \in A
  <2>. SUFFICES ASSUME NEW s \in SUBSET S, Cardinality(s) = n + 1, NEW x \in s PROVE g[s] = F[x] + g[s \ {x}]
    OBVIOUS
  <2>. DEFINE y == Chosen(s)
  <2>1. y \in s /\ g[s] = F[y] + g[s \ {y}]
    BY ChosenIsIn DEF Adds
  <2>. HIDE DEF y
  <2>2. CASE x = y
    BY <2>1, <2>2
  <2>3. CASE x # y
    <3>1. /\ s \ {x} \in SUBSET S /\ Cardinality(s \ {x}) = n /\ y \in s \ {x}
          /\ s \ {y} \in SUBSET S /\ Cardinality(s \ {y}) = n /\ x \in s \ {y}
      BY <2>1, <2>3, OneLess
    <3>2. g[s \ {x}] = F[y] + g[(s \ {x}) \ {y}] /\ g[s \ {y}] = F[x] + g[(s \ {y}) \ {x}]
      BY <3>1
    <3>3. (s \ {x}) \ {y} = (s \ {y}) \ {x} /\ (s \ {x}) \ {y} \in SUBSET S
      OBVIOUS
    <3>4. F[x] \in Nat /\ F[y] \in Nat /\ g[(s \ {x}) \ {y}] \in Nat
      BY <1>0, <2>1, <3>3
    <3>. DEFINE z == g[(s \ {x}) \ {y}]
    <3>5. g[s] = F[y] + (F[x] + z) /\ g[s \ {x}] = F[y] + z
      BY <2>1, <3>2, <3>3
    <3>. HIDE DEF z
    <3>6. F[y] + (F[x] + z) = F[x] + (F[y] + z)
      BY <3>4 DEF z
    <3>. QED
      BY <3>5, <3>6
  <2>. QED
    BY <2>2, <2>3
<1>3. A = Nat
  <2>. HIDE DEF A
  <2>1. A \in SUBSET Nat
    BY DEF A
  <2>. QED
    BY <1>1, <1>2, <2>1, Everything
<1>4. \A s \in SUBSET S : Cardinality(s) \in Nat
  BY FS_Subset, FS_CardinalityType
<1>. QED
  BY <1>3, <1>4

\* Two sums agree where the summands do.
LEMMA SameSum ==
  ASSUME NEW F, NEW G, NEW R, IsFiniteSet(R), \A c \in R : F[c] = G[c],
         NEW g, \A s \in SUBSET R : Adds(g, F, s), NEW h, \A s \in SUBSET R : Adds(h, G, s)
  PROVE  g[R] = h[R]
<1>. DEFINE A == {n \in Nat : \A s \in SUBSET R : Cardinality(s) = n => g[s] = h[s]}
<1>1. 0 \in A
  <2>. SUFFICES ASSUME NEW s \in SUBSET R, Cardinality(s) = 0 PROVE g[s] = h[s]
    OBVIOUS
  <2>1. s = {}
    BY ChosenIsIn, OneLess
  <2>. QED
    BY <2>1 DEF Adds
<1>2. ASSUME NEW n \in A PROVE n + 1 \in A
  <2>. SUFFICES ASSUME NEW s \in SUBSET R, Cardinality(s) = n + 1 PROVE g[s] = h[s]
    OBVIOUS
  <2>1. s # {}
    BY FS_EmptySet
  <2>2. Chosen(s) \in s
    BY <2>1, ChosenIsIn
  <2>3. s \ {Chosen(s)} \in SUBSET R /\ Cardinality(s \ {Chosen(s)}) = n
    BY <2>2, OneLess
  <2>4. g[s \ {Chosen(s)}] = h[s \ {Chosen(s)}] /\ F[Chosen(s)] = G[Chosen(s)]
    BY <2>2, <2>3
  <2>. QED
    BY <2>1, <2>4 DEF Adds
<1>3. A = Nat
  <2>. HIDE DEF A
  <2>1. A \in SUBSET Nat
    BY DEF A
  <2>. QED
    BY <1>1, <1>2, <2>1, Everything
<1>4. Cardinality(R) \in Nat
  BY FS_CardinalityType
<1>. QED
  BY <1>3, <1>4

\* What one element contributes to a sum.
Share(F, S, x) == IF x \in S THEN F[x] ELSE 0

LEMMA TotalSplits ==
  ASSUME NEW F, NEW S, IsFiniteSet(S), \A c \in S : F[c] \in Nat, NEW x, NEW R, R = S \ {x}
  PROVE  \E g : /\ Total(F, S) = Share(F, S, x) + g[R] /\ g[R] \in Nat
                /\ \A s \in SUBSET R : Adds(g, F, s)
<1>1. PICK g : Total(F, S) = g[S] /\ \A s \in SUBSET S : Adds(g, F, s)
  BY TotalOf
<1>2. \A s \in SUBSET S : g[s] \in Nat
  BY <1>1, AddsType
<1>3. R \in SUBSET S /\ S \in SUBSET S /\ (x \notin S => R = S)
  OBVIOUS
<1>4. g[S] = Share(F, S, x) + g[R]
  <2>1. CASE x \in S
    BY <1>1, <1>3, <2>1, TakeOut DEF Share
  <2>2. CASE x \notin S
    <3>1. R = S /\ g[S] \in Nat
      BY <1>2, <1>3, <2>2
    <3>2. g[S] = 0 + g[S]
      BY <3>1
    <3>. QED
      BY <2>2, <3>1, <3>2 DEF Share
  <2>. QED
    BY <2>1, <2>2
<1>. QED
  BY <1>1, <1>2, <1>3, <1>4

\* Two sums that differ in one element differ by what it contributes.
LEMMA TotalChanges ==
  ASSUME NEW F, NEW S, IsFiniteSet(S), \A c \in S : F[c] \in Nat,
         NEW G, NEW T, IsFiniteSet(T), \A c \in T : G[c] \in Nat,
         NEW x, S \ {x} = T \ {x}, \A c \in S \ {x} : F[c] = G[c]
  PROVE  \E rest \in Nat : Total(F, S) = Share(F, S, x) + rest /\ Total(G, T) = Share(G, T, x) + rest
<1>1. PICK R : R = S \ {x}
  OBVIOUS
<1>2. R = T \ {x}
  BY <1>1
<1>3. PICK g : /\ Total(F, S) = Share(F, S, x) + g[R] /\ g[R] \in Nat
               /\ \A s \in SUBSET R : Adds(g, F, s)
  BY <1>1, TotalSplits
<1>4. PICK h : /\ Total(G, T) = Share(G, T, x) + h[R]
               /\ \A s \in SUBSET R : Adds(h, G, s)
  BY <1>2, TotalSplits
<1>5. IsFiniteSet(R) /\ \A c \in R : F[c] = G[c]
  BY <1>1, FS_RemoveElement
<1>6. g[R] = h[R]
  BY <1>3, <1>4, <1>5, SameSum
<1>. QED
  BY <1>3, <1>4, <1>6

\* A sum of zeros is zero.
LEMMA TotalOfNothing ==
  ASSUME NEW F, NEW S, IsFiniteSet(S), \A c \in S : F[c] = 0
  PROVE  Total(F, S) = 0
<1>1. PICK g : Total(F, S) = g[S] /\ \A s \in SUBSET S : Adds(g, F, s)
  BY TotalOf
<1>. DEFINE A == {n \in Nat : \A s \in SUBSET S : Cardinality(s) = n => g[s] = 0}
<1>2. 0 \in A
  <2>. SUFFICES ASSUME NEW s \in SUBSET S, Cardinality(s) = 0 PROVE g[s] = 0
    OBVIOUS
  <2>1. s = {}
    BY ChosenIsIn, OneLess
  <2>. QED
    BY <1>1, <2>1 DEF Adds
<1>3. ASSUME NEW n \in A PROVE n + 1 \in A
  <2>. SUFFICES ASSUME NEW s \in SUBSET S, Cardinality(s) = n + 1 PROVE g[s] = 0
    OBVIOUS
  <2>1. s # {}
    BY FS_EmptySet
  <2>2. Chosen(s) \in s
    BY <2>1, ChosenIsIn
  <2>3. s \ {Chosen(s)} \in SUBSET S /\ Cardinality(s \ {Chosen(s)}) = n
    BY <2>2, OneLess
  <2>4. g[s \ {Chosen(s)}] = 0 /\ F[Chosen(s)] = 0
    BY <2>2, <2>3
  <2>. QED
    BY <1>1, <2>1, <2>4 DEF Adds
<1>4. A = Nat
  <2>. HIDE DEF A
  <2>1. A \in SUBSET Nat
    BY DEF A
  <2>. QED
    BY <1>2, <1>3, <2>1, Everything
<1>5. Cardinality(S) \in Nat
  BY FS_CardinalityType
<1>. QED
  BY <1>1, <1>4, <1>5

\* What each call has on the books, as a function, and the day that it is booked on.
ChargeOf == [c \in Calls |-> Charge(c)]
OnDay(d) == {c \in Calls : held[c].day = d}
Booked(d) == Total(ChargeOf, OnDay(d))
Part(c, d) == IF held[c].day = d THEN Charge(c) ELSE 0
Balanced == \A d \in Days : usage[d] = Booked(d)

\* The sum of the model is the sum of these lemmas.
LEMMA SumsAgree ==
  ASSUME NEW S \in SUBSET Calls
  PROVE  MapThenSumSet(Charge, S) = Total(ChargeOf, S)
<1>. DEFINE P(g) == g = [s \in SUBSET S |-> IF s = {} THEN 0 ELSE Charge(Chosen(s)) + g[s \ {Chosen(s)}]]
<1>1. MapThenSumSet(Charge, S) = (CHOOSE g : P(g))[S]
  BY DEF MapThenSumSet, MapThenFoldSet, Chosen
<1>2. ASSUME NEW s \in SUBSET S, s # {} PROVE Charge(Chosen(s)) = ChargeOf[Chosen(s)]
  BY <1>2, ChosenIsIn DEF ChargeOf
<1>3. \A g : P(g) <=> IsTotal(g, ChargeOf, S)
  BY <1>2 DEF IsTotal
<1>. QED
  BY <1>1, <1>3 DEF Total

LEMMA BalancedIsBooksBalance == Balanced <=> BooksBalance
<1>1. ASSUME NEW d PROVE MapThenSumSet(Charge, {c \in Calls : held[c].day = d}) = Booked(d)
  <2>1. OnDay(d) \in SUBSET Calls
    BY DEF OnDay
  <2>. QED
    BY <2>1, SumsAgree DEF OnDay, Booked
<1>. QED
  BY <1>1 DEF Balanced, BooksBalance

LEMMA ChargeType ==
  ASSUME TypeOK, NEW c \in Calls
  PROVE  Charge(c) \in Nat
  BY DEF TypeOK, Charge

LEMMA OnDayIsFinite ==
  ASSUME NEW d
  PROVE  IsFiniteSet(OnDay(d))
  BY BudgetAssumption, FS_Subset DEF OnDay

\* A step that concerns one call changes a day by what that call has on it.
LEMMA OneCallMoves ==
  ASSUME TypeOK, TypeOK', NEW c \in Calls, NEW d,
         \A b \in Calls \ {c} : held'[b] = held[b] /\ stage'[b] = stage[b] /\ reported'[b] = reported[b]
  PROVE  \E rest \in Nat : Booked(d) = Part(c, d) + rest /\ Booked(d)' = Part(c, d)' + rest
<1>1. IsFiniteSet(OnDay(d)) /\ \A b \in OnDay(d) : ChargeOf[b] \in Nat
  BY OnDayIsFinite, ChargeType DEF OnDay, ChargeOf
<1>2. IsFiniteSet(OnDay(d)')
  BY BudgetAssumption, FS_Subset DEF OnDay
<1>3. \A b \in Calls : ChargeOf'[b] \in Nat
  BY DEF TypeOK, Charge, ChargeOf
<1>4. \A b \in OnDay(d)' : ChargeOf'[b] \in Nat
  BY <1>3 DEF OnDay
<1>5. OnDay(d) \ {c} = OnDay(d)' \ {c}
  BY DEF OnDay
<1>6. \A b \in OnDay(d) \ {c} : ChargeOf[b] = ChargeOf'[b]
  BY DEF OnDay, ChargeOf, Charge
<1>7. \E rest \in Nat : /\ Total(ChargeOf, OnDay(d)) = Share(ChargeOf, OnDay(d), c) + rest
                        /\ Total(ChargeOf', OnDay(d)') = Share(ChargeOf', OnDay(d)', c) + rest
  BY <1>1, <1>2, <1>4, <1>5, <1>6, TotalChanges
<1>8. Share(ChargeOf, OnDay(d), c) = Part(c, d) /\ Share(ChargeOf', OnDay(d)', c) = Part(c, d)'
  BY DEF Share, OnDay, ChargeOf, Part
<1>. QED
  BY <1>7, <1>8 DEF Booked

\* A step that leaves the row and what the call has on each day keeps the balance.
LEMMA BooksUntouched ==
  ASSUME TypeOK, TypeOK', Balanced, NEW c \in Calls, UNCHANGED usage,
         \A b \in Calls \ {c} : held'[b] = held[b] /\ stage'[b] = stage[b] /\ reported'[b] = reported[b],
         Charge(c)' = Charge(c), Charge(c) = 0 \/ held'[c] = held[c]
  PROVE  Balanced'
<1>. SUFFICES ASSUME NEW d \in Days PROVE usage'[d] = Booked(d)'
  BY DEF Balanced, Days
<1>1. Part(c, d)' = Part(c, d)
  BY DEF Part
<1>2. Booked(d)' = Booked(d)
  BY <1>1, OneCallMoves
<1>. QED
  BY <1>2 DEF Balanced

\* A step that writes into the row of the call's day what the call's charge gains or loses.
LEMMA BooksMove ==
  ASSUME TypeOK, TypeOK', Balanced, NEW c \in Calls, UNCHANGED <<held, reported>>,
         \A b \in Calls \ {c} : stage'[b] = stage[b], NEW v,
         usage' = [usage EXCEPT ![held[c].day] = v],
         \A rest \in Nat : usage[held[c].day] = Charge(c) + rest => v = Charge(c)' + rest
  PROVE  Balanced'
<1>. SUFFICES ASSUME NEW d \in Days PROVE usage'[d] = Booked(d)'
  BY DEF Balanced, Days
<1>1. PICK rest \in Nat : Booked(d) = Part(c, d) + rest /\ Booked(d)' = Part(c, d)' + rest
  BY OneCallMoves
<1>2. usage[d] = Part(c, d) + rest
  BY <1>1 DEF Balanced
<1>3. CASE held[c].day = d
  <2>1. Part(c, d) = Charge(c) /\ Part(c, d)' = Charge(c)' /\ usage'[d] = v
    BY <1>3 DEF Part, TypeOK
  <2>. QED
    BY <1>1, <1>2, <1>3, <2>1
<1>4. CASE held[c].day # d
  <2>1. Part(c, d) = 0 /\ Part(c, d)' = 0 /\ usage'[d] = usage[d]
    BY <1>4 DEF Part, TypeOK
  <2>. QED
    BY <1>1, <1>2, <2>1
<1>. QED
  BY <1>3, <1>4

\* Nothing is booked before a call has reserved.
LEMMA BalanceInit == Init => Balanced
<1>. SUFFICES ASSUME Init, NEW d \in Days PROVE usage[d] = Booked(d)
  BY DEF Balanced
<1>1. \A c \in OnDay(d) : ChargeOf[c] = 0
  BY DEF Init, OnDay, ChargeOf, Charge
<1>2. Total(ChargeOf, OnDay(d)) = 0
  BY <1>1, OnDayIsFinite, TotalOfNothing
<1>. QED
  BY <1>2 DEF Init, Booked

BooksInv == BudgetInv /\ Balanced

LEMMA BalanceStep == BooksInv /\ BudgetInv' /\ [Next]_vars => Balanced'
<1>. SUFFICES ASSUME BudgetInv, Balanced, BudgetInv', [Next]_vars PROVE Balanced'
  BY DEF BooksInv
<1>0. TypeOK /\ TypeOK'
  BY DEF BudgetInv
<1>1. ASSUME NEW c \in Calls, EstimateQuestion(c) PROVE Balanced'
  <2>1. \A b \in Calls \ {c} : held'[b] = held[b] /\ stage'[b] = stage[b] /\ reported'[b] = reported[b]
    BY <1>0, <1>1 DEF EstimateQuestion, TypeOK, Goto
  <2>2. Charge(c) = 0 /\ Charge(c)' = 0
    BY <1>0, <1>1 DEF EstimateQuestion, TypeOK, Goto, Charge
  <2>. QED
    BY <1>0, <1>1, <2>1, <2>2, BooksUntouched DEF EstimateQuestion
<1>2. ASSUME NEW c \in Calls, ReadDate(c) PROVE Balanced'
  <2>1. \A b \in Calls \ {c} : held'[b] = held[b] /\ stage'[b] = stage[b] /\ reported'[b] = reported[b]
    BY <1>0, <1>2 DEF ReadDate, TypeOK, Goto
  <2>2. Charge(c) = 0 /\ Charge(c)' = 0
    BY <1>0, <1>2 DEF ReadDate, TypeOK, Goto, Charge
  <2>. QED
    BY <1>0, <1>2, <2>1, <2>2, BooksUntouched DEF ReadDate
<1>3. ASSUME NEW c \in Calls, Reserve(c) PROVE Balanced'
  <2>1. \A b \in Calls \ {c} : stage'[b] = stage[b]
    BY <1>0, <1>3 DEF Reserve, TypeOK, Goto
  <2>2. Charge(c) = 0 /\ UNCHANGED <<held, reported>>
    BY <1>0, <1>3 DEF Reserve, Charge
  <2>3. CASE stage'[c] = "refused"
    <3>1. UNCHANGED usage /\ Charge(c)' = 0
      BY <1>0, <1>3, <2>3 DEF Reserve, TypeOK, Goto, Charge
    <3>. QED
      BY <1>0, <2>1, <2>2, <3>1, BooksUntouched
  <2>4. CASE stage'[c] # "refused"
    <3> DEFINE v == usage[held[c].day] + held[c].cost
    <3>1. stage'[c] = "reserved" /\ usage' = [usage EXCEPT ![held[c].day] = v]
      BY <1>0, <1>3, <2>4 DEF Reserve, TypeOK, Goto
    <3>2. Charge(c)' = held[c].cost /\ held[c].cost \in Nat
      BY <1>0, <2>2, <3>1 DEF TypeOK, Charge
    <3>3. ASSUME NEW rest \in Nat, usage[held[c].day] = Charge(c) + rest PROVE v = Charge(c)' + rest
      BY <2>2, <3>2, <3>3
    <3>. QED
      BY <1>0, <2>1, <2>2, <3>1, <3>3, BooksMove
  <2>. QED
    BY <2>3, <2>4
<1>4. ASSUME NEW c \in Calls, Answer(c) PROVE Balanced'
  <2>1. \A b \in Calls \ {c} : held'[b] = held[b] /\ stage'[b] = stage[b] /\ reported'[b] = reported[b]
    BY <1>0, <1>4 DEF Answer, TypeOK, Goto
  <2>2. Charge(c)' = Charge(c)
    BY <1>0, <1>4 DEF Answer, TypeOK, Goto, Charge
  <2>. QED
    BY <1>0, <1>4, <2>1, <2>2, BooksUntouched DEF Answer
<1>5. ASSUME NEW c \in Calls, Finalize(c) PROVE Balanced'
  <2>1. (\A b \in Calls \ {c} : stage'[b] = stage[b]) /\ UNCHANGED <<held, reported>>
    BY <1>0, <1>5 DEF Finalize, TypeOK, Goto
  <2>2. Charge(c) = held[c].cost /\ held[c].cost \in Nat /\ reported[c] \in Nat
    BY <1>0, <1>5 DEF Finalize, TypeOK, Charge
  <2>3. Charge(c)' = reported[c]
    BY <1>0, <1>5 DEF Finalize, TypeOK, Goto, Charge
  <2> DEFINE v == NonNegative(usage[held[c].day] - held[c].cost + reported[c])
  <2>4. usage' = [usage EXCEPT ![held[c].day] = v]
    BY <1>5 DEF Finalize
  <2>5. ASSUME NEW rest \in Nat, usage[held[c].day] = Charge(c) + rest PROVE v = Charge(c)' + rest
    BY <2>2, <2>3, <2>5 DEF NonNegative
  <2>. HIDE DEF v
  <2>. QED
    BY <1>0, <2>1, <2>4, <2>5, BooksMove
<1>6. ASSUME NEW c \in Calls, Release(c) PROVE Balanced'
  <2>1. (\A b \in Calls \ {c} : stage'[b] = stage[b]) /\ UNCHANGED <<held, reported>>
    BY <1>0, <1>6 DEF Release, TypeOK, Goto
  <2>2. Charge(c) = held[c].cost /\ held[c].cost \in Nat
    BY <1>0, <1>6 DEF Release, TypeOK, Charge
  <2>3. Charge(c)' = 0
    BY <1>0, <1>6 DEF Release, TypeOK, Goto, Charge
  <2> DEFINE v == NonNegative(usage[held[c].day] - held[c].cost)
  <2>4. usage' = [usage EXCEPT ![held[c].day] = v]
    BY <1>6 DEF Release
  <2>5. ASSUME NEW rest \in Nat, usage[held[c].day] = Charge(c) + rest PROVE v = Charge(c)' + rest
    BY <2>2, <2>3, <2>5 DEF NonNegative
  <2>. HIDE DEF v
  <2>. QED
    BY <1>0, <2>1, <2>4, <2>5, BooksMove
<1>7. ASSUME NEW c \in Calls, Crash(c) PROVE Balanced'
  <2>1. \A b \in Calls \ {c} : held'[b] = held[b] /\ stage'[b] = stage[b] /\ reported'[b] = reported[b]
    BY <1>0, <1>7 DEF Crash, TypeOK, Goto
  <2>2. Charge(c)' = Charge(c)
    BY <1>0, <1>7 DEF Crash, TypeOK, Goto, Charge
  <2>. QED
    BY <1>0, <1>7, <2>1, <2>2, BooksUntouched DEF Crash
<1>8. ASSUME UNCHANGED <<usage, stage, held, reported>> PROVE Balanced'
  <2>1. \A d : Booked(d)' = Booked(d)
    BY <1>8 DEF Booked, OnDay, ChargeOf, Charge
  <2>. QED
    BY <1>8, <2>1 DEF Balanced, Days
<1>. QED
  BY <1>1, <1>2, <1>3, <1>4, <1>5, <1>6, <1>7, <1>8 DEF Next, Midnight, vars

\* The books balance: a day's cost is always the estimates of the calls that are under
\* way or died and the reported cost of those that finished.
THEOREM BooksAlwaysBalance == Spec => []BooksBalance
<1>1. Init => BooksInv
  BY BudgetInit, BalanceInit DEF BooksInv
<1>2. BooksInv /\ [Next]_vars => BooksInv'
  BY BudgetStep, BalanceStep DEF BooksInv
<1>3. BooksInv => BooksBalance
  BY BalancedIsBooksBalance DEF BooksInv
<1>. QED
  BY <1>1, <1>2, <1>3, PTL DEF Spec
===============================================================================
