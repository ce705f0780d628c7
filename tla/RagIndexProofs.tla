---------------------------- MODULE RagIndexProofs -----------------------------
(***************************************************************************)
(* For any number of items, chunks, texts, retries and faults: an item in  *)
(* which the index may trust has exactly the rows of its text, and, but    *)
(* for rebuilds that send nothing to it, chunks that the search engine     *)
(* finds.                                                                  *)
(*                                                                         *)
(* trust is a history variable; what makes the properties inductive is     *)
(* that it is earned at every point of the way (TrustIsEarned): a task or  *)
(* a rebuild of an item that nothing has crossed since it read the item    *)
(* still has the item as it is in hand (TaskProgress, RebuildProgress),    *)
(* the chunks it has written so far are the item's, and once it has        *)
(* trimmed the others the rows are the item's cut.                         *)
(***************************************************************************)
EXTENDS RagIndex, FiniteSetTheorems, TLAPS

\* What a task or a rebuild in progress has read.
TaskHas ==
    /\ task.pc # "idle" => task.of \in Items
    /\ task.seen.public => task.seen.size # 0
    /\ task.pc = "list" => task.next = 1
    /\ task.pc = "write" => task.seen.public /\ task.next <= task.seen.size
    /\ task.pc = "index" => task.seen.public
RebuildHas ==
    /\ \A i \in Items : rebuild.seen[i] # Absent => rebuild.seen[i].public /\ rebuild.seen[i].size # 0
    /\ \A i \in rebuild.left : rebuild.seen[i] # Absent
    /\ rebuild.pc = "write" <=> rebuild.left # {}
Cuttable == \A i \in Items : item[i] # Absent => item[i].size # 0

Working(i) == task.pc # "idle" /\ task.of = i
WrittenUpTo(i, n) == \A k \in 1..n : rows[i][k] = item[i].text

TaskProgress(i) ==
    /\ Working(i) /\ task.seen = item[i]
    /\ task.pc = "write" => WrittenUpTo(i, task.next - 1)
    /\ task.pc = "trim" /\ item[i].public => WrittenUpTo(i, item[i].size)
    /\ task.pc \in {"unindex", "index"} => rows[i] = Cut(item[i])

RebuildProgress(i) ==
    /\ rebuild.pc # "idle" /\ ~Working(i)
    /\ IF rebuild.seen[i] = Absent THEN rebuild.full /\ ~item[i].public ELSE rebuild.seen[i] = item[i]
    /\ i \in rebuild.left /\ i = Newest(rebuild.left) => WrittenUpTo(i, rebuild.next - 1)
    /\ i \notin rebuild.left /\ rebuild.seen[i] # Absent => rows[i] = Cut(item[i])
    /\ rebuild.pc = "sync" => rows[i] = Cut(item[i])

RowsFollow(i) == ~Working(i) /\ rows[i] = Cut(item[i])
Follows(i) == RowsFollow(i) /\ (item[i].public => Only(item[i], docs[i]) = Cut(item[i]))

Earned(i) ==
    /\ trust[i] = "task" => TaskProgress(i)
    /\ trust[i] = "rebuild" => RebuildProgress(i)
    /\ trust[i] = "rows" => RowsFollow(i)
    /\ trust[i] = "current" => Follows(i)

TrustIsEarned == \A i \in Items : Earned(i)

RagInv == TypeOK /\ TaskHas /\ RebuildHas /\ Cuttable /\ TrustIsEarned

--------------------------------------------------------------------------------
\* Every set of items has a newest one: the one with the fewest newer ones.
LEMMA NewestIsIn ==
  ASSUME NEW S \in SUBSET Items, S # {}
  PROVE  Newest(S) \in S
<1>. DEFINE Newer(i) == {j \in S : j > i}
            Counts == {Cardinality(Newer(i)) : i \in S}
            R == {nn \in Nat \X Nat : nn[1] < nn[2]}
<1>1. S \subseteq Nat /\ \A i : IsFiniteSet(Newer(i)) /\ Cardinality(Newer(i)) \in Nat
  <2>1. S \subseteq Nat /\ IsFiniteSet(S)
    BY RagIndexAssumption, FS_Subset
  <2>. QED
    BY <2>1, FS_Subset, FS_CardinalityType
<1>2. IsWellFoundedOn(R, Nat)
  BY NatLessThanWellFounded DEF OpToRel
<1>3. Counts \in SUBSET Nat /\ Counts # {}
  BY <1>1
<1>4. PICK m \in Counts : \A n \in Counts : ~ (<<n, m>> \in R)
  <2>. HIDE DEF R, Counts
  <2>. QED
    BY <1>2, <1>3, WFMin
<1>5. PICK i \in S : m = Cardinality(Newer(i))
  OBVIOUS
<1>6. ASSUME NEW j \in S, j > i PROVE FALSE
  <2>1. Newer(j) \in SUBSET Newer(i) /\ j \in Newer(i) /\ j \notin Newer(j)
    <3>1. i \in Nat /\ j \in Nat /\ \A k \in S : k \in Nat
      BY <1>1
    <3>2. \A k \in Newer(j) : k \in Newer(i)
      BY <1>6, <3>1
    <3>3. j \in Newer(i)
      BY <1>6
    <3>4. j \notin Newer(j)
      BY <3>1
    <3>. HIDE DEF Newer
    <3>. QED
      BY <3>2, <3>3, <3>4
  <2>2. Cardinality(Newer(j)) < Cardinality(Newer(i))
    <3>. HIDE DEF Newer
    <3>1. /\ Cardinality(Newer(j)) <= Cardinality(Newer(i))
          /\ Cardinality(Newer(j)) # Cardinality(Newer(i))
      BY <1>1, <2>1, FS_Subset
    <3>. QED
      BY <1>1, <3>1
  <2>3. Cardinality(Newer(j)) \in Counts
    OBVIOUS
  <2>4. <<Cardinality(Newer(j)), m>> \in R
    BY <1>1, <1>5, <2>2
  <2>. QED
    BY <1>4, <2>3, <2>4
<1>7. \A j \in S : j <= i
  BY <1>1, <1>6
<1>. QED
  BY <1>7 DEF Newest

\* The chunks of a public item, once its rows or documents are written, and of a hidden one.
LEMMA WrittenIsCut ==
  ASSUME NEW x \in Item, NEW f, \A k \in 1..x.size : f[k] = x.text
  PROVE  x.public => Only(x, f) = Cut(x) /\ Only(x, Over(x, f)) = Cut(x)
  BY DEF Only, Over, Cut, Item, Chunks

LEMMA HiddenIsNothing ==
  ASSUME NEW x, ~x.public
  PROVE  Nothing = Cut(x)
  BY DEF Nothing, Cut

LEMMA OverIsCut ==
  ASSUME NEW x \in Item, NEW f, x.public
  PROVE  Only(x, Over(x, f)) = Cut(x)
  BY DEF Only, Over, Cut, Item, Chunks

LEMMA IndexTypes ==
  ASSUME NEW x \in Item, NEW f \in [Chunks -> 0..MaxTexts]
  PROVE  {Only(x, f), Over(x, f), Nothing} \subseteq [Chunks -> 0..MaxTexts]
  BY RagIndexAssumption DEF Only, Over, Nothing, Item, Chunks

LEMMA AbsentIsAnItem == Absent \in Item /\ ~Absent.public /\ Absent.size = 0
  BY RagIndexAssumption DEF Absent, Item

LEMMA RagInit == Init => RagInv
<1>. SUFFICES ASSUME Init PROVE RagInv
  OBVIOUS
<1>1. /\ 1 \in 1..(MaxChunks + 1) /\ 0 \in 0..MaxTexts /\ 0 \in 0..MaxRetries
      /\ 0 \in 0..MaxByHand /\ 0 \in 0..MaxFaults
  BY RagIndexAssumption
<1>2. TypeOK
  <2>1. Nothing \in [Chunks -> 0..MaxTexts]
    BY <1>1 DEF Nothing
  <2>2. IdleTask \in [pc: {"idle", "list", "write", "trim", "unindex", "index"}, of: Items \cup {0},
                 tries: 0..MaxRetries, seen: Item, known: SUBSET Chunks, next: 1..(MaxChunks + 1)]
    BY <1>1, AbsentIsAnItem DEF IdleTask
  <2>3. IdleRebuild \in [pc: {"idle", "write", "forget", "sync"}, full: BOOLEAN, sync: BOOLEAN, seen: [Items -> Item],
                    left: SUBSET Items, next: 1..(MaxChunks + 1)]
    BY <1>1, AbsentIsAnItem DEF IdleRebuild
  <2>. QED
    BY <1>1, <2>1, <2>2, <2>3, AbsentIsAnItem DEF Init, TypeOK
<1>3. TaskHas /\ RebuildHas /\ Cuttable
  BY AbsentIsAnItem DEF Init, TaskHas, RebuildHas, Cuttable, IdleTask, IdleRebuild
<1>4. TrustIsEarned
  BY DEF Init, TrustIsEarned, Earned
<1>. QED
  BY <1>2, <1>3, <1>4 DEF RagInv


\* An item that a step leaves alone, and what is under way with it.
LEMMA StillEarned ==
  ASSUME NEW i \in Items, Earned(i), item'[i] = item[i], rows'[i] = rows[i], docs'[i] = docs[i],
         UNCHANGED <<task, rebuild>>, trust'[i] \in {trust[i], "stale", "excused"}
  PROVE  Earned(i)'
  BY DEF Earned, TaskProgress, RebuildProgress, RowsFollow, Follows, Working, WrittenUpTo

\* What happens to items, publications and messages while nobody works on the index.
LEMMA ContentStep ==
  ASSUME RagInv, NEW i \in Items, NEW x \in Item,
         item' = [item EXCEPT ![i] = x], x # Absent => x.size # 0,
         UNCHANGED <<indexVars, task, rebuild>>,
         publishing' \in [Items -> Nat], messages' \in [Items \X (0..MaxRetries) -> Nat],
         trust' = [trust EXCEPT ![i] = trust'[i]], trust'[i] \in {"stale", "excused"} \/ (x = item[i] /\ trust'[i] = trust[i]),
         texts' \in 0..MaxTexts, byHand' \in 0..MaxByHand, faults' \in 0..MaxFaults
  PROVE  RagInv'
<1>. USE DEF RagInv
<1>1. TypeOK'
  BY DEF TypeOK, indexVars
<1>2. TaskHas' /\ RebuildHas'
  BY DEF TaskHas, RebuildHas
<1>3. Cuttable'
  BY DEF Cuttable, TypeOK
<1>4. ASSUME NEW j \in Items PROVE Earned(j)'
  <2>1. Earned(j)
    BY DEF TrustIsEarned
  <2>2. CASE trust'[j] \in {"stale", "excused"}
    BY <2>2 DEF Earned
  <2>3. CASE ~(trust'[j] \in {"stale", "excused"})
    <3>1. item'[j] = item[j] /\ trust'[j] = trust[j] /\ rows'[j] = rows[j] /\ docs'[j] = docs[j]
      BY <2>3 DEF TypeOK, indexVars
    <3>. QED
      BY <2>1, <3>1, StillEarned
  <2>. QED
    BY <2>2, <2>3
<1>. QED
  BY <1>1, <1>2, <1>3, <1>4 DEF TrustIsEarned

LEMMA ContentActions ==
  ASSUME RagInv, NEW i \in Items,
         \/ Ingest(i) \/ IngestKnownText(i) \/ Publish(i) \/ LosePublication(i)
         \/ ChangeVisibility(i) \/ ReextractItem(i) \/ ReindexItem(i)
  PROVE  RagInv'
<1>0. /\ item \in [Items -> Item] /\ trust \in [Items -> {"stale", "task", "rebuild", "rows", "current", "excused"}]
      /\ publishing \in [Items -> Nat] /\ messages \in [Items \X (0..MaxRetries) -> Nat]
      /\ texts \in 0..MaxTexts /\ byHand \in 0..MaxByHand /\ faults \in 0..MaxFaults
      /\ texts \in Nat /\ byHand \in Nat /\ faults \in Nat
      /\ {MaxTexts, MaxByHand, MaxFaults, MaxRetries, MaxChunks} \subseteq Nat
  BY RagIndexAssumption DEF RagInv, TypeOK
<1>00. 0 \in 0..MaxRetries /\ (item[i] # Absent => item[i].size # 0)
  BY <1>0 DEF RagInv, Cuttable
<1>1. CASE Ingest(i)
  <2>1. PICK size \in Chunks, public \in BOOLEAN :
            item' = [item EXCEPT ![i] = [text |-> texts', size |-> size, public |-> public]]
    BY <1>1 DEF Ingest
  <2>2. texts' \in 0..MaxTexts
    BY <1>0, <1>1 DEF Ingest
  <2>3. [text |-> texts', size |-> size, public |-> public] \in Item /\ size # 0
    BY <1>0, <2>2 DEF Item, Chunks
  <2>4. publishing' \in [Items -> Nat]
    BY <1>0, <1>1 DEF Ingest
  <2>. QED
    BY <1>0, <1>1, <2>1, <2>2, <2>3, <2>4, ContentStep DEF Ingest, Trust
<1>2. CASE ReextractItem(i)
  <2>1. PICK size \in Chunks : item' = [item EXCEPT ![i] = [text |-> texts', size |-> size, public |-> FALSE]]
    BY <1>2 DEF ReextractItem
  <2>2. texts' \in 0..MaxTexts /\ byHand' \in 0..MaxByHand
    BY <1>0, <1>2 DEF ReextractItem
  <2>3. [text |-> texts', size |-> size, public |-> FALSE] \in Item /\ size # 0
    BY <1>0, <2>2 DEF Item, Chunks
  <2>. QED
    BY <1>0, <1>2, <2>1, <2>2, <2>3, ContentStep DEF ReextractItem, Trust
<1>3. CASE ChangeVisibility(i)
  <2>. DEFINE x == [item[i] EXCEPT !.public = ~@]
  <2>1. item' = [item EXCEPT ![i] = x] /\ x \in Item
    BY <1>0, <1>3 DEF ChangeVisibility, Item
  <2>2. x.size # 0
    BY <1>0, <1>00, <1>3 DEF ChangeVisibility, Item
  <2>3. byHand' \in 0..MaxByHand /\ UNCHANGED <<texts, faults, indexVars, publishing, messages, task, rebuild>>
    BY <1>0, <1>3 DEF ChangeVisibility, ByHand
  <2>4. trust' = [trust EXCEPT ![i] = trust'[i]] /\ trust'[i] = "excused"
    BY <1>0, <1>3 DEF ChangeVisibility, Trust
  <2>. HIDE DEF x
  <2>. QED
    BY <1>0, <2>1, <2>2, <2>3, <2>4, ContentStep
<1>4. CASE IngestKnownText(i) \/ Publish(i) \/ LosePublication(i) \/ ReindexItem(i)
  <2>1. item' = [item EXCEPT ![i] = item[i]] /\ item[i] \in Item
    BY <1>0, <1>4 DEF IngestKnownText, Publish, LosePublication, ReindexItem
  <2>2. byHand' \in 0..MaxByHand /\ faults' \in 0..MaxFaults /\ texts' \in 0..MaxTexts
    BY <1>0, <1>4 DEF IngestKnownText, Publish, LosePublication, ReindexItem, ByHand, Fault, countVars
  <2>3. publishing' \in [Items -> Nat]
    BY <1>0, <1>4 DEF IngestKnownText, Publish, LosePublication, ReindexItem
  <2>4. messages' \in [Items \X (0..MaxRetries) -> Nat]
    <3>1. <<i, 0>> \in Items \X (0..MaxRetries) /\ messages[<<i, 0>>] + 1 \in Nat
      BY <1>0
    <3>2. UNCHANGED messages \/ messages' = [messages EXCEPT ![<<i, 0>>] = @ + 1]
      BY <1>4 DEF IngestKnownText, Publish, LosePublication, ReindexItem
    <3>. QED
      BY <1>0, <3>1, <3>2
  <2>5. trust' = [trust EXCEPT ![i] = trust'[i]] /\ trust'[i] \in {trust[i], "excused"}
    BY <1>0, <1>4 DEF IngestKnownText, Publish, LosePublication, ReindexItem, Trust
  <2>. QED
    BY <1>0, <1>00, <1>4, <2>1, <2>2, <2>3, <2>4, <2>5, ContentStep
    DEF IngestKnownText, Publish, LosePublication, ReindexItem
<1>. QED
  BY <1>1, <1>2, <1>3, <1>4


TaskType == [pc: {"idle", "list", "write", "trim", "unindex", "index"}, of: Items \cup {0},
             tries: 0..MaxRetries, seen: Item, known: SUBSET Chunks, next: 1..(MaxChunks + 1)]
Trusts == {"stale", "task", "rebuild", "rows", "current", "excused"}

\* A step of the worker concerns one item only.
LEMMA WorkerStep ==
  ASSUME RagInv, NEW i \in Items, \A j \in Items \ {i} : ~Working(j) /\ ~Working(j)',
         UNCHANGED <<item, rebuild, publishing, texts, byHand>>,
         task' \in TaskType, TaskHas',
         NEW f \in [Chunks -> 0..MaxTexts], rows' = [rows EXCEPT ![i] = f],
         NEW g \in [Chunks -> 0..MaxTexts], docs' = [docs EXCEPT ![i] = g],
         NEW t \in Trusts, trust' = [trust EXCEPT ![i] = t],
         messages' \in [Items \X (0..MaxRetries) -> Nat], faults' \in 0..MaxFaults,
         Earned(i)'
  PROVE  RagInv'
<1>. USE DEF RagInv
<1>1. TypeOK'
  <2>1. {rows, docs}' \subseteq [Items -> [Chunks -> 0..MaxTexts]]
    BY DEF TypeOK
  <2>2. trust' \in [Items -> {"stale", "task", "rebuild", "rows", "current", "excused"}]
    BY DEF TypeOK, Trusts
  <2>3. item' \in [Items -> Item] /\ task' \in TaskType
    BY DEF TypeOK
  <2>. QED
    BY <2>1, <2>2, <2>3 DEF TypeOK, TaskType
<1>2. RebuildHas' /\ Cuttable'
  BY DEF RebuildHas, Cuttable
<1>3. ASSUME NEW j \in Items \ {i} PROVE Earned(j)'
  <2>1. rows'[j] = rows[j] /\ docs'[j] = docs[j] /\ trust'[j] = trust[j] /\ Earned(j)
    BY DEF TypeOK, TrustIsEarned
  <2>2. trust[j] = "task" => FALSE
    BY <2>1 DEF Earned, TaskProgress
  <2>. QED
    BY <2>1, <2>2 DEF Earned, RebuildProgress, RowsFollow, Follows, WrittenUpTo
<1>. QED
  BY <1>1, <1>2, <1>3 DEF TrustIsEarned

\* What TypeOK says of a task in progress.
LEMMA TaskInProgress ==
  ASSUME RagInv, task.pc # "idle"
  PROVE  /\ task \in TaskType /\ task.of \in Items /\ IdleTask \in TaskType
         /\ task.seen \in Item /\ task.next \in 1..(MaxChunks + 1) /\ task.tries \in 0..MaxRetries
         /\ rows[task.of] \in [Chunks -> 0..MaxTexts] /\ docs[task.of] \in [Chunks -> 0..MaxTexts]
         /\ rows = [rows EXCEPT ![task.of] = rows[task.of]] /\ docs = [docs EXCEPT ![task.of] = docs[task.of]]
         /\ trust[task.of] \in Trusts /\ trust = [trust EXCEPT ![task.of] = trust[task.of]]
         /\ messages \in [Items \X (0..MaxRetries) -> Nat] /\ faults \in 0..MaxFaults
         /\ item[task.of] \in Item
         /\ Earned(task.of) /\ trust[task.of] \notin {"rebuild", "rows", "current"}
<1>1. task \in TaskType /\ task.of \in Items
  BY DEF RagInv, TypeOK, TaskHas, TaskType
<1>2. IdleTask \in TaskType
  BY RagIndexAssumption, AbsentIsAnItem DEF IdleTask, TaskType
<1>3. Earned(task.of) /\ Working(task.of)
  BY <1>1 DEF RagInv, TrustIsEarned, Working
<1>. QED
  BY <1>1, <1>2, <1>3 DEF RagInv, TypeOK, TaskType, Trusts, Earned, RebuildProgress, RowsFollow, Follows

LEMMA TakeTaskStep ==
  ASSUME RagInv, NEW i \in Items, NEW n \in 0..MaxRetries, TakeTask(i, n)
  PROVE  RagInv'
<1>0. /\ item \in [Items -> Item] /\ trust \in [Items -> Trusts] /\ item[i] \in Item
      /\ rows[i] \in [Chunks -> 0..MaxTexts] /\ docs[i] \in [Chunks -> 0..MaxTexts]
      /\ rows = [rows EXCEPT ![i] = rows[i]] /\ docs = [docs EXCEPT ![i] = docs[i]]
      /\ messages \in [Items \X (0..MaxRetries) -> Nat] /\ faults \in 0..MaxFaults
  BY DEF RagInv, TypeOK, Trusts
<1>1. task' = [pc |-> "list", of |-> i, tries |-> n, seen |-> item[i], known |-> {}, next |-> 1]
  BY DEF TakeTask, IdleTask
<1>2. task' \in TaskType
  BY <1>0, <1>1, RagIndexAssumption DEF TaskType
<1>3. \A j \in Items \ {i} : ~Working(j) /\ ~Working(j)'
  BY <1>1 DEF TakeTask, Working
<1>4. TaskHas'
  BY <1>0, <1>1, AbsentIsAnItem DEF TaskHas, RagInv, Cuttable
<1>5. messages' \in [Items \X (0..MaxRetries) -> Nat]
  <2>0. <<i, n>> \in Items \X (0..MaxRetries)
    OBVIOUS
  <2>1. messages[<<i, n>>] \in Nat /\ messages[<<i, n>>] > 0
    BY <1>0, <2>0 DEF TakeTask
  <2>2. messages' = [messages EXCEPT ![<<i, n>>] = @ - 1]
    BY DEF TakeTask
  <2>. QED
    BY <1>0, <2>0, <2>1, <2>2
<1>6. trust' = [trust EXCEPT ![i] = "task"] /\ trust'[i] = "task"
  BY <1>0 DEF TakeTask, Trust
<1>7. UNCHANGED <<item, rows, docs, publishing, rebuild, texts, byHand, faults>>
  BY DEF TakeTask, indexVars, countVars
<1>8. Earned(i)'
  BY <1>1, <1>6, <1>7 DEF Earned, TaskProgress, Working
<1>. QED
  BY <1>0, <1>2, <1>3, <1>4, <1>5, <1>6, <1>7, <1>8, WorkerStep DEF Trusts


\* A step of the task in progress that goes on.
LEMMA TaskGoesOn ==
  ASSUME RagInv, task.pc # "idle",
         UNCHANGED <<item, docs, publishing, messages, rebuild, trust, countVars>>,
         task' \in TaskType, task'.pc # "idle", task'.of = task.of, task'.seen = task.seen, TaskHas',
         NEW f \in [Chunks -> 0..MaxTexts], rows' = [rows EXCEPT ![task.of] = f],
         TaskProgress(task.of) => TaskProgress(task.of)'
  PROVE  RagInv'
<1>1. /\ trust[task.of] \in Trusts /\ trust' = [trust EXCEPT ![task.of] = trust[task.of]]
      /\ docs[task.of] \in [Chunks -> 0..MaxTexts] /\ docs' = [docs EXCEPT ![task.of] = docs[task.of]]
      /\ messages' \in [Items \X (0..MaxRetries) -> Nat] /\ faults' \in 0..MaxFaults
      /\ Earned(task.of) /\ trust[task.of] \notin {"rebuild", "rows", "current"}
  BY TaskInProgress DEF countVars
<1>2. PICK i \in Items : i = task.of
  BY TaskInProgress
<1>3. \A j \in Items \ {i} : ~Working(j) /\ ~Working(j)'
  BY <1>2 DEF Working
<1>4. Earned(i)'
  BY <1>1, <1>2 DEF Earned, TaskProgress, Working, WrittenUpTo
<1>5. rows' = [rows EXCEPT ![i] = f]
  BY <1>2
<1>6. PICK g \in [Chunks -> 0..MaxTexts] : docs' = [docs EXCEPT ![i] = g]
  BY <1>1, <1>2
<1>7. PICK t \in Trusts : trust' = [trust EXCEPT ![i] = t]
  BY <1>1, <1>2
<1>8. UNCHANGED <<item, rebuild, publishing, texts, byHand>>
  BY DEF countVars
<1>. QED
  BY <1>1, <1>3, <1>4, <1>5, <1>6, <1>7, <1>8, WorkerStep

\* Chunks below the first that is still to be written.
LEMMA OneMoreChunk ==
  ASSUME NEW n \in 1..(MaxChunks + 1), NEW m \in Nat, n <= m, m <= MaxChunks
  PROVE  n \in Chunks /\ n + 1 \in 1..(MaxChunks + 1) /\ \A k \in 1..n : k = n \/ k \in 1..(n - 1)
  BY RagIndexAssumption DEF Chunks

LEMMA ItemSize == \A x \in Item : x.size \in Nat /\ x.size <= MaxChunks
  BY RagIndexAssumption DEF Item

LEMMA ListKnownStep ==
  ASSUME RagInv, ListKnown
  PROVE  RagInv'
<1>. DEFINE known == {k \in Chunks : rows[task.of][k] # 0}
            pc == IF task.seen.public THEN "write" ELSE "trim"
<1>0. task.pc = "list" /\ known \in SUBSET Chunks /\ UNCHANGED <<item, rows, docs, publishing, messages, rebuild, trust, countVars>>
  BY DEF ListKnown, indexVars
<1>1. task' = [task EXCEPT !.known = known, !.pc = pc]
  BY DEF ListKnown
<1>2. task \in TaskType /\ pc \in {"write", "trim"} /\ task.seen \in Item
  BY <1>0, TaskInProgress
<1>. HIDE DEF known
<1>3. /\ task' \in TaskType /\ task'.pc = pc /\ task'.of = task.of /\ task'.seen = task.seen
      /\ task'.next = task.next
  BY <1>0, <1>1, <1>2 DEF TaskType
<1>4. task.next = 1
  BY <1>0 DEF RagInv, TaskHas
<1>5. TaskHas'
  BY <1>2, <1>3, <1>4, <1>0, ItemSize DEF RagInv, TaskHas
<1>6. TaskProgress(task.of) => TaskProgress(task.of)'
  <2>. SUFFICES ASSUME TaskProgress(task.of) PROVE TaskProgress(task.of)'
    OBVIOUS
  <2>1. task.seen = item[task.of] /\ UNCHANGED item
    BY DEF TaskProgress, ListKnown
  <2>2. WrittenUpTo(task.of, 0)' /\ task'.next - 1 = 0
    BY <1>3, <1>4 DEF WrittenUpTo
  <2>. QED
    BY <1>2, <1>3, <2>1, <2>2 DEF TaskProgress, Working
<1>7. PICK f \in [Chunks -> 0..MaxTexts] : rows' = [rows EXCEPT ![task.of] = f]
  BY <1>0, TaskInProgress
<1>. QED
  BY <1>0, <1>2, <1>3, <1>5, <1>6, <1>7, TaskGoesOn

LEMMA WriteRowStep ==
  ASSUME RagInv, WriteRow
  PROVE  RagInv'
<1>. DEFINE i == task.of
            pc == IF task.next = task.seen.size THEN "trim" ELSE "write"
            f == [rows[i] EXCEPT ![task.next] = task.seen.text]
<1>1. /\ task.pc = "write" /\ task' = [task EXCEPT !.next = @ + 1, !.pc = pc]
      /\ UNCHANGED <<item, docs, publishing, messages, rebuild, trust, countVars>>
  BY DEF WriteRow
<1>2. /\ task \in TaskType /\ task.seen \in Item /\ i \in Items /\ task.next \in 1..(MaxChunks + 1)
      /\ rows[i] \in [Chunks -> 0..MaxTexts] /\ rows \in [Items -> [Chunks -> 0..MaxTexts]]
  BY <1>1, TaskInProgress DEF RagInv, TypeOK
<1>3. task.seen.public /\ task.next <= task.seen.size
  BY <1>1 DEF RagInv, TaskHas
<1>4. /\ task.next \in Chunks /\ task.next + 1 \in 1..(MaxChunks + 1)
      /\ \A k \in 1..task.next : k = task.next \/ k \in 1..(task.next - 1)
  BY <1>2, <1>3, ItemSize, OneMoreChunk
<1>5. f \in [Chunks -> 0..MaxTexts]
  BY <1>2 DEF Item
<1>6. rows' = [rows EXCEPT ![i] = f]
  BY DEF WriteRow
<1>7. /\ task' \in TaskType /\ task'.pc = pc /\ task'.of = i /\ task'.seen = task.seen
      /\ task'.next = task.next + 1
  BY <1>1, <1>2, <1>4 DEF TaskType
<1>8. TaskHas'
  <2>1. task.next # task.seen.size => task.next + 1 <= task.seen.size
    BY <1>2, <1>3, ItemSize
  <2>. QED
    BY <1>2, <1>3, <1>7, <2>1 DEF RagInv, TaskHas
<1>9. TaskProgress(i) => TaskProgress(i)'
  <2>. SUFFICES ASSUME TaskProgress(i) PROVE TaskProgress(i)'
    OBVIOUS
  <2>1. task.seen = item[i] /\ WrittenUpTo(i, task.next - 1)
    BY <1>1 DEF TaskProgress
  <2>2. \A k \in 1..task.next : rows'[i][k] = item[i].text
    <3>0. \A k \in 1..task.next : k \in Chunks
      BY <1>2, <1>4, RagIndexAssumption DEF Chunks
    <3>1. rows'[i] = f
      BY <1>2, <1>6
    <3>2. \A k \in Chunks : f[k] = IF k = task.next THEN item[i].text ELSE rows[i][k]
      BY <1>2, <2>1
    <3>. QED
      BY <1>4, <2>1, <3>0, <3>1, <3>2 DEF WrittenUpTo
  <2>3. task'.next - 1 = task.next
    BY <1>2, <1>7
  <2>. HIDE DEF f
  <2>4. \A k \in 1..(task'.next - 1) : rows'[i][k] = item'[i].text
    BY <1>1, <2>2, <2>3
  <2>. QED
    BY <1>1, <1>7, <2>1, <2>2, <2>3, <2>4 DEF TaskProgress, Working, WrittenUpTo
<1>. HIDE DEF f
<1>10. pc # "idle"
  OBVIOUS
<1>. HIDE DEF pc
<1>. QED
  BY <1>1, <1>5, <1>6, <1>7, <1>8, <1>9, <1>10, TaskGoesOn


LEMMA TrimRowsStep ==
  ASSUME RagInv, TrimRows
  PROVE  RagInv'
<1>. DEFINE x == task.seen
            f == IF x.public THEN Only(x, rows[task.of]) ELSE Nothing
<1>1. /\ task.pc = "trim" /\ task' = [task EXCEPT !.pc = "unindex"]
      /\ UNCHANGED <<item, docs, publishing, messages, rebuild, trust, countVars>>
      /\ rows' = [rows EXCEPT ![task.of] = f]
  BY DEF TrimRows
<1>2. /\ task \in TaskType /\ x \in Item /\ task.of \in Items
      /\ rows[task.of] \in [Chunks -> 0..MaxTexts] /\ rows \in [Items -> [Chunks -> 0..MaxTexts]]
  BY <1>1, TaskInProgress DEF RagInv, TypeOK
<1>3. f \in [Chunks -> 0..MaxTexts]
  BY <1>2, IndexTypes
<1>4. /\ task' \in TaskType /\ task'.pc = "unindex" /\ task'.of = task.of /\ task'.seen = x
      /\ task'.next = task.next
  BY <1>1, <1>2 DEF TaskType
<1>5. TaskHas'
  BY <1>2, <1>4 DEF RagInv, TaskHas
<1>6. TaskProgress(task.of) => TaskProgress(task.of)'
  <2>. SUFFICES ASSUME TaskProgress(task.of) PROVE TaskProgress(task.of)'
    OBVIOUS
  <2>1. x = item[task.of] /\ (x.public => \A k \in 1..x.size : rows[task.of][k] = x.text)
    BY <1>1 DEF TaskProgress, WrittenUpTo
  <2>2. f = Cut(x)
    BY <1>2, <2>1, WrittenIsCut, HiddenIsNothing
  <2>3. rows'[task.of] = f
    BY <1>1, <1>2
  <2>. HIDE DEF f
  <2>. QED
    BY <1>1, <1>4, <2>1, <2>2, <2>3 DEF TaskProgress, Working
<1>. HIDE DEF f
<1>. QED
  BY <1>1, <1>3, <1>4, <1>5, <1>6, TaskGoesOn

\* The task leaves the item, with its work done or not.
LEMMA TaskEnds ==
  ASSUME RagInv, task.pc # "idle", task' = IdleTask, NEW i \in Items, i = task.of,
         UNCHANGED <<item, rows, publishing, rebuild, texts, byHand>>,
         NEW g \in [Chunks -> 0..MaxTexts], docs' = [docs EXCEPT ![i] = g],
         NEW t \in {"current", "stale", "excused"},
         trust' = [trust EXCEPT ![i] = IF @ = "task" THEN t ELSE @],
         messages' \in [Items \X (0..MaxRetries) -> Nat], faults' \in 0..MaxFaults,
         trust[i] = "task" /\ t = "current" =>
             rows[i] = Cut(item[i]) /\ (item[i].public => Only(item[i], g) = Cut(item[i]))
  PROVE  RagInv'
<1>1. /\ IdleTask \in TaskType /\ trust[i] \in Trusts \ {"rebuild", "rows", "current"}
      /\ trust \in [Items -> Trusts] /\ docs \in [Items -> [Chunks -> 0..MaxTexts]]
      /\ rows[i] \in [Chunks -> 0..MaxTexts] /\ rows = [rows EXCEPT ![i] = rows[i]]
  BY TaskInProgress DEF RagInv, TypeOK, Trusts
<1>2. task'.pc = "idle" /\ ~task'.seen.public
  BY AbsentIsAnItem DEF IdleTask
<1>3. \A j \in Items : ~Working(j)'
  BY <1>2 DEF Working
<1>4. \A j \in Items \ {i} : ~Working(j)
  BY DEF Working
<1>5. TaskHas'
  BY <1>2 DEF TaskHas
<1>6. PICK u \in Trusts : u = IF trust[i] = "task" THEN t ELSE trust[i]
  BY <1>1 DEF Trusts
<1>7. trust' = [trust EXCEPT ![i] = u] /\ trust'[i] = u
  BY <1>1, <1>6
<1>8. Earned(i)'
  <2>1. u \notin {"rebuild", "rows", "task"} /\ (u = "current" => trust[i] = "task" /\ t = "current")
    BY <1>1, <1>6 DEF Trusts
  <2>2. docs'[i] = g
    BY <1>1
  <2>. QED
    BY <1>3, <1>7, <2>1, <2>2 DEF Earned, RowsFollow, Follows
<1>9. task' \in TaskType
  BY <1>1
<1>10. PICK f \in [Chunks -> 0..MaxTexts] : rows' = [rows EXCEPT ![i] = f]
  BY <1>1
<1>. QED
  BY <1>3, <1>4, <1>5, <1>7, <1>8, <1>9, <1>10, WorkerStep

LEMMA UnindexStep ==
  ASSUME RagInv, Unindex
  PROVE  RagInv'
<1>0. task.pc = "unindex" /\ UNCHANGED <<item, rows, publishing, messages, rebuild>>
  BY DEF Unindex
<1>1. PICK i \in Items : i = task.of
  BY <1>0, TaskInProgress
<1>2. /\ task \in TaskType /\ docs \in [Items -> [Chunks -> 0..MaxTexts]] /\ docs[i] \in [Chunks -> 0..MaxTexts]
      /\ trust \in [Items -> Trusts] /\ messages \in [Items \X (0..MaxRetries) -> Nat]
      /\ faults \in 0..MaxFaults /\ faults \in Nat /\ MaxFaults \in Nat
  BY <1>0, <1>1, TaskInProgress, RagIndexAssumption DEF RagInv, TypeOK, Trusts
<1>3. \E g \in [Chunks -> 0..MaxTexts] : docs' = [docs EXCEPT ![i] = g]
  <2>1. CASE UNCHANGED docs
    BY <1>2, <2>1
  <2>2. CASE docs' = [docs EXCEPT ![task.of] = [k \in Chunks |-> IF k \in Unwanted THEN 0 ELSE @[k]]]
    <3>. DEFINE g == [k \in Chunks |-> IF k \in Unwanted THEN 0 ELSE docs[i][k]]
    <3>1. g \in [Chunks -> 0..MaxTexts]
      BY <1>2, RagIndexAssumption
    <3>2. docs' = [docs EXCEPT ![i] = g]
      BY <1>1, <2>2
    <3>. QED
      BY <3>1, <3>2
  <2>. QED
    BY <2>1, <2>2 DEF Unindex
<1>4. faults' \in 0..MaxFaults /\ UNCHANGED <<texts, byHand>>
  BY <1>2 DEF Unindex, Fault, countVars
<1>5. CASE task.seen.public
  <2>1. task' = [task EXCEPT !.pc = "index"] /\ UNCHANGED trust
    BY <1>5 DEF Unindex
  <2>2. /\ task' \in TaskType /\ task'.pc = "index" /\ task'.of = i /\ task'.seen = task.seen
        /\ task'.next = task.next
    BY <1>1, <1>2, <2>1 DEF TaskType
  <2>3. TaskHas'
    BY <1>1, <1>5, <2>2 DEF RagInv, TaskHas
  <2>4. \A j \in Items \ {i} : ~Working(j) /\ ~Working(j)'
    BY <1>1, <2>2 DEF Working
  <2>5. Earned(i)'
    <3>1. Earned(i) /\ trust[i] \notin {"rebuild", "rows", "current"}
      BY <1>0, <1>1, TaskInProgress
    <3>2. TaskProgress(i) => TaskProgress(i)'
      BY <1>0, <2>2 DEF TaskProgress, Working
    <3>. QED
      BY <2>1, <3>1, <3>2 DEF Earned
  <2>6. PICK g \in [Chunks -> 0..MaxTexts] : docs' = [docs EXCEPT ![i] = g]
    BY <1>3
  <2>7. PICK f \in [Chunks -> 0..MaxTexts] : rows' = [rows EXCEPT ![i] = f]
    BY <1>0, <1>1, TaskInProgress
  <2>8. PICK t \in Trusts : trust' = [trust EXCEPT ![i] = t]
    BY <1>2, <2>1
  <2>9. messages' \in [Items \X (0..MaxRetries) -> Nat]
    BY <1>0, <1>2
  <2>. QED
    BY <1>0, <1>4, <2>2, <2>3, <2>4, <2>5, <2>6, <2>7, <2>8, <2>9, WorkerStep
<1>6. CASE ~task.seen.public
  <2>1. task' = IdleTask /\ trust' = [trust EXCEPT ![i] = IF @ = "task" THEN "current" ELSE @]
    BY <1>1, <1>6 DEF Unindex, Finish
  <2>2. trust[i] = "task" => rows[i] = Cut(item[i]) /\ ~item[i].public
    BY <1>0, <1>1, <1>6, TaskInProgress DEF Earned, TaskProgress
  <2>3. PICK g \in [Chunks -> 0..MaxTexts] : docs' = [docs EXCEPT ![i] = g]
    BY <1>3
  <2>4. messages' \in [Items \X (0..MaxRetries) -> Nat]
    BY <1>0, <1>2
  <2>. QED
    BY <1>0, <1>1, <1>4, <2>1, <2>2, <2>3, <2>4, TaskEnds
<1>. QED
  BY <1>5, <1>6

LEMMA IndexDocumentsStep ==
  ASSUME RagInv, IndexDocuments
  PROVE  RagInv'
<1>0. task.pc = "index" /\ UNCHANGED <<item, rows, publishing, messages, rebuild, texts, byHand, faults>>
  BY DEF IndexDocuments, countVars
<1>1. PICK i \in Items : i = task.of
  BY <1>0, TaskInProgress
<1>2. /\ task.seen \in Item /\ docs[i] \in [Chunks -> 0..MaxTexts] /\ task.seen.public
      /\ messages' \in [Items \X (0..MaxRetries) -> Nat] /\ faults' \in 0..MaxFaults
  BY <1>0, <1>1, TaskInProgress DEF RagInv, TaskHas
<1>. DEFINE g == Over(task.seen, docs[i])
<1>3. g \in [Chunks -> 0..MaxTexts] /\ docs' = [docs EXCEPT ![i] = g]
  BY <1>1, <1>2, IndexTypes DEF IndexDocuments
<1>4. task' = IdleTask /\ trust' = [trust EXCEPT ![i] = IF @ = "task" THEN "current" ELSE @]
  BY <1>1 DEF IndexDocuments, Finish
<1>5. trust[i] = "task" => rows[i] = Cut(item[i]) /\ Only(item[i], g) = Cut(item[i])
  <2>1. trust[i] = "task" => rows[i] = Cut(item[i]) /\ task.seen = item[i]
    BY <1>0, <1>1, TaskInProgress DEF Earned, TaskProgress
  <2>2. Only(task.seen, g) = Cut(task.seen)
    BY <1>2, OverIsCut
  <2>. HIDE DEF g
  <2>. QED
    BY <2>1, <2>2
<1>. HIDE DEF g
<1>. QED
  BY <1>0, <1>1, <1>2, <1>3, <1>4, <1>5, TaskEnds

\* An attempt that fails, is killed at the hard time limit, or whose worker is lost.
LEMMA AttemptBreaks ==
  ASSUME RagInv, AttemptFails \/ WorkerLost \/ HardTimeLimit
  PROVE  RagInv'
<1>0. /\ task.pc # "idle" /\ task' = IdleTask /\ UNCHANGED <<item, rows, docs, publishing, rebuild, texts, byHand>>
  BY DEF AttemptFails, WorkerLost, HardTimeLimit, Fault, indexVars
<1>1. PICK i \in Items : i = task.of
  BY <1>0, TaskInProgress
<1>2. /\ task.tries \in 0..MaxRetries /\ messages \in [Items \X (0..MaxRetries) -> Nat]
      /\ docs[i] \in [Chunks -> 0..MaxTexts] /\ docs = [docs EXCEPT ![i] = docs[i]]
  BY <1>0, <1>1, TaskInProgress
<1>3. faults' \in 0..MaxFaults
  <2>1. faults \in Nat /\ MaxFaults \in Nat /\ faults < MaxFaults /\ faults' = faults + 1
    BY RagIndexAssumption DEF RagInv, TypeOK, AttemptFails, WorkerLost, HardTimeLimit, Fault
  <2>. QED
    BY <2>1
<1>4. messages' \in [Items \X (0..MaxRetries) -> Nat]
  <2>1. CASE UNCHANGED messages
    BY <1>2, <2>1
  <2>2. ASSUME NEW n \in 0..MaxRetries, messages' = [messages EXCEPT ![<<i, n>>] = @ + 1]
        PROVE  messages' \in [Items \X (0..MaxRetries) -> Nat]
    <3>1. <<i, n>> \in Items \X (0..MaxRetries)
      OBVIOUS
    <3>2. messages[<<i, n>>] + 1 \in Nat
      BY <1>2, <3>1
    <3>. QED
      BY <1>2, <2>2, <3>1, <3>2
  <2>3. task.tries < MaxRetries => task.tries + 1 \in 0..MaxRetries
    BY <1>2, RagIndexAssumption
  <2>. QED
    BY <1>1, <1>2, <2>1, <2>2, <2>3 DEF AttemptFails, WorkerLost, HardTimeLimit
<1>5. PICK t \in {"stale", "excused"} : trust' = [trust EXCEPT ![i] = IF @ = "task" THEN t ELSE @]
  BY <1>1 DEF AttemptFails, WorkerLost, HardTimeLimit, Unfinished
<1>6. PICK g \in [Chunks -> 0..MaxTexts] : docs' = [docs EXCEPT ![i] = g]
  BY <1>0, <1>2
<1>. QED
  BY <1>0, <1>1, <1>3, <1>4, <1>5, <1>6, TaskEnds


RebuildType == [pc: {"idle", "write", "forget", "sync"}, full: BOOLEAN, sync: BOOLEAN, seen: [Items -> Item],
                left: SUBSET Items, next: 1..(MaxChunks + 1)]

\* A step of the rebuild: what it changes behind a task is no longer the task's work.
LEMMA RebuildStep ==
  ASSUME RagInv, UNCHANGED <<item, publishing, messages, task, texts>>,
         {rows', docs'} \subseteq [Items -> [Chunks -> 0..MaxTexts]],
         rebuild' \in RebuildType, RebuildHas', trust' \in [Items -> Trusts],
         byHand' \in 0..MaxByHand, faults' \in 0..MaxFaults,
         \A i \in Items : trust'[i] = "task" => trust[i] = "task" /\ rows'[i] = rows[i],
         \A i \in Items : trust'[i] = "rebuild" => RebuildProgress(i)',
         \A i \in Items : trust'[i] = "rows" => RowsFollow(i)' \/ (trust[i] = "rows" /\ rows'[i] = rows[i]),
         \A i \in Items : trust'[i] = "current" =>
             Follows(i)' \/ (trust[i] = "current" /\ rows'[i] = rows[i] /\ docs'[i] = docs[i])
  PROVE  RagInv'
<1>. USE DEF RagInv
<1>1. TypeOK'
  BY DEF TypeOK, RebuildType, Trusts
<1>2. TaskHas' /\ Cuttable'
  BY DEF TaskHas, Cuttable
<1>3. ASSUME NEW i \in Items PROVE Earned(i)'
  <2>1. Earned(i)
    BY DEF TrustIsEarned
  <2>2. trust'[i] = "task" => TaskProgress(i)'
    BY <2>1 DEF Earned, TaskProgress, Working, WrittenUpTo
  <2>3. trust'[i] = "current" => Follows(i)'
    BY <2>1 DEF Earned, RowsFollow, Follows, Working
  <2>4. trust'[i] = "rows" => RowsFollow(i)'
    BY <2>1 DEF Earned, RowsFollow, Working
  <2>. QED
    BY <2>2, <2>3, <2>4 DEF Earned
<1>. QED
  BY <1>1, <1>2, <1>3 DEF TrustIsEarned

LEMMA StartRebuildStep ==
  ASSUME RagInv, NEW full \in BOOLEAN, NEW sync \in BOOLEAN, NEW chosen \in SUBSET Items,
         \A i \in chosen : item[i].public, full => chosen = {i \in Items : item[i].public}, StartRebuild(full, sync, chosen)
  PROVE  RagInv'
<1>. DEFINE seen == [i \in Items |-> IF i \in chosen THEN item[i] ELSE Absent]
            pc == IF chosen = {} THEN "forget" ELSE "write"
<1>0. /\ item \in [Items -> Item] /\ trust \in [Items -> Trusts] /\ byHand \in Nat /\ MaxByHand \in Nat
      /\ {rows, docs} \subseteq [Items -> [Chunks -> 0..MaxTexts]] /\ faults \in 0..MaxFaults
      /\ 1 \in 1..(MaxChunks + 1)
  BY RagIndexAssumption DEF RagInv, TypeOK, Trusts
<1>1. /\ rebuild.pc = "idle" /\ byHand' \in 0..MaxByHand /\ faults' \in 0..MaxFaults
      /\ UNCHANGED <<item, rows, docs, publishing, messages, task, texts>>
  BY <1>0 DEF StartRebuild, ByHand, indexVars
<1>2. rebuild' = [pc |-> pc, full |-> full, sync |-> sync, left |-> chosen, next |-> 1, seen |-> seen]
  BY DEF StartRebuild
<1>3. seen \in [Items -> Item] /\ pc \in {"forget", "write"}
  BY <1>0, AbsentIsAnItem
<1>4. rebuild' \in RebuildType
  BY <1>0, <1>2, <1>3 DEF RebuildType
<1>5. \A i \in Items : IF i \in chosen THEN seen[i] = item[i] /\ seen[i] # Absent /\ seen[i].size # 0
                       ELSE seen[i] = Absent
  BY AbsentIsAnItem DEF RagInv, Cuttable
<1>6. /\ rebuild'.pc = pc /\ rebuild'.full = full /\ rebuild'.left = chosen /\ rebuild'.next = 1
      /\ rebuild'.seen = seen
  BY <1>2
<1>7. pc = "write" <=> chosen # {}
  OBVIOUS
<1>. HIDE DEF seen, pc
<1>8. RebuildHas'
  BY <1>5, <1>6, <1>7 DEF RebuildHas
<1>9. trust' = [i \in Items |-> IF i \notin chosen /\ ~full THEN trust[i]
                                ELSE IF task.of = i THEN "excused" ELSE "rebuild"]
  BY DEF StartRebuild
<1>10. trust' \in [Items -> Trusts]
  BY <1>0, <1>9 DEF Trusts
<1>11. \A i \in Items : trust[i] # "rebuild"
  BY <1>1 DEF RagInv, TrustIsEarned, Earned, RebuildProgress
<1>12. ASSUME NEW i \in Items, trust'[i] = "rebuild" PROVE RebuildProgress(i)'
  <2>1. task.of # i /\ (i \in chosen \/ full)
    BY <1>9, <1>11, <1>12
  <2>2. rebuild'.pc # "idle" /\ ~Working(i)'
    BY <1>1, <1>3, <1>6, <2>1 DEF Working
  <2>3. IF seen[i] = Absent THEN full /\ ~item[i].public ELSE seen[i] = item[i]
    BY <1>5, <2>1
  <2>4. rebuild'.next - 1 = 0 /\ rebuild'.pc # "sync"
    BY <1>3, <1>6
  <2>5. seen[i] # Absent => i \in chosen
    BY <1>5
  <2>. QED
    BY <1>1, <1>6, <2>2, <2>3, <2>4, <2>5 DEF RebuildProgress, WrittenUpTo
<1>13. \A i \in Items : trust'[i] \in {"task", "rows", "current"} => trust'[i] = trust[i]
  BY <1>9
<1>. QED
  BY <1>0, <1>1, <1>4, <1>8, <1>10, <1>12, <1>13, RebuildStep

LEMMA RebuildStarts ==
  ASSUME RagInv, RebuildRagIndex \/ SelfHeal
  PROVE  RagInv'
<1>1. ASSUME NEW n PROVE NewestPublic(n) \in SUBSET Items /\ \A i \in NewestPublic(n) : item[i].public
  BY DEF NewestPublic
<1>2. ASSUME NEW sync \in BOOLEAN, StartRebuild(TRUE, sync, {i \in Items : item[i].public}) PROVE RagInv'
  <2>. DEFINE chosen == {i \in Items : item[i].public}
  <2>1. chosen \in SUBSET Items /\ (\A i \in chosen : item[i].public) /\ StartRebuild(TRUE, sync, chosen)
    BY <1>2
  <2>2. chosen = {i \in Items : item[i].public}
    OBVIOUS
  <2>. HIDE DEF chosen
  <2>. QED
    BY <2>1, <2>2, StartRebuildStep
<1>3. ASSUME NEW n, NEW sync \in BOOLEAN, StartRebuild(FALSE, sync, NewestPublic(n)) PROVE RagInv'
  BY <1>1, <1>3, StartRebuildStep
<1>. QED
  BY <1>2, <1>3 DEF RebuildRagIndex, SelfHeal

\* What TypeOK says of a rebuild in progress.
LEMMA RebuildInProgress ==
  ASSUME RagInv
  PROVE  /\ rebuild \in RebuildType /\ IdleRebuild \in RebuildType /\ trust \in [Items -> Trusts]
         /\ {rows, docs} \subseteq [Items -> [Chunks -> 0..MaxTexts]]
         /\ byHand \in 0..MaxByHand /\ faults \in 0..MaxFaults
<1>1. IdleRebuild \in RebuildType
  BY RagIndexAssumption, AbsentIsAnItem DEF IdleRebuild, RebuildType
<1>. QED
  BY <1>1 DEF RagInv, TypeOK, RebuildType, Trusts

LEMMA RebuildDiesStep ==
  ASSUME RagInv, RebuildDies
  PROVE  RagInv'
<1>1. /\ rebuild' = IdleRebuild /\ UNCHANGED <<item, rows, docs, publishing, messages, task, texts, byHand>>
      /\ trust' = [i \in Items |-> IF trust[i] = "rebuild" THEN "excused" ELSE trust[i]]
  BY DEF RebuildDies, Fault, indexVars
<1>2. faults' \in 0..MaxFaults
  <2>1. faults \in Nat /\ MaxFaults \in Nat /\ faults < MaxFaults /\ faults' = faults + 1
    BY RagIndexAssumption DEF RagInv, TypeOK, RebuildDies, Fault
  <2>. QED
    BY <2>1
<1>3. RebuildHas'
  BY <1>1 DEF RebuildHas, IdleRebuild
<1>4. trust' \in [Items -> Trusts] /\ \A i \in Items : trust'[i] # "rebuild"
  BY <1>1, RebuildInProgress DEF Trusts
<1>5. \A i \in Items : trust'[i] \in {"task", "rows", "current"} => trust'[i] = trust[i]
  BY <1>1
<1>. QED
  BY <1>1, <1>2, <1>3, <1>4, <1>5, RebuildInProgress, RebuildStep


\* Whom a step of the rebuild disturbs.
LEMMA Disturbed ==
  ASSUME RagInv, Disturb
  PROVE  /\ trust' \in [Items -> Trusts]
         /\ \A i \in Items : trust'[i] = "rebuild" => trust[i] = "rebuild"
         /\ \A i \in Items : trust'[i] \in {"task", "rows", "current"} =>
                trust[i] = trust'[i] /\ rows'[i] = rows[i] /\ docs'[i] = docs[i]
<1>1. trust \in [Items -> Trusts]
  BY RebuildInProgress
<1>. QED
  BY <1>1 DEF Disturb, Trusts

\* The chunks of the item that the rebuild has come to.
LEMMA RebuildRowStep ==
  ASSUME RagInv, RebuildRow
  PROVE  RagInv'
<1>1. rebuild.pc = "write" /\ rebuild.left \in SUBSET Items /\ rebuild.left # {} /\ rebuild \in RebuildType
  BY RebuildInProgress DEF RebuildRow, RagInv, RebuildHas, RebuildType
<1>2. PICK i \in Items : i = Newest(rebuild.left) /\ i \in rebuild.left
  BY <1>1, NewestIsIn
<1>. DEFINE x == rebuild.seen[i]
            n == rebuild.next
            f == [rows[i] EXCEPT ![n] = x.text]
<1>3. /\ n <= x.size /\ rebuild' = [rebuild EXCEPT !.next = @ + 1] /\ Disturb
      /\ UNCHANGED <<item, docs, publishing, messages, task, texts, byHand, faults>>
      /\ rows' = [rows EXCEPT ![i] = f]
  BY <1>2 DEF RebuildRow, countVars
<1>4. x \in Item /\ n \in 1..(MaxChunks + 1)
  BY <1>1 DEF RebuildType
<1>5. n \in Chunks /\ n + 1 \in 1..(MaxChunks + 1) /\ \A k \in 1..n : k = n \/ k \in 1..(n - 1)
  BY <1>3, <1>4, ItemSize, OneMoreChunk
<1>6. f \in [Chunks -> 0..MaxTexts] /\ \A k \in Chunks : f[k] = IF k = n THEN x.text ELSE rows[i][k]
  BY <1>1, <1>4, RebuildInProgress DEF Item
<1>7. /\ rows' \in [Items -> [Chunks -> 0..MaxTexts]] /\ docs' \in [Items -> [Chunks -> 0..MaxTexts]]
      /\ rows'[i] = f /\ \A j \in Items \ {i} : rows'[j] = rows[j]
  BY <1>3, <1>6, RebuildInProgress
<1>8. /\ rebuild' \in RebuildType /\ rebuild'.pc = "write" /\ rebuild'.full = rebuild.full
      /\ rebuild'.left = rebuild.left /\ rebuild'.seen = rebuild.seen /\ rebuild'.next = n + 1
  BY <1>1, <1>3, <1>5 DEF RebuildType
<1>9. RebuildHas'
  BY <1>1, <1>8 DEF RagInv, RebuildHas
<1>10. (n + 1) - 1 = n /\ \A k \in 1..n : k \in Chunks
  BY <1>4, <1>5, RagIndexAssumption DEF Chunks
<1>. HIDE DEF n, f
<1>11. ASSUME NEW j \in Items, trust[j] = "rebuild" PROVE RebuildProgress(j)'
  <2>1. RebuildProgress(j)
    BY <1>11 DEF RagInv, TrustIsEarned, Earned
  <2>2. Working(j)' = Working(j) /\ item'[j] = item[j]
    BY <1>3 DEF Working
  <2>3. CASE j = i
    <3>1. x # Absent /\ x = item[i]
      BY <1>2, <2>1, <2>3 DEF RagInv, RebuildHas, RebuildProgress
    <3>2. \A k \in 1..(n - 1) : rows[i][k] = item[i].text
      BY <1>2, <2>1, <2>3 DEF RebuildProgress, WrittenUpTo, n
    <3>3. \A k \in 1..n : rows'[i][k] = item[i].text
      BY <1>5, <1>6, <1>7, <1>10, <3>1, <3>2
    <3>4. \A k \in 1..(rebuild'.next - 1) : rows'[j][k] = item'[j].text
      BY <1>8, <1>10, <2>2, <2>3, <3>3
    <3>. QED
      BY <1>2, <1>8, <2>1, <2>2, <2>3, <3>4 DEF RebuildProgress, WrittenUpTo
  <2>4. CASE j # i
    BY <1>2, <1>7, <1>8, <2>1, <2>2, <2>4 DEF RebuildProgress, WrittenUpTo
  <2>. QED
    BY <2>3, <2>4
<1>. QED
  BY <1>3, <1>7, <1>8, <1>9, <1>11, Disturbed, RebuildInProgress, RebuildStep

\* What is left of an item's rows once its chunks are written.
LEMMA RebuildTrimStep ==
  ASSUME RagInv, RebuildTrim
  PROVE  RagInv'
<1>1. rebuild.pc = "write" /\ rebuild.left \in SUBSET Items /\ rebuild.left # {} /\ rebuild \in RebuildType
  BY RebuildInProgress DEF RebuildTrim, RagInv, RebuildHas, RebuildType
<1>2. PICK i \in Items : i = Newest(rebuild.left) /\ i \in rebuild.left
  BY <1>1, NewestIsIn
<1>. DEFINE x == rebuild.seen[i]
            f == Only(x, rows[i])
            left == rebuild.left \ {i}
            pc == IF rebuild.left # {i} THEN "write" ELSE IF rebuild.full THEN "forget" ELSE "sync"
<1>3. /\ rebuild.next > x.size /\ Disturb
      /\ rebuild' = [rebuild EXCEPT !.next = 1, !.left = @ \ {i}, !.pc = pc]
      /\ UNCHANGED <<item, docs, publishing, messages, task, texts, byHand, faults>>
      /\ rows' = [rows EXCEPT ![i] = f]
  BY <1>2 DEF RebuildTrim, countVars
<1>4. x \in Item /\ rebuild.next \in 1..(MaxChunks + 1) /\ x # Absent /\ x.public
  BY <1>1, <1>2 DEF RebuildType, RagInv, RebuildHas
<1>5. f \in [Chunks -> 0..MaxTexts]
  BY <1>4, RebuildInProgress, IndexTypes
<1>6. /\ rows' \in [Items -> [Chunks -> 0..MaxTexts]] /\ docs' \in [Items -> [Chunks -> 0..MaxTexts]]
      /\ rows'[i] = f /\ \A j \in Items \ {i} : rows'[j] = rows[j]
  BY <1>3, <1>5, RebuildInProgress
<1>7. pc \in {"write", "forget", "sync"} /\ (pc = "write" <=> left # {}) /\ (pc = "sync" => ~rebuild.full)
  BY <1>2
<1>8. 1 \in 1..(MaxChunks + 1) /\ left \in SUBSET Items
  BY <1>1, RagIndexAssumption
<1>. HIDE DEF pc
<1>9. /\ rebuild' \in RebuildType /\ rebuild'.pc = pc /\ rebuild'.full = rebuild.full
      /\ rebuild'.left = left /\ rebuild'.seen = rebuild.seen /\ rebuild'.next = 1
  BY <1>1, <1>3, <1>7, <1>8 DEF RebuildType
<1>10. RebuildHas'
  BY <1>1, <1>7, <1>9 DEF RagInv, RebuildHas
<1>. HIDE DEF f
<1>11. ASSUME NEW j \in Items, trust[j] = "rebuild" PROVE RebuildProgress(j)'
  <2>1. RebuildProgress(j)
    BY <1>11 DEF RagInv, TrustIsEarned, Earned
  <2>2. Working(j)' = Working(j) /\ item'[j] = item[j]
    BY <1>3 DEF Working
  <2>3. rebuild'.pc # "idle" /\ rebuild'.next - 1 = 0
    BY <1>7, <1>9
  <2>4. j = i => rows'[i] = Cut(item[i])
    <3>. SUFFICES ASSUME j = i PROVE rows'[i] = Cut(item[i])
      OBVIOUS
    <3>1. x = item[i] /\ \A k \in 1..(rebuild.next - 1) : rows[i][k] = item[i].text
      BY <1>2, <1>4, <2>1 DEF RebuildProgress, WrittenUpTo
    <3>2. \A k \in 1..x.size : rows[i][k] = x.text
      BY <1>3, <1>4, <3>1, ItemSize
    <3>3. Only(x, rows[i]) = Cut(x)
      <4>. HIDE DEF x
      <4>. QED
        BY <1>4, <3>2, WrittenIsCut
    <3>. QED
      BY <1>6, <3>1, <3>3 DEF f
  <2>5. j # i => rows'[j] = rows[j]
    BY <1>6
  <2>6. rebuild'.pc = "sync" => ~rebuild.full /\ left = {}
    BY <1>7, <1>9
  <2>. QED
    BY <1>9, <2>1, <2>2, <2>3, <2>4, <2>5, <2>6 DEF RebuildProgress, WrittenUpTo
<1>. QED
  BY <1>3, <1>6, <1>9, <1>10, <1>11, Disturbed, RebuildInProgress, RebuildStep

\* A full rebuild removes the rows of the items that it has not chosen.
LEMMA RebuildForgetStep ==
  ASSUME RagInv, RebuildForget
  PROVE  RagInv'
<1>1. /\ rebuild.pc = "forget" /\ rebuild' = [rebuild EXCEPT !.pc = "sync"] /\ Disturb
      /\ UNCHANGED <<item, docs, publishing, messages, task, texts, byHand, faults>>
      /\ rows' = [i \in Items |-> IF rebuild.seen[i] = Absent THEN Nothing ELSE rows[i]]
  BY DEF RebuildForget, countVars
<1>2. rebuild.left = {} /\ rebuild \in RebuildType
  BY <1>1, RebuildInProgress DEF RagInv, RebuildHas
<1>3. /\ rebuild' \in RebuildType /\ rebuild'.pc = "sync" /\ rebuild'.full = rebuild.full
      /\ rebuild'.left = {} /\ rebuild'.seen = rebuild.seen /\ rebuild'.next = rebuild.next
  BY <1>1, <1>2 DEF RebuildType
<1>4. RebuildHas'
  BY <1>3 DEF RagInv, RebuildHas
<1>5. rows' \in [Items -> [Chunks -> 0..MaxTexts]] /\ docs' \in [Items -> [Chunks -> 0..MaxTexts]]
  <2>1. Nothing \in [Chunks -> 0..MaxTexts]
    BY AbsentIsAnItem, RagIndexAssumption DEF Nothing
  <2>. QED
    BY <1>1, <2>1, RebuildInProgress
<1>6. ASSUME NEW j \in Items, trust[j] = "rebuild" PROVE RebuildProgress(j)'
  <2>1. RebuildProgress(j)
    BY <1>6 DEF RagInv, TrustIsEarned, Earned
  <2>2. Working(j)' = Working(j) /\ item'[j] = item[j]
    BY <1>1 DEF Working
  <2>3. rows'[j] = Cut(item[j])
    <3>1. CASE rebuild.seen[j] = Absent
      BY <1>1, <2>1, <3>1, HiddenIsNothing DEF RebuildProgress
    <3>2. CASE rebuild.seen[j] # Absent
      BY <1>1, <1>2, <2>1, <3>2 DEF RebuildProgress
    <3>. QED
      BY <3>1, <3>2
  <2>. QED
    BY <1>3, <2>1, <2>2, <2>3 DEF RebuildProgress
<1>. QED
  BY <1>1, <1>3, <1>4, <1>5, <1>6, Disturbed, RebuildInProgress, RebuildStep

\* The request to the search engine ends the rebuild.
LEMMA RebuildSyncStep ==
  ASSUME RagInv, RebuildSync
  PROVE  RagInv'
<1>1. /\ rebuild.pc = "sync" /\ rebuild' = IdleRebuild
      /\ UNCHANGED <<item, rows, publishing, messages, task, texts, byHand, faults>>
      /\ docs' = IF rebuild.sync THEN [i \in Items |-> Over(rebuild.seen[i], docs[i])] ELSE docs
      /\ trust' = [i \in Items |-> CASE trust[i] = "rebuild" -> IF rebuild.sync THEN "current" ELSE "rows"
                                     [] trust[i] # "rebuild" /\ docs'[i] # docs[i] -> "excused"
                                     [] OTHER -> trust[i]]
  BY DEF RebuildSync, countVars
<1>2. /\ trust \in [Items -> Trusts] /\ rows \in [Items -> [Chunks -> 0..MaxTexts]]
      /\ rebuild.seen \in [Items -> Item] /\ docs \in [Items -> [Chunks -> 0..MaxTexts]]
  BY RebuildInProgress DEF RebuildType
<1>3. docs' \in [Items -> [Chunks -> 0..MaxTexts]]
  BY <1>1, <1>2, IndexTypes
<1>4. RebuildHas'
  BY <1>1 DEF RebuildHas, IdleRebuild
<1>5. \A i \in Items : /\ trust'[i] \in Trusts \ {"rebuild"}
                       /\ trust'[i] = "task" => trust[i] = "task"
                       /\ trust'[i] = "rows" => trust[i] \in {"rebuild", "rows"}
                       /\ trust'[i] = "current" =>
                              (trust[i] = "rebuild" /\ rebuild.sync) \/ (trust[i] = "current" /\ docs'[i] = docs[i])
  BY <1>1, <1>2 DEF Trusts
<1>6. trust' \in [Items -> Trusts]
  <2>1. trust' = [i \in Items |-> trust'[i]]
    BY <1>1
  <2>. QED
    BY <1>5, <2>1
<1>7. ASSUME NEW i \in Items, trust[i] = "rebuild" PROVE RowsFollow(i)' /\ (rebuild.sync => Follows(i)')
  <2>1. RebuildProgress(i)
    BY <1>7 DEF RagInv, TrustIsEarned, Earned
  <2>2. Working(i)' = Working(i) /\ item'[i] = item[i] /\ rows'[i] = rows[i]
    BY <1>1 DEF Working
  <2>3. rebuild.sync /\ item[i].public => Only(item[i], docs'[i]) = Cut(item[i])
    <3>. SUFFICES ASSUME rebuild.sync, item[i].public PROVE Only(item[i], docs'[i]) = Cut(item[i])
      OBVIOUS
    <3>1. rebuild.seen[i] = item[i] /\ item[i] \in Item
      BY <1>2, <2>1 DEF RebuildProgress
    <3>. QED
      BY <1>1, <3>1, OverIsCut
  <2>. QED
    BY <1>1, <2>1, <2>2, <2>3 DEF RowsFollow, Follows, RebuildProgress
<1>. QED
  BY <1>1, <1>2, <1>3, <1>4, <1>5, <1>6, <1>7, RebuildInProgress, RebuildStep

LEMMA RagStep == RagInv /\ [Next]_vars => RagInv'
<1>. SUFFICES ASSUME RagInv, [Next]_vars PROVE RagInv'
  OBVIOUS
<1>1. CASE UNCHANGED vars
  <2>1. TypeOK' /\ TaskHas' /\ RebuildHas' /\ Cuttable'
    BY <1>1 DEF vars, indexVars, countVars, RagInv, TypeOK, TaskHas, RebuildHas, Cuttable
  <2>2. TrustIsEarned'
    BY <1>1, StillEarned DEF vars, indexVars, RagInv, TrustIsEarned
  <2>. QED
    BY <2>1, <2>2 DEF RagInv
<1>. QED
  BY <1>1, ContentActions, TakeTaskStep, ListKnownStep, WriteRowStep, TrimRowsStep, UnindexStep,
     IndexDocumentsStep, AttemptBreaks, RebuildStarts, RebuildRowStep, RebuildTrimStep,
     RebuildForgetStep, RebuildSyncStep, RebuildDiesStep
  DEF Next, Attempt

\* A task or a rebuild that nothing has crossed has read the item as it is, and what it
\* has written so far is the item's.
THEOREM TrustInvariant == Spec => []RagInv
  BY RagInit, RagStep, PTL DEF Spec

\* Every variable keeps its type; a task is retried at most max_retries times.
THEOREM IndexTypeCorrect == Spec => []TypeOK
  BY TrustInvariant, PTL DEF RagInv

\* What an uncrossed task or rebuild leaves are exactly the rows of the item's text.
THEOREM RowsAlwaysFollow == Spec => []RowsFollowItem
<1>1. RagInv => RowsFollowItem
  BY DEF RagInv, TrustIsEarned, Earned, RowsFollow, Follows, RowsFollowItem
<1>. QED
  BY <1>1, TrustInvariant, PTL

\* ... and each chunk of a public item can be found, unless the rebuild sent nothing.
THEOREM DocumentsAlwaysFollow == Spec => []DocumentsFollowItem
<1>1. RagInv => DocumentsFollowItem
  BY DEF RagInv, TrustIsEarned, Earned, RowsFollow, Follows, DocumentsFollowItem
<1>. QED
  BY <1>1, TrustInvariant, PTL

================================================================================
