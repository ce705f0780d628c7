-------------------------------- MODULE RagIndex --------------------------------
(***************************************************************************)
(* The retrieval index: the chunk rows of each ContentItem and its         *)
(* documents in the search engine (agent_runtime/services.py), kept up by  *)
(* the task index_content_item_rag after each ingestion, and by            *)
(* rebuild_rag_chunks, which operators and self heal run beside it.        *)
(*                                                                         *)
(* An item's text is a number, larger when newer, and is cut into `size`   *)
(* chunks; a chunk row or a document is the text it was cut from.  `public` *)
(* stands for status = published and is_public.  One worker slot executes  *)
(* the tasks (the agent queue's worker has --concurrency=1).  A search     *)
(* engine is configured (MEILISEARCH_URL).  Embeddings are left out, and   *)
(* so is the portal's own search index, and so are the commands            *)
(* reclassify_items and reanalyze_items, which change what is indexed and  *)
(* send nothing.                                                           *)
(***************************************************************************)
EXTENDS Naturals, FiniteSets

CONSTANTS
    Items,          \* numbered by publication date, the newest has the largest
    MaxChunks,      \* bound: chunks of an item
    MaxRetries,     \* max_retries of the task
    MaxTexts,       \* bound: texts ingested or cut anew
    MaxByHand,      \* bound: changes and requests by staff, and rebuilds
    MaxFaults       \* bound: lost publications, failed attempts, lost workers

ASSUME RagIndexAssumption ==
    /\ Items \subseteq Nat /\ IsFiniteSet(Items)
    /\ MaxChunks \in Nat \ {0} /\ {MaxRetries, MaxTexts, MaxByHand, MaxFaults} \subseteq Nat

VARIABLES
    item,               \* the ContentItem rows
    rows, docs,         \* ContentChunk rows, documents of the search engine
    publishing,         \* commits whose task is still to be sent
    messages,           \* tasks in the broker, by item and number of retries
    task,               \* the worker
    rebuild,            \* the process that rebuilds
    trust,              \* history: what the index of each item has been through
    texts, byHand, faults

indexVars == <<rows, docs>>
countVars == <<texts, byHand, faults>>
vars == <<item, indexVars, publishing, messages, task, rebuild, trust, countVars>>

Chunks == 1..MaxChunks
Nothing == [k \in Chunks |-> 0]
Item == [text: 0..MaxTexts, size: 0..MaxChunks, public: BOOLEAN]
Absent == [text |-> 0, size |-> 0, public |-> FALSE]
IdleTask == [pc |-> "idle", of |-> 0, tries |-> 0, seen |-> Absent, known |-> {}, next |-> 1]
IdleRebuild == [pc |-> "idle", full |-> FALSE, sync |-> FALSE,
                seen |-> [i \in Items |-> Absent], left |-> {}, next |-> 1]

Init ==
    /\ item = [i \in Items |-> Absent]
    /\ rows = [i \in Items |-> Nothing] /\ docs = [i \in Items |-> Nothing]
    /\ publishing = [i \in Items |-> 0]
    /\ messages = [m \in Items \X (0..MaxRetries) |-> 0]
    /\ task = IdleTask /\ rebuild = IdleRebuild
    /\ trust = [i \in Items |-> "excused"]
    /\ texts = 0 /\ byHand = 0 /\ faults = 0

Cut(x) == [k \in Chunks |-> IF x.public /\ k <= x.size THEN x.text ELSE 0]
Only(x, f) == [k \in Chunks |-> IF k <= x.size THEN f[k] ELSE 0]
Over(x, f) == [k \in Chunks |-> IF k <= x.size THEN x.text ELSE f[k]]
Missing == {i \in Items : item[i].public /\ rows[i] = Nothing}

Trust(i, t) == trust' = [trust EXCEPT ![i] = t]
Fault == faults < MaxFaults /\ faults' = faults + 1 /\ UNCHANGED <<texts, byHand>>
ByHand == byHand < MaxByHand /\ byHand' = byHand + 1 /\ UNCHANGED <<texts, faults>>

(***************************************************************************)
(* Content.  ingest_extracted_document commits the item with the gate's    *)
(* decision and sends the task after the commit; a text it knows already   *)
(* changes nothing and sends the task again.  The admin's actions change   *)
(* an item and send nothing; the tool reindex_items sends and changes      *)
(* nothing.                                                                *)
(***************************************************************************)
Ingest(i) ==
    /\ texts < MaxTexts /\ texts' = texts + 1
    /\ \E size \in Chunks, public \in BOOLEAN :
        item' = [item EXCEPT ![i] = [text |-> texts', size |-> size, public |-> public]]
    /\ publishing' = [publishing EXCEPT ![i] = @ + 1]
    /\ Trust(i, "stale")
    /\ UNCHANGED <<indexVars, messages, task, rebuild, byHand, faults>>

IngestKnownText(i) ==
    /\ item[i] # Absent /\ ByHand
    /\ publishing' = [publishing EXCEPT ![i] = @ + 1]
    /\ UNCHANGED <<item, indexVars, messages, task, rebuild, trust>>

Publish(i) ==
    /\ publishing[i] > 0
    /\ publishing' = [publishing EXCEPT ![i] = @ - 1]
    /\ messages' = [messages EXCEPT ![<<i, 0>>] = @ + 1]
    /\ UNCHANGED <<item, indexVars, task, rebuild, trust, countVars>>

\* The process dies, or the broker refuses, between the commit and the task.
LosePublication(i) ==
    /\ publishing[i] > 0 /\ Fault
    /\ publishing' = [publishing EXCEPT ![i] = @ - 1]
    /\ Trust(i, "excused")
    /\ UNCHANGED <<item, indexVars, messages, task, rebuild>>

ChangeVisibility(i) ==
    /\ item[i] # Absent /\ ByHand
    /\ item' = [item EXCEPT ![i].public = ~@]
    /\ Trust(i, "excused")
    /\ UNCHANGED <<indexVars, publishing, messages, task, rebuild>>

\* The text is cut anew from the stored page and waits for a review.
ReextractItem(i) ==
    /\ item[i] # Absent /\ texts < MaxTexts /\ byHand < MaxByHand
    /\ texts' = texts + 1 /\ byHand' = byHand + 1 /\ UNCHANGED faults
    /\ \E size \in Chunks : item' = [item EXCEPT ![i] = [text |-> texts', size |-> size, public |-> FALSE]]
    /\ Trust(i, "excused")
    /\ UNCHANGED <<indexVars, publishing, messages, task, rebuild>>

ReindexItem(i) ==
    /\ item[i] # Absent /\ ByHand
    /\ messages' = [messages EXCEPT ![<<i, 0>>] = @ + 1]
    /\ UNCHANGED <<item, indexVars, publishing, task, rebuild, trust>>

(***************************************************************************)
(* The task: upsert_rag_chunks_for_item.  No transaction spans its steps.  *)
(***************************************************************************)
TakeTask(i, n) ==
    /\ task.pc = "idle" /\ messages[<<i, n>>] > 0
    /\ messages' = [messages EXCEPT ![<<i, n>>] = @ - 1]
    /\ task' = [IdleTask EXCEPT !.pc = "list", !.of = i, !.tries = n, !.seen = item[i]]
    /\ Trust(i, "task")
    /\ UNCHANGED <<item, indexVars, publishing, rebuild, countVars>>

ListKnown ==
    /\ task.pc = "list"
    /\ task' = [task EXCEPT !.known = {k \in Chunks : rows[task.of][k] # 0},
                            !.pc = IF task.seen.public THEN "write" ELSE "trim"]
    /\ UNCHANGED <<item, indexVars, publishing, messages, rebuild, trust, countVars>>

WriteRow ==
    /\ task.pc = "write"
    /\ rows' = [rows EXCEPT ![task.of][task.next] = task.seen.text]
    /\ task' = [task EXCEPT !.next = @ + 1, !.pc = IF task.next = task.seen.size THEN "trim" ELSE "write"]
    /\ UNCHANGED <<item, docs, publishing, messages, rebuild, trust, countVars>>

\* Bug: rows beyond the last chunk are kept.
MutTrimRows ==
    /\ task.pc = "trim"
    /\ rows' = IF task.seen.public THEN rows ELSE [rows EXCEPT ![task.of] = Nothing]
    /\ task' = [task EXCEPT !.pc = "unindex"]
    /\ UNCHANGED <<item, docs, publishing, messages, rebuild, trust, countVars>>
TrimRows ==
    /\ task.pc = "trim"
    /\ rows' = [rows EXCEPT ![task.of] = IF task.seen.public THEN Only(task.seen, @) ELSE Nothing]
    /\ task' = [task EXCEPT !.pc = "unindex"]
    /\ UNCHANGED <<item, docs, publishing, messages, rebuild, trust, countVars>>

Finish ==
    /\ task' = IdleTask
    /\ trust' = [trust EXCEPT ![task.of] = IF @ = "task" THEN "current" ELSE @]

\* The documents of rows that were there and are no longer wanted; a failure is swallowed.
Unwanted == {k \in task.known : task.seen.public => k > task.seen.size}

\* Bug: the task returns when there is nothing to delete.
MutUnindex ==
    /\ task.pc = "unindex"
    /\ docs' = [docs EXCEPT ![task.of] = [k \in Chunks |-> IF k \in Unwanted THEN 0 ELSE @[k]]]
    /\ IF task.seen.public /\ Unwanted # {} THEN task' = [task EXCEPT !.pc = "index"] /\ UNCHANGED trust ELSE Finish
    /\ UNCHANGED <<item, rows, publishing, messages, rebuild, countVars>>
Unindex ==
    /\ task.pc = "unindex"
    /\ \/ docs' = [docs EXCEPT ![task.of] = [k \in Chunks |-> IF k \in Unwanted THEN 0 ELSE @[k]]]
          /\ UNCHANGED countVars
       \/ Unwanted # {} /\ Fault /\ UNCHANGED docs
    /\ IF task.seen.public THEN task' = [task EXCEPT !.pc = "index"] /\ UNCHANGED trust ELSE Finish
    /\ UNCHANGED <<item, rows, publishing, messages, rebuild>>

IndexDocuments ==
    /\ task.pc = "index"
    /\ docs' = [docs EXCEPT ![task.of] = Over(task.seen, @)]
    /\ Finish
    /\ UNCHANGED <<item, rows, publishing, messages, rebuild, countVars>>

Attempt == ListKnown \/ WriteRow \/ TrimRows \/ Unindex \/ IndexDocuments

Unfinished(t) == trust' = [trust EXCEPT ![task.of] = IF @ = "task" THEN t ELSE @]

\* Bug: one retry more than max_retries.
MutAttemptFails ==
    /\ task.pc # "idle" /\ Fault
    /\ task.tries <= MaxRetries
    /\ messages' = [m \in DOMAIN messages \cup {<<task.of, task.tries + 1>>} |->
                        IF m = <<task.of, task.tries + 1>> THEN 1 ELSE messages[m]]
    /\ Unfinished("stale")
    /\ task' = IdleTask
    /\ UNCHANGED <<item, indexVars, publishing, rebuild>>
\* Any exception, that of the soft time limit included, is retried and at last given up.
AttemptFails ==
    /\ task.pc # "idle" /\ Fault
    /\ IF task.tries < MaxRetries
       THEN messages' = [messages EXCEPT ![<<task.of, task.tries + 1>>] = @ + 1] /\ Unfinished("stale")
       ELSE UNCHANGED messages /\ Unfinished("excused")
    /\ task' = IdleTask
    /\ UNCHANGED <<item, indexVars, publishing, rebuild>>

\* Bug: the message is acknowledged when it is received.
MutWorkerLost ==
    /\ task.pc # "idle" /\ Fault
    /\ Unfinished("stale")
    /\ task' = IdleTask
    /\ UNCHANGED <<item, indexVars, publishing, messages, rebuild>>
\* The worker is killed or restarted: the broker has the message again.
WorkerLost ==
    /\ task.pc # "idle" /\ Fault
    /\ messages' = [messages EXCEPT ![<<task.of, task.tries>>] = @ + 1]
    /\ Unfinished("stale")
    /\ task' = IdleTask
    /\ UNCHANGED <<item, indexVars, publishing, rebuild>>

\* The hard time limit kills the process that executes the task: the message is
\* acknowledged and nothing is retried.  An attempt gets there when the exception of the
\* soft limit is swallowed with the failures of the search engine or comes too late.
HardTimeLimit ==
    /\ task.pc # "idle" /\ Fault
    /\ Unfinished("excused")
    /\ task' = IdleTask
    /\ UNCHANGED <<item, indexVars, publishing, messages, rebuild>>

(***************************************************************************)
(* rebuild_rag_chunks(): a snapshot of the newest public items, their      *)
(* chunks, for a full rebuild the removal of all other rows, and one       *)
(* request to the search engine that deletes nothing, unless sync_meili is *)
(* false.                                                                  *)
(***************************************************************************)
Newest(S) == CHOOSE i \in S : \A j \in S : j <= i
NewestPublic(n) == {i \in Items : item[i].public /\ Cardinality({j \in Items : j > i /\ item[j].public}) < n}

StartRebuild(full, sync, chosen) ==
    /\ rebuild.pc = "idle" /\ ByHand
    /\ full \/ chosen # {}
    /\ rebuild' = [pc |-> IF chosen = {} THEN "forget" ELSE "write", full |-> full, sync |-> sync,
                   left |-> chosen, next |-> 1, seen |-> [i \in Items |-> IF i \in chosen THEN item[i] ELSE Absent]]
    /\ trust' = [i \in Items |-> IF i \notin chosen /\ ~full THEN trust[i]
                                 ELSE IF task.of = i THEN "excused" ELSE "rebuild"]
    /\ UNCHANGED <<item, indexVars, publishing, messages, task>>

\* rebuild_rag_index [--limit n] [--no-meili]
RebuildRagIndex == \E sync \in BOOLEAN :
    \/ StartRebuild(TRUE, sync, {i \in Items : item[i].public})
    \/ \E n \in 1..Cardinality(Items) : StartRebuild(FALSE, sync, NewestPublic(n))

\* run_self_heal() counts the public items without a row and rebuilds as many.
SelfHeal == Missing # {} /\ StartRebuild(FALSE, TRUE, NewestPublic(Cardinality(Missing)))

\* What the rebuild changes behind a task or after it is no longer the task's work.
Disturb == trust' = [i \in Items |-> IF trust[i] # "rebuild" /\ <<rows[i], docs[i]>>' # <<rows[i], docs[i]>>
                                     THEN "excused" ELSE trust[i]]

RebuildRow ==
    LET i == Newest(rebuild.left) IN
    /\ rebuild.pc = "write" /\ rebuild.next <= rebuild.seen[i].size
    /\ rows' = [rows EXCEPT ![i][rebuild.next] = rebuild.seen[i].text]
    /\ rebuild' = [rebuild EXCEPT !.next = @ + 1]
    /\ UNCHANGED <<item, docs, publishing, messages, task, countVars>>
    /\ Disturb

RebuildTrim ==
    LET i == Newest(rebuild.left) IN
    /\ rebuild.pc = "write" /\ rebuild.next > rebuild.seen[i].size
    /\ rows' = [rows EXCEPT ![i] = Only(rebuild.seen[i], @)]
    /\ rebuild' = [rebuild EXCEPT !.next = 1, !.left = @ \ {i},
                                  !.pc = IF rebuild.left # {i} THEN "write" ELSE IF rebuild.full THEN "forget" ELSE "sync"]
    /\ UNCHANGED <<item, docs, publishing, messages, task, countVars>>
    /\ Disturb

RebuildForget ==
    /\ rebuild.pc = "forget"
    /\ rows' = [i \in Items |-> IF rebuild.seen[i] = Absent THEN Nothing ELSE rows[i]]
    /\ rebuild' = [rebuild EXCEPT !.pc = "sync"]
    /\ UNCHANGED <<item, docs, publishing, messages, task, countVars>>
    /\ Disturb

RebuildSync ==
    /\ rebuild.pc = "sync"
    /\ docs' = IF rebuild.sync THEN [i \in Items |-> Over(rebuild.seen[i], docs[i])] ELSE docs
    /\ rebuild' = IdleRebuild
    /\ UNCHANGED <<item, rows, publishing, messages, task, countVars>>
    /\ trust' = [i \in Items |-> CASE trust[i] = "rebuild" -> IF rebuild.sync THEN "current" ELSE "rows"
                                   [] trust[i] # "rebuild" /\ docs'[i] # docs[i] -> "excused"
                                   [] OTHER -> trust[i]]

RebuildDies ==
    /\ rebuild.pc # "idle" /\ Fault
    /\ rebuild' = IdleRebuild
    /\ trust' = [i \in Items |-> IF trust[i] = "rebuild" THEN "excused" ELSE trust[i]]
    /\ UNCHANGED <<item, indexVars, publishing, messages, task>>

Next ==
    \/ \E i \in Items :
        \/ Ingest(i) \/ IngestKnownText(i) \/ Publish(i) \/ LosePublication(i)
        \/ ChangeVisibility(i) \/ ReextractItem(i) \/ ReindexItem(i)
        \/ \E n \in 0..MaxRetries : TakeTask(i, n)
    \/ Attempt \/ AttemptFails \/ WorkerLost \/ HardTimeLimit
    \/ RebuildRagIndex \/ SelfHeal
    \/ RebuildRow \/ RebuildTrim \/ RebuildForget \/ RebuildSync \/ RebuildDies

Spec == Init /\ [][Next]_vars

\* Who has committed goes on to send, and the worker works.  Nothing is assumed of
\* crawls, staff, rebuilds or faults.
FairSpec ==
    /\ Spec
    /\ \A i \in Items : WF_vars(Publish(i)) /\ WF_vars(\E n \in 0..MaxRetries : TakeTask(i, n))
    /\ WF_vars(Attempt)

--------------------------------------------------------------------------------
\* Every variable keeps its type; a task is retried at most max_retries times.
TypeOK ==
    /\ item \in [Items -> Item]
    /\ {rows, docs} \subseteq [Items -> [Chunks -> 0..MaxTexts]]
    /\ publishing \in [Items -> Nat]
    /\ messages \in [Items \X (0..MaxRetries) -> Nat]
    /\ task \in [pc: {"idle", "list", "write", "trim", "unindex", "index"}, of: Items \cup {0},
                 tries: 0..MaxRetries, seen: Item, known: SUBSET Chunks, next: 1..(MaxChunks + 1)]
    /\ rebuild \in [pc: {"idle", "write", "forget", "sync"}, full: BOOLEAN, sync: BOOLEAN, seen: [Items -> Item],
                    left: SUBSET Items, next: 1..(MaxChunks + 1)]
    /\ trust \in [Items -> {"stale", "task", "rebuild", "rows", "current", "excused"}]
    /\ texts \in 0..MaxTexts /\ byHand \in 0..MaxByHand /\ faults \in 0..MaxFaults

\* A task or a rebuild that nothing crossed leaves exactly the rows of the item's text,
\* and none for a hidden item, whatever earlier attempts, crashes, rebuilds from an old
\* snapshot and changes of visibility have left behind.
RowsFollowItem == \A i \in Items : trust[i] \in {"rows", "current"} => rows[i] = Cut(item[i])

\* ... and each chunk of a public item can be found in the search engine, unless the
\* rebuild was one with --no-meili: that leaves the documents of the text before, or none,
\* until the next task or the next rebuild.
DocumentsFollowItem ==
    \A i \in Items : trust[i] = "current" /\ item[i].public => Only(item[i], docs[i]) = Cut(item[i])

\* An ingested text is indexed in the end, although attempts fail and are retried, workers
\* are lost and rebuilds run beside them, unless its message was lost, its task was given
\* up or killed at the hard time limit, staff hid the item or a rebuild wrote over it.
IndexCatchesUp == \A i \in Items : trust[i] = "stale" ~> trust[i] \in {"current", "excused"}
=================================================================================
