----------------------------- MODULE CrawlFailures -----------------------------
(***************************************************************************)
(* The failures recorded for one URL of one source: rows that the crawler, *)
(* the WeWe RSS import and the recheck command write after a visit of the  *)
(* URL (aggregator/services/pipeline.py), the cleanup of duplicates and    *)
(* the acknowledgement of pages that are gone.  No statement of a visit or *)
(* of the cleanup is in a transaction with the next.                       *)
(*                                                                         *)
(* A URL may be visited at any time: the crawler visits what it discovers, *)
(* whatever is recorded of it.  When a failure is due again (retry_count,  *)
(* next_retry_at) is left out.  Rows are numbered as they are created.     *)
(***************************************************************************)
EXTENDS Naturals, Sequences

CONSTANTS
    Visits,             \* visits of the URL by any of the three
    Cleaner,            \* the run of cleanup_crawl_failures
    MaxCrashes          \* bound

ASSUME CrawlFailuresAssumption == Cleaner \notin Visits /\ MaxCrashes \in Nat

VARIABLES
    rows,               \* CrawlFailure: open (resolved_at is null), kind, ack
    recent,             \* the rows' numbers by updated_at, the latest last
    at, got,            \* per visit: program point and outcome
    kept,               \* last_failure of a visit, latest of the cleanup; 0 is none
    alone,              \* history: those under way that nobody else ran beside
    settled,            \* history: outcome of the last visit that writes, if no other write crossed it
    crashes

failureVars == <<rows, recent, at, got, kept, alone, settled, crashes>>

\* _classify_failure: the permanent ones are an expired notice and HTTP 404 and 410.
Gone == {"404", "410"}
Kinds == {"transient", "expired"} \cup Gone
Actors == Visits \cup {Cleaner}
Points == {"idle", "read", "create", "others", "save", "resolve", "again", "older", "done"}

FailuresInit ==
    /\ rows = <<>> /\ recent = <<>>
    /\ at = [o \in Actors |-> "idle"] /\ got = [v \in Visits |-> "ok"]
    /\ kept = [o \in Actors |-> 0]
    /\ alone = {} /\ settled = "ok" /\ crashes = 0

Move(o, point) == at' = [at EXCEPT ![o] = point]
Busy == {o \in Actors : at[o] \notin {"idle", "done"}}
OpenFailures == {i \in DOMAIN rows : rows[i].open}
Begin(o) == alone' = IF Busy = {} THEN {o} ELSE {}
End(o, outcome) ==
    /\ Move(o, "done") /\ alone' = alone \ {o}
    /\ settled' = IF o \in alone THEN outcome ELSE "unknown"
CloseOthers(i) == rows' = [j \in DOMAIN rows |-> [rows[j] EXCEPT !.open = @ /\ j = i]]
Touch(i) == recent' = Append(SelectSeq(recent, LAMBDA j : j # i), i)

(***************************************************************************)
(* A visit: _mark_crawl_failure_resolved after a success, otherwise        *)
(* _record_crawl_failure, which keeps the newest open row.  The crawler's  *)
(* visit of a listing page only does the latter.                           *)
(***************************************************************************)
Visit(v) ==
    /\ at[v] = "idle"
    /\ \E k \in Kinds \cup {"ok"} :
        /\ got' = [got EXCEPT ![v] = k]
        /\ Move(v, IF k = "ok" THEN "resolve" ELSE "read")
    /\ Begin(v)
    /\ UNCHANGED <<rows, recent, kept, settled, crashes>>

\* A listing page was fetched: nothing is marked, a failure recorded before stays open.
ListPage(v) ==
    /\ at[v] = "idle"
    /\ Move(v, "done")
    /\ UNCHANGED <<rows, recent, got, kept, alone, settled, crashes>>

\* The crawler marks the URL of an article in ingest_url and again in ingest_source, the import once.
MarkResolved(v) ==
    /\ at[v] \in {"resolve", "again"}
    /\ CloseOthers(0)
    /\ \/ End(v, "ok")
       \/ at[v] = "resolve" /\ Move(v, "again") /\ UNCHANGED <<alone, settled>>
    /\ UNCHANGED <<recent, got, kept, crashes>>

ReadLast(v) ==
    /\ at[v] = "read"
    /\ IF OpenFailures = {}
       THEN Move(v, "create") /\ UNCHANGED kept
       ELSE \E i \in OpenFailures :
                /\ \A j \in OpenFailures : j <= i
                /\ kept' = [kept EXCEPT ![v] = i] /\ Move(v, "others")
    /\ UNCHANGED <<rows, recent, got, alone, settled, crashes>>

Create(v) ==
    /\ at[v] = "create"
    /\ rows' = Append(rows, [open |-> TRUE, kind |-> got[v], ack |-> "none"])
    /\ recent' = Append(recent, Len(rows) + 1)
    /\ End(v, got[v])
    /\ UNCHANGED <<got, kept, crashes>>

\* Bug: the other open rows are left open.
MutResolveOthers(v) ==
    /\ at[v] = "others"
    /\ Move(v, "save")
    /\ UNCHANGED <<rows, recent, got, kept, alone, settled, crashes>>
ResolveOthers(v) ==
    /\ at[v] = "others"
    /\ CloseOthers(kept[v])
    /\ Move(v, "save")
    /\ UNCHANGED <<recent, got, kept, alone, settled, crashes>>

\* Bug: the acknowledgement is not among the saved fields.
MutSave(v) ==
    /\ at[v] = "save"
    /\ rows' = [rows EXCEPT ![kept[v]].kind = got[v]]
    /\ Touch(kept[v])
    /\ End(v, got[v])
    /\ UNCHANGED <<got, kept, crashes>>
\* Everything is saved but resolved_at, so that a row resolved meanwhile stays resolved.
Save(v) ==
    /\ at[v] = "save"
    /\ rows' = [rows EXCEPT ![kept[v]].kind = got[v], ![kept[v]].ack = "none"]
    /\ Touch(kept[v])
    /\ End(v, got[v])
    /\ UNCHANGED <<got, kept, crashes>>

Crash(v) ==
    /\ at[v] \notin {"idle", "done"} /\ crashes < MaxCrashes
    /\ Move(v, "done") /\ alone' = alone \ {v} /\ settled' = "unknown"
    /\ crashes' = crashes + 1
    /\ UNCHANGED <<rows, recent, got, kept>>

(***************************************************************************)
(* The commands.                                                           *)
(***************************************************************************)
\* Of several open rows the cleanup keeps the one updated last, the recorder the one
\* created last.
UpdatedLast(i) == \E m \in DOMAIN recent :
                      recent[m] = i /\ \A n \in DOMAIN recent : n > m => recent[n] \notin OpenFailures

Cleanup ==
    /\ at[Cleaner] = "idle" /\ \E i, j \in OpenFailures : i # j
    /\ \E i \in OpenFailures : UpdatedLast(i) /\ kept' = [kept EXCEPT ![Cleaner] = i]
    /\ Move(Cleaner, "older") /\ Begin(Cleaner)
    /\ UNCHANGED <<rows, recent, got, settled, crashes>>

ResolveOlder ==
    /\ at[Cleaner] = "older"
    /\ CloseOthers(kept[Cleaner])
    /\ End(Cleaner, settled)
    /\ UNCHANGED <<recent, got, kept, crashes>>

\* acknowledge_crawl_failures checks and saves under the row's lock.
Acknowledge(i) ==
    /\ rows[i].open /\ rows[i].ack = "none" /\ rows[i].kind \in Gone
    /\ rows' = [rows EXCEPT ![i].ack = rows[i].kind]
    /\ Touch(i)
    /\ UNCHANGED <<at, got, kept, alone, settled, crashes>>

--------------------------------------------------------------------------------
Record(v) ==
    \/ Visit(v) \/ ListPage(v) \/ MarkResolved(v)
    \/ ReadLast(v) \/ Create(v) \/ ResolveOthers(v) \/ Save(v) \/ Crash(v)

FailuresNext == (\E v \in Visits : Record(v)) \/ Cleanup \/ ResolveOlder \/ (\E i \in DOMAIN rows : Acknowledge(i))

FailuresSpec == FailuresInit /\ [][FailuresNext]_failureVars

--------------------------------------------------------------------------------
\* An acknowledged row is one of a page that is gone, with the status that was
\* acknowledged, although visits save over it what they found: the table's check
\* constraint (crawlfailure_acknowledgement_valid) never makes a save fail.
AcknowledgedIsGone ==
    \A i \in DOMAIN rows : rows[i].ack # "none" => rows[i].ack \in Gone /\ rows[i].kind = rows[i].ack

\* A visit that writes, and that nobody else's statements crossed, leaves the failure rows
\* as it found the page: none open after an article's, an import's or a recheck's success,
\* otherwise exactly one, with what it found, whatever duplicates earlier visits have left;
\* and acknowledgements do not change that.  Nor does a listing page that is fetched: its
\* row stays open although the page answers, until the URL is rechecked or visited as an
\* article (_failed_retry_urls sees to that, unless the failure counts as permanent).
SettledOutcome ==
    Busy = {} /\ settled # "unknown" =>
        IF settled = "ok" THEN OpenFailures = {}
        ELSE \E i \in DOMAIN rows : OpenFailures = {i} /\ rows[i].kind = settled
================================================================================
