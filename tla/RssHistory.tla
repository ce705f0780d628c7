------------------------------ MODULE RssHistory ------------------------------
(***************************************************************************)
(* How the WeWe RSS portal collects the articles of its feeds: the loop    *)
(* that fetches a feed's history page by page, the refresh of all feeds    *)
(* and the refresh of one (wewe-rss/portal/dist/trpc/trpc.service.js).     *)
(*                                                                         *)
(* Node runs one callback at a time: what a call does between two awaits   *)
(* is one step, and calls interleave at every await.  All calls share the  *)
(* record of the history in progress and the flag of the refresh.  The     *)
(* router that calls the service is not in the repository; it is modelled  *)
(* from the feeds page and the set-up script, which ask for any feed at    *)
(* any time: the page's view of the history in progress is up to ten       *)
(* seconds old.  Articles are numbered from the newest, and none is        *)
(* published meanwhile.  The loop's limit of 1000 pages is not reached.    *)
(***************************************************************************)
EXTENDS Naturals, FiniteSets

CONSTANTS
    Feeds, Nobody,      \* mpId; the empty id, which asks a history to stop
    Histories, Refreshes,   \* calls: of a history, of a refresh of all feeds or of one
    Upstream,           \* how many articles the platform has of each feed
    PageSize,           \* defaultCount
    Retries,            \* retryCount
    Accounts,           \* reading accounts enabled at first
    MaxStops, MaxFaults \* bounds: requests to stop, failed requests to the platform

Calls == Histories \cup Refreshes

ASSUME RssHistoryAssumption ==
    /\ Feeds # {} /\ Nobody \notin Feeds
    /\ Histories \cap Refreshes = {}
    /\ Upstream \in [Feeds -> Nat] /\ PageSize \in Nat \ {0}
    /\ {Retries, Accounts, MaxStops, MaxFaults} \subseteq Nat

VARIABLES
    progress,           \* inProgressHistoryMp
    refreshing,         \* isRefreshAllMpArticlesRunning
    stored, hasHistory, \* per feed: the numbers of its articles; Feed.hasHistory
    enabled,            \* how many accounts are enabled
    at, feed, page, tries, rest,    \* per call: program point and locals
    ofAll,              \* the calls that refresh all feeds
    crossed,            \* history: feeds whose history was begun beside another one
    stops, faults

sharedVars == <<progress, refreshing>>
dbVars == <<stored, hasHistory, enabled>>
callVars == <<at, feed, page, tries, rest, ofAll>>
boundVars == <<stops, faults>>
vars == <<sharedVars, dbVars, callVars, crossed, boundVars>>

Points == {"idle", "feed", "count", "list", "account", "fetch", "update", "sleep", "done"}
NotInProgress == [id |-> Nobody, page |-> 1]
Live(c) == at[c] \notin {"idle", "done"}
Articles(f) == 1..Upstream[f]

\* A feed is added with hasHistory = 1; the page refreshes it at once, the script does not.
Init ==
    /\ progress = NotInProgress /\ refreshing = FALSE
    /\ stored = [f \in Feeds |-> {}] /\ hasHistory = [f \in Feeds |-> 1]
    /\ enabled = Accounts
    /\ at = [c \in Calls |-> "idle"] /\ feed = [c \in Calls |-> Nobody]
    /\ page = [c \in Calls |-> 0] /\ tries = [c \in Calls |-> 0] /\ rest = [c \in Calls |-> {}]
    /\ ofAll = {}
    /\ crossed = {} /\ stops = 0 /\ faults = 0

Goto(c, point) == at' = [at EXCEPT ![c] = point]

\* Locals that are not used again take their first value.
Forget(c) == page' = [page EXCEPT ![c] = 0] /\ tries' = [tries EXCEPT ![c] = 0]

(***************************************************************************)
(* refreshMpArticlesAndUpdateFeed, which all three operations call.        *)
(***************************************************************************)
BeginFetch(c, f, p) ==
    /\ Goto(c, "account")
    /\ feed' = [feed EXCEPT ![c] = f] /\ page' = [page EXCEPT ![c] = p]
    /\ tries' = [tries EXCEPT ![c] = Retries]

\* Bug: the record of the history in progress is not reset.
MutEnd(c) ==
    /\ Goto(c, "done")
    /\ refreshing' = (refreshing /\ c \notin ofAll)
    /\ feed' = [feed EXCEPT ![c] = Nobody] /\ rest' = [rest EXCEPT ![c] = {}]
    /\ ofAll' = ofAll \ {c} /\ Forget(c)
    /\ UNCHANGED progress
\* The finally blocks: a call resets what it shares, whosever it is by then.
End(c) ==
    /\ Goto(c, "done")
    /\ progress' = (IF c \in Histories THEN NotInProgress ELSE progress)
    /\ refreshing' = (refreshing /\ c \notin ofAll)
    /\ feed' = [feed EXCEPT ![c] = Nobody] /\ rest' = [rest EXCEPT ![c] = {}]
    /\ ofAll' = ofAll \ {c} /\ Forget(c)

PickAccount(c) ==
    /\ at[c] = "account"
    /\ IF enabled = 0 THEN End(c)
                      ELSE Goto(c, "fetch") /\ UNCHANGED <<sharedVars, feed, page, tries, rest, ofAll>>
    /\ UNCHANGED <<dbVars, crossed, boundVars>>

\* The platform numbers its pages from 1 and is taken to answer page 0 like page 1.
PageOf(f, p) ==
    LET first == IF p = 0 THEN 1 ELSE p
    IN {a \in Articles(f) : (first - 1) * PageSize < a /\ a <= first * PageSize}

Store(c) ==
    /\ at[c] = "fetch"
    /\ stored' = [stored EXCEPT ![feed[c]] = @ \cup PageOf(feed[c], page[c])]
    /\ Goto(c, "update")
    /\ UNCHANGED <<sharedVars, hasHistory, enabled, feed, page, tries, rest, ofAll, crossed, boundVars>>

\* A request fails: its account may be disabled (WeReadError401); another account is
\* tried, until no retry is left.
FetchFails(c) ==
    /\ at[c] = "fetch" /\ faults < MaxFaults
    /\ faults' = faults + 1
    /\ enabled' \in {enabled, IF enabled = 0 THEN 0 ELSE enabled - 1}
    /\ IF tries[c] = 0
       THEN End(c)
       ELSE /\ Goto(c, "account") /\ tries' = [tries EXCEPT ![c] = @ - 1]
            /\ UNCHANGED <<sharedVars, feed, page, rest, ofAll>>
    /\ UNCHANGED <<stored, hasHistory, crossed, stops>>

\* Bug: a full page counts as the last one.
MutHasMore(f, p) == Cardinality(PageOf(f, p)) > PageSize
HasMore(f, p) == Cardinality(PageOf(f, p)) >= PageSize

\* Bug: the page is not counted up.
MutUpdate(c) ==
    /\ at[c] = "update"
    /\ LET more == HasMore(feed[c], page[c])
       IN /\ hasHistory' = [hasHistory EXCEPT ![feed[c]] = IF more THEN 1 ELSE 0]
          /\ IF (c \in Refreshes \ ofAll) \/ (c \in Histories /\ ~more)
             THEN End(c)
             ELSE /\ Goto(c, "sleep") /\ Forget(c)
                  /\ UNCHANGED <<progress, refreshing, feed, rest, ofAll>>
    /\ UNCHANGED <<stored, enabled, crossed, boundVars>>

\* feed.update, and what the call does next: a history counts up the page of the record
\* that is current, although it may be another call's by now.
Update(c) ==
    /\ at[c] = "update"
    /\ LET more == HasMore(feed[c], page[c])
       IN /\ hasHistory' = [hasHistory EXCEPT ![feed[c]] = IF more THEN 1 ELSE 0]
          /\ IF (c \in Refreshes \ ofAll) \/ (c \in Histories /\ ~more)
             THEN End(c)
             ELSE /\ Goto(c, "sleep") /\ Forget(c)
                  /\ progress' = (IF c \in Histories THEN [progress EXCEPT !.page = @ + 1] ELSE progress)
                  /\ UNCHANGED <<refreshing, feed, rest, ofAll>>
    /\ UNCHANGED <<stored, enabled, crossed, boundVars>>

\* A query or a save raises.  The query for all feeds is made before the try block.
QueryFails(c) ==
    /\ at[c] \in {"feed", "count", "list", "fetch", "update"} /\ faults < MaxFaults
    /\ faults' = faults + 1
    /\ IF at[c] = "list" THEN Goto(c, "done") /\ UNCHANGED <<sharedVars, feed, page, tries, rest, ofAll>>
                         ELSE End(c)
    /\ UNCHANGED <<dbVars, crossed, stops>>

(***************************************************************************)
(* getHistoryMpArticles                                                    *)
(***************************************************************************)
AnotherHistory(c) == \E h \in Histories \ {c} : Live(h)

RequestHistory(c, f) ==
    /\ at[c] = "idle"
    /\ IF progress.id = f
       THEN Goto(c, "done") /\ UNCHANGED <<progress, feed, crossed>>
       ELSE /\ Goto(c, "feed") /\ progress' = [id |-> f, page |-> 1]
            /\ feed' = [feed EXCEPT ![c] = f]
            /\ crossed' = IF AnotherHistory(c) THEN crossed \cup {f} ELSE crossed
    /\ UNCHANGED <<refreshing, dbVars, page, tries, rest, ofAll, boundVars>>

StopHistory ==
    /\ progress.id # Nobody /\ stops < MaxStops
    /\ progress' = NotInProgress /\ stops' = stops + 1
    /\ UNCHANGED <<refreshing, dbVars, callVars, crossed, faults>>

ReadFeed(c) ==
    /\ at[c] = "feed"
    /\ IF hasHistory[feed[c]] = 0
       THEN End(c)
       ELSE Goto(c, "count") /\ UNCHANGED <<sharedVars, feed, page, tries, rest, ofAll>>
    /\ UNCHANGED <<dbVars, crossed, boundVars>>

PagesFilled(f) == (Cardinality(stored[f]) + PageSize - 1) \div PageSize

\* The history resumes at the last page it has.  In the same step the loop looks for the
\* first time whether it is still the one in progress; if not, it resets the record, so
\* that the page it has just written there does not matter.
CountArticles(c) ==
    /\ at[c] = "count"
    /\ IF progress.id # feed[c]
       THEN End(c)
       ELSE /\ progress' = [progress EXCEPT !.page = PagesFilled(feed[c])]
            /\ BeginFetch(c, feed[c], PagesFilled(feed[c]))
            /\ UNCHANGED <<refreshing, rest, ofAll>>
    /\ UNCHANGED <<dbVars, crossed, boundVars>>

NextPage(c) ==
    /\ at[c] = "sleep" /\ c \in Histories
    /\ IF progress.id # feed[c]
       THEN End(c)
       ELSE BeginFetch(c, feed[c], progress.page) /\ UNCHANGED <<sharedVars, rest, ofAll>>
    /\ UNCHANGED <<dbVars, crossed, boundVars>>

(***************************************************************************)
(* refreshAllMpArticlesAndUpdateFeed: the flag is looked at before the     *)
(* feeds are read and set after it, so that two refreshes can run; the     *)
(* first to end clears the flag.  A failure ends the refresh for the rest. *)
(***************************************************************************)
RequestRefresh(c) ==
    /\ at[c] = "idle" /\ c \in Refreshes
    /\ Goto(c, IF refreshing THEN "done" ELSE "list")
    /\ UNCHANGED <<sharedVars, dbVars, feed, page, tries, rest, ofAll, crossed, boundVars>>

ListFeeds(c) ==
    /\ at[c] = "list"
    /\ refreshing' = TRUE /\ ofAll' = ofAll \cup {c}
    /\ \E f \in Feeds : BeginFetch(c, f, 1) /\ rest' = [rest EXCEPT ![c] = Feeds \ {f}]
    /\ UNCHANGED <<progress, dbVars, crossed, boundVars>>

NextFeed(c) ==
    /\ at[c] = "sleep" /\ c \in Refreshes
    /\ IF rest[c] = {}
       THEN End(c)
       ELSE /\ \E f \in rest[c] : BeginFetch(c, f, 1) /\ rest' = [rest EXCEPT ![c] = @ \ {f}]
            /\ UNCHANGED <<sharedVars, ofAll>>
    /\ UNCHANGED <<dbVars, crossed, boundVars>>

\* The refresh of one feed, which shares nothing.
RequestOne(c, f) ==
    /\ at[c] = "idle" /\ c \in Refreshes
    /\ BeginFetch(c, f, 1)
    /\ UNCHANGED <<sharedVars, dbVars, rest, ofAll, crossed, boundVars>>

--------------------------------------------------------------------------------
Request ==
    \/ \E f \in Feeds : \/ \E c \in Histories : RequestHistory(c, f)
                       \/ \E c \in Refreshes : RequestOne(c, f)
    \/ \E c \in Refreshes : RequestRefresh(c)
    \/ StopHistory

Advance(c) ==
    \/ ReadFeed(c) \/ CountArticles(c) \/ NextPage(c)
    \/ ListFeeds(c) \/ NextFeed(c)
    \/ PickAccount(c) \/ Store(c) \/ Update(c)

Next == Request \/ \E c \in Calls : Advance(c) \/ FetchFails(c) \/ QueryFails(c)

Spec == Init /\ [][Next]_vars

\* Queries are answered, a request to the platform is answered or times out after 15
\* seconds, and the timer of a sleep goes off.
FairSpec == Spec /\ \A c \in Calls : WF_vars(Advance(c))

--------------------------------------------------------------------------------
\* Every variable keeps its type.
TypeOK ==
    /\ progress \in [id: Feeds \cup {Nobody}, page: Nat] /\ refreshing \in BOOLEAN
    /\ stored \in [Feeds -> SUBSET Nat] /\ \A f \in Feeds : stored[f] \subseteq Articles(f)
    /\ hasHistory \in [Feeds -> {0, 1}] /\ enabled \in 0..Accounts
    /\ at \in [Calls -> Points] /\ feed \in [Calls -> Feeds \cup {Nobody}]
    /\ page \in [Calls -> Nat] /\ tries \in [Calls -> 0..Retries]
    /\ rest \in [Calls -> SUBSET Feeds] /\ ofAll \subseteq Refreshes
    /\ crossed \subseteq Feeds /\ stops \in 0..MaxStops /\ faults \in 0..MaxFaults

\* The guards do not stick: while the record names a feed a history of that feed is under
\* way, and while the flag is set a refresh is, whatever fails, is stopped or runs
\* beside.  Else "is running" would be answered for ever (lines 203 and 250).
GuardsDoNotStick ==
    /\ progress.id # Nobody => \E h \in Histories : Live(h) /\ feed[h] = progress.id
    /\ refreshing => \E r \in ofAll : Live(r)

\* The history of a feed that was never begun while another was under way has no hole:
\* what is stored is its newest articles up to some point, through stops, failures and
\* resumptions at the counted page; and when the feed is marked as having no more
\* history, after which the page does not offer to fetch it, it is complete.
HistoryHasNoHole ==
    \A f \in Feeds \ crossed :
        /\ \A a \in stored[f] : 1..a \subseteq stored[f]
        /\ hasHistory[f] = 0 => stored[f] = Articles(f)

\* Every call ends, also those whose record another call has taken or reset.
CallsEnd == \A c \in Calls : Live(c) ~> at[c] = "done"
================================================================================
