--------------------------- MODULE RssHistoryProofs ---------------------------
(***************************************************************************)
(* The guards of the portal do not stick, and a history that was never     *)
(* begun beside another has no hole, for any number of feeds, articles,    *)
(* calls, stops and faults and any page size.                              *)
(*                                                                         *)
(* The argument for the second: while the record names a feed whose        *)
(* history was begun alone, the history of that feed is the only one under *)
(* way, so that nobody else counts up its page; and a call that is about   *)
(* to fetch a page has all the articles of the pages before it.            *)
(***************************************************************************)
EXTENDS RssHistory, FiniteSetTheorems, TLAPS

Fetching == {"account", "fetch", "update"}

\* The newest n articles of a feed, or all if it has fewer, are stored.
Filled(f, n) == \A a \in Articles(f) : a <= n => a \in stored[f]

\* Where the two kinds of call can stand, and what they have in hand there.
CallsInOrder ==
    /\ \A h \in Histories : at[h] # "list" /\ (Live(h) => feed[h] \in Feeds)
    /\ \A r \in Refreshes :
           /\ at[r] \notin {"feed", "count"} /\ (at[r] \in {"idle", "list"} => r \notin ofAll)
           /\ at[r] \in Fetching => page[r] = 1 /\ feed[r] \in Feeds

FilledBefore ==
    \A c \in Calls :
        feed[c] \notin crossed =>
            /\ at[c] \in Fetching => Filled(feed[c], (page[c] - 1) * PageSize)
            /\ at[c] = "update" => PageOf(feed[c], page[c]) \subseteq stored[feed[c]]

RecordOwned ==
    progress.id \in Feeds \ crossed =>
        /\ \A h, k \in Histories : Live(h) /\ Live(k) => h = k
        /\ \A h \in Histories :
               /\ at[h] \in Fetching => progress.page = page[h]
               /\ at[h] = "sleep" => Filled(progress.id, (progress.page - 1) * PageSize)

RssInv == TypeOK /\ GuardsDoNotStick /\ CallsInOrder /\ FilledBefore /\ RecordOwned /\ HistoryHasNoHole

--------------------------------------------------------------------------------
\* A page holds the articles up to its last that no page before it holds, and those before
\* are of the pages before; a page that is not full is the last.
LEMMA Pages ==
  ASSUME NEW f \in Feeds, NEW p \in Nat
  PROVE  /\ PageOf(f, p) \subseteq Articles(f)
         /\ \A a \in PageOf(f, p) : \A b \in 1..a : b \in PageOf(f, p) \/ b <= (p - 1) * PageSize
         /\ \A a \in Articles(f) : a <= p * PageSize => a \in PageOf(f, p) \/ a <= (p - 1) * PageSize
         /\ ~HasMore(f, p) => \A a \in Articles(f) : a \in PageOf(f, p) \/ a <= (p - 1) * PageSize
<1>. DEFINE first == IF p = 0 THEN 1 ELSE p
            start == (first - 1) * PageSize
<1>1. Upstream[f] \in Nat /\ PageSize \in Nat /\ PageSize > 0
  BY RssHistoryAssumption
<1>2. first \in Nat /\ first >= 1 /\ (p > 0 => first = p)
  OBVIOUS
<1>3. start \in Nat /\ first * PageSize = start + PageSize
  BY <1>1, <1>2
<1>4. /\ p > 0 => (p - 1) * PageSize = start /\ p * PageSize = start + PageSize
      /\ p = 0 => start = 0 /\ p * PageSize = 0
  BY <1>1, <1>2, <1>3
<1>5. PageOf(f, p) = {a \in Articles(f) : start < a /\ a <= start + PageSize}
  BY <1>3 DEF PageOf
<1>6. Articles(f) = 1..Upstream[f]
  BY DEF Articles
<1>. HIDE DEF first, start
<1>7. PageOf(f, p) \subseteq Articles(f)
  BY <1>5
<1>8. ASSUME NEW a \in PageOf(f, p), NEW b \in 1..a
      PROVE  b \in PageOf(f, p) \/ b <= (p - 1) * PageSize
  <2>1. b \in PageOf(f, p) \/ b <= start
    BY <1>1, <1>3, <1>5, <1>6
  <2>2. p > 0 \/ b > start
    BY <1>4
  <2>. QED
    BY <1>1, <1>3, <1>4, <2>1, <2>2
<1>9. ASSUME NEW a \in Articles(f), a <= p * PageSize
      PROVE  a \in PageOf(f, p) \/ a <= (p - 1) * PageSize
  <2>1. p > 0
    BY <1>4, <1>6, <1>9
  <2>. QED
    BY <1>1, <1>3, <1>4, <1>5, <1>6, <1>9, <2>1
<1>10. ASSUME ~HasMore(f, p), NEW a \in Articles(f)
       PROVE  a \in PageOf(f, p) \/ a <= (p - 1) * PageSize
  <2>1. Upstream[f] < start + PageSize
    <3>. SUFFICES ASSUME Upstream[f] >= start + PageSize PROVE FALSE
      BY <1>1, <1>3
    <3>1. PageOf(f, p) = (start + 1)..(start + PageSize)
      BY <1>1, <1>3, <1>5, <1>6
    <3>2. Cardinality(PageOf(f, p)) = PageSize
      <4>1. start + 1 \in Int /\ start + PageSize \in Int
        BY <1>1, <1>3
      <4>2. Cardinality((start + 1)..(start + PageSize)) =
              IF start + 1 > start + PageSize THEN 0 ELSE (start + PageSize) - (start + 1) + 1
        BY <4>1, FS_Interval
      <4>. QED
        BY <1>1, <1>3, <3>1, <4>2
    <3>. QED
      BY <1>1, <1>10, <3>2 DEF HasMore
  <2>2. a \in Nat /\ a >= 1 /\ a <= Upstream[f]
    BY <1>1, <1>6
  <2>3. a \in PageOf(f, p) \/ a <= start
    BY <1>1, <1>3, <1>5, <2>1, <2>2
  <2>4. p > 0 \/ a > start
    BY <1>4, <2>2
  <2>. QED
    BY <1>4, <2>2, <2>3, <2>4
<1>. QED
  BY <1>7, <1>8, <1>9, <1>10

\* Rounding up gives a number of pages, the last of which holds the last article.
LEMMA RoundedUp ==
  ASSUME NEW n \in Nat, NEW d \in Nat \ {0}
  PROVE  /\ (n + d - 1) \div d \in Nat
         /\ ((n + d - 1) \div d - 1) * d < n
<1>. DEFINE m == n + d - 1
            q == m \div d
<1>1. m \in Nat
  OBVIOUS
<1>2. q \in Nat /\ q * d <= m
  BY <1>1
<1>3. (q - 1) * d = q * d - d
  BY <1>2
<1>. HIDE DEF q
<1>4. q * d \in Nat
  BY <1>2
<1>. QED
  BY <1>2, <1>3, <1>4 DEF q

LEMMA CallsAre == Calls = Histories \cup Refreshes /\ Histories \cap Refreshes = {} /\ Nobody \notin Feeds
  BY RssHistoryAssumption DEF Calls

LEMMA BoundsAre ==
  /\ Retries \in Nat /\ Accounts \in Nat /\ MaxStops \in Nat /\ MaxFaults \in Nat
  /\ 0 \in 0..Retries /\ Retries \in 0..Retries /\ PageSize \in Nat /\ PageSize > 0
  BY RssHistoryAssumption

LEMMA RssInit == Init => RssInv
<1>. SUFFICES ASSUME Init PROVE RssInv
  OBVIOUS
<1>1. TypeOK
  <2>1. NotInProgress \in [id: Feeds \cup {Nobody}, page: Nat]
    BY DEF NotInProgress
  <2>2. stored \in [Feeds -> SUBSET Nat] /\ \A f \in Feeds : stored[f] \subseteq Articles(f)
    BY DEF Init
  <2>3. enabled \in 0..Accounts /\ stops \in 0..MaxStops /\ faults \in 0..MaxFaults
    BY BoundsAre DEF Init
  <2>4. tries \in [Calls -> 0..Retries] /\ hasHistory \in [Feeds -> {0, 1}]
    BY BoundsAre DEF Init
  <2>5. at \in [Calls -> Points] /\ feed \in [Calls -> Feeds \cup {Nobody}]
    BY DEF Init, Points
  <2>6. rest \in [Calls -> SUBSET Feeds] /\ page \in [Calls -> Nat]
    BY DEF Init
  <2>. QED
    BY <2>1, <2>2, <2>3, <2>4, <2>5, <2>6 DEF Init, TypeOK
<1>2. GuardsDoNotStick /\ CallsInOrder /\ FilledBefore /\ RecordOwned
  BY CallsAre
  DEF Init, GuardsDoNotStick, CallsInOrder, FilledBefore, RecordOwned, NotInProgress, Live, Fetching
<1>3. HistoryHasNoHole
  BY DEF Init, HistoryHasNoHole
<1>. QED
  BY <1>1, <1>2, <1>3 DEF RssInv

\* A call ends.  It may be that it has just learnt that a feed is complete.
LEMMA EndStep ==
  ASSUME RssInv, NEW c \in Calls, End(c), UNCHANGED <<stored, crossed>>,
         hasHistory' \in [Feeds -> {0, 1}],
         \A f \in Feeds \ crossed : hasHistory'[f] = 0 => stored[f] = Articles(f),
         enabled' \in 0..Accounts, stops' \in 0..MaxStops, faults' \in 0..MaxFaults
  PROVE  RssInv'
<1>. USE DEF RssInv
<1>1. TypeOK'
  <2>1. NotInProgress \in [id: Feeds \cup {Nobody}, page: Nat]
    BY DEF NotInProgress
  <2>2. progress' \in [id: Feeds \cup {Nobody}, page: Nat] /\ refreshing' \in BOOLEAN
    BY <2>1 DEF TypeOK, End
  <2>3. tries' \in [Calls -> 0..Retries] /\ page' \in [Calls -> Nat]
    BY BoundsAre DEF TypeOK, End, Forget
  <2>. QED
    BY <2>2, <2>3 DEF TypeOK, End, Goto, Points
<1>2. /\ at'[c] = "done" /\ \A b \in Calls \ {c} : at'[b] = at[b] /\ feed'[b] = feed[b] /\ page'[b] = page[b]
      /\ c \in Histories => progress'.id = Nobody
      /\ c \notin Histories => progress' = progress
      /\ ofAll' = ofAll \ {c} /\ ofAll \subseteq Refreshes
      /\ c \in ofAll => ~refreshing'
      /\ refreshing' => refreshing
  BY DEF TypeOK, End, Goto, Forget, NotInProgress
<1>3. GuardsDoNotStick'
  <2>1. ASSUME progress'.id # Nobody
        PROVE  \E h \in Histories : Live(h)' /\ feed'[h] = progress'.id
    BY <1>2, <2>1, CallsAre DEF GuardsDoNotStick, Live
  <2>2. ASSUME refreshing'
        PROVE  \E r \in ofAll' : Live(r)'
    BY <1>2, <2>2, CallsAre DEF GuardsDoNotStick, Live
  <2>. QED
    BY <2>1, <2>2 DEF GuardsDoNotStick
<1>4. CallsInOrder'
  BY <1>2, CallsAre DEF CallsInOrder, Live, Fetching
<1>5. FilledBefore'
  BY <1>2, CallsAre DEF FilledBefore, Fetching, Filled
<1>6. RecordOwned'
  BY <1>2, CallsAre DEF RecordOwned, Fetching, Filled, Live
<1>7. HistoryHasNoHole'
  BY DEF HistoryHasNoHole
<1>. QED
  BY <1>1, <1>3, <1>4, <1>5, <1>6, <1>7

\* A call is about to fetch a page; all before it is stored.
LEMMA BeginFetchStep ==
  ASSUME RssInv, NEW c \in Calls, NEW f \in Feeds, NEW p \in Nat, BeginFetch(c, f, p),
         UNCHANGED <<dbVars, crossed, boundVars>>,
         c \in Histories => Live(c) /\ feed[c] = f /\ progress.id = f /\ progress'.page = p,
         c \in Refreshes => p = 1 /\ progress' = progress,
         progress' \in [id: Feeds \cup {Nobody}, page: Nat], progress'.id = progress.id,
         refreshing' \in BOOLEAN, ofAll' \subseteq Refreshes, ofAll' \subseteq ofAll \cup {c},
         rest' \in [Calls -> SUBSET Feeds],
         refreshing' => c \in ofAll' \/ (refreshing /\ ofAll' = ofAll),
         f \notin crossed => Filled(f, (p - 1) * PageSize)
  PROVE  RssInv'
<1>. USE DEF RssInv
<1>1. TypeOK'
  <2>1. tries' \in [Calls -> 0..Retries]
    BY BoundsAre DEF TypeOK, BeginFetch
  <2>. QED
    BY <2>1 DEF TypeOK, BeginFetch, Goto, Points, dbVars, boundVars
<1>2. /\ at'[c] = "account" /\ feed'[c] = f /\ page'[c] = p
      /\ \A b \in Calls \ {c} : at'[b] = at[b] /\ feed'[b] = feed[b] /\ page'[b] = page[b]
  BY DEF TypeOK, BeginFetch, Goto
<1>3. GuardsDoNotStick'
  <2>1. ASSUME progress'.id # Nobody
        PROVE  \E h \in Histories : Live(h)' /\ feed'[h] = progress'.id
    <3>1. PICK h \in Histories : Live(h) /\ feed[h] = progress.id
      BY <2>1 DEF GuardsDoNotStick
    <3>2. Live(h)' /\ feed'[h] = progress.id
      BY <1>2, <3>1, CallsAre DEF Live
    <3>. QED
      BY <3>2
  <2>2. ASSUME refreshing'
        PROVE  \E r \in ofAll' : Live(r)'
    BY <1>2, <2>2, CallsAre DEF GuardsDoNotStick, Live, TypeOK
  <2>. QED
    BY <2>1, <2>2 DEF GuardsDoNotStick
<1>4. CallsInOrder'
  BY <1>2, CallsAre DEF CallsInOrder, Live, Fetching
<1>5. FilledBefore'
  BY <1>2, CallsAre DEF FilledBefore, Fetching, Filled, dbVars
<1>6. RecordOwned'
  <2>1. CASE c \in Histories
    BY <1>2, <2>1, CallsAre DEF RecordOwned, Fetching, Filled, Live, dbVars
  <2>2. CASE c \in Refreshes
    BY <1>2, <2>2, CallsAre DEF RecordOwned, Fetching, Filled, Live, dbVars
  <2>. QED
    BY <2>1, <2>2, CallsAre
<1>7. HistoryHasNoHole'
  BY DEF HistoryHasNoHole, dbVars
<1>. QED
  BY <1>1, <1>3, <1>4, <1>5, <1>6, <1>7

\* A call goes on with the feed and the page it has.
LEMMA GoOnStep ==
  ASSUME RssInv, NEW c \in Calls, Live(c), NEW s \in {"account", "fetch", "count"}, Goto(c, s),
         s = "count" <=> at[c] = "feed", at[c] \in Fetching \cup {"feed"},
         UNCHANGED <<sharedVars, stored, hasHistory, feed, page, rest, ofAll, crossed, stops>>,
         tries' \in [Calls -> 0..Retries], enabled' \in 0..Accounts, faults' \in 0..MaxFaults
  PROVE  RssInv'
<1>. USE DEF RssInv
<1>1. TypeOK'
  BY DEF TypeOK, Goto, Points, sharedVars
<1>2. at'[c] = s /\ \A b \in Calls \ {c} : at'[b] = at[b]
  BY DEF TypeOK, Goto
<1>3. GuardsDoNotStick'
  <2>1. \A b \in Calls : Live(b) => Live(b)'
    BY <1>2 DEF Live
  <2>2. ofAll \subseteq Calls /\ Histories \subseteq Calls
    BY CallsAre DEF TypeOK
  <2>. QED
    BY <2>1, <2>2 DEF GuardsDoNotStick, sharedVars
<1>4. CallsInOrder'
  BY <1>2, CallsAre DEF CallsInOrder, Live, Fetching
<1>5. FilledBefore'
  BY <1>2 DEF FilledBefore, Fetching, Filled
<1>6. RecordOwned'
  BY <1>2, CallsAre DEF RecordOwned, Fetching, Filled, Live, sharedVars
<1>7. HistoryHasNoHole'
  BY DEF HistoryHasNoHole
<1>. QED
  BY <1>1, <1>3, <1>4, <1>5, <1>6, <1>7

LEMMA StoreStep ==
  ASSUME RssInv, NEW c \in Calls, Store(c)
  PROVE  RssInv'
<1>. USE DEF RssInv
<1>. DEFINE f == feed[c]
            p == page[c]
<1>1. /\ f \in Feeds /\ p \in Nat /\ at[c] = "fetch" /\ Live(c)
      /\ f \notin crossed => Filled(f, (p - 1) * PageSize)
  BY CallsAre DEF TypeOK, Store, CallsInOrder, FilledBefore, Fetching, Live
<1>2. /\ at'[c] = "update" /\ \A b \in Calls \ {c} : at'[b] = at[b]
      /\ UNCHANGED <<sharedVars, hasHistory, enabled, feed, page, tries, rest, ofAll, crossed, boundVars>>
  BY DEF TypeOK, Store, Goto
<1>3. /\ stored'[f] = stored[f] \cup PageOf(f, p)
      /\ \A g \in Feeds \ {f} : stored'[g] = stored[g]
  BY <1>1 DEF TypeOK, Store
<1>4. PageOf(f, p) \subseteq Articles(f) /\ Articles(f) \subseteq Nat
  BY <1>1, Pages DEF Articles
<1>. HIDE DEF f, p
<1>5. TypeOK'
  <2>1. stored' \in [Feeds -> SUBSET Nat]
    BY <1>1, <1>4 DEF Store, TypeOK, f, p
  <2>2. \A g \in Feeds : stored'[g] \subseteq Articles(g)
    BY <1>1, <1>3, <1>4 DEF TypeOK
  <2>. QED
    BY <2>1, <2>2 DEF TypeOK, Store, Goto, Points, sharedVars, boundVars
<1>6. GuardsDoNotStick'
  <2>1. \A b \in Calls : Live(b) => Live(b)'
    BY <1>2 DEF Live
  <2>2. ofAll \subseteq Calls /\ Histories \subseteq Calls
    BY CallsAre DEF TypeOK
  <2>. QED
    BY <1>2, <2>1, <2>2 DEF GuardsDoNotStick, sharedVars
<1>7. CallsInOrder'
  BY <1>1, <1>2, CallsAre DEF CallsInOrder, Live, Fetching
<1>8. \A g \in Feeds : \A n \in Int : Filled(g, n) => Filled(g, n)'
  BY <1>1, <1>3 DEF Filled
<1>9. FilledBefore'
  <2>1. ASSUME NEW b \in Calls, feed[b] \notin crossed, at'[b] \in Fetching
        PROVE  /\ Filled(feed[b], (page[b] - 1) * PageSize)'
               /\ at'[b] = "update" => PageOf(feed[b], page[b]) \subseteq stored'[feed[b]]
    <3>1. feed[b] \in Feeds /\ (page[b] - 1) * PageSize \in Int
      BY <1>1, <1>2, <2>1, CallsAre, RssHistoryAssumption DEF CallsInOrder, Live, Fetching, TypeOK
    <3>2. Filled(feed[b], (page[b] - 1) * PageSize)
      BY <1>1, <1>2, <2>1 DEF FilledBefore, Fetching
    <3>3. Filled(feed[b], (page[b] - 1) * PageSize)'
      <4>1. Filled(feed[b], (page[b] - 1) * PageSize)' <=> \A a \in Articles(feed[b]) : a <= (page[b] - 1) * PageSize => a \in stored'[feed[b]]
        BY <1>2 DEF Filled, Articles
      <4>. QED
        BY <1>1, <1>3, <3>1, <3>2, <4>1 DEF Filled
    <3>4. CASE b = c
      BY <1>3, <3>3, <3>4 DEF f, p
    <3>5. CASE b # c
      <4>1. at[b] = "update" => PageOf(feed[b], page[b]) \subseteq stored[feed[b]]
        BY <2>1 DEF FilledBefore
      <4>. QED
        BY <1>1, <1>2, <1>3, <3>1, <3>3, <3>5, <4>1
    <3>. QED
      BY <3>4, <3>5
  <2>2. UNCHANGED <<feed, page, crossed>>
    BY <1>2
  <2>. QED
    BY <2>1, <2>2 DEF FilledBefore, Fetching, PageOf, Articles
<1>10. RecordOwned'
  <2>. SUFFICES ASSUME progress.id \in Feeds \ crossed
                PROVE  RecordOwned'
    BY <1>2 DEF RecordOwned, sharedVars
  <2>1. \A h, k \in Histories : Live(h)' /\ Live(k)' => h = k
    BY <1>1, <1>2, CallsAre DEF RecordOwned, Live
  <2>2. ASSUME NEW h \in Histories
        PROVE  /\ at'[h] \in Fetching => progress'.page = page'[h]
               /\ at'[h] = "sleep" => Filled(progress.id, (progress.page - 1) * PageSize)'
    <3>1. h \in Calls /\ progress' = progress /\ page' = page
      BY <1>2, CallsAre DEF sharedVars
    <3>2. at'[h] \in Fetching => progress'.page = page'[h]
      BY <1>1, <1>2, <3>1 DEF RecordOwned, Fetching
    <3>3. ASSUME at'[h] = "sleep"
          PROVE  Filled(progress.id, (progress.page - 1) * PageSize)'
      <4>1. Filled(progress.id, (progress.page - 1) * PageSize)
        BY <1>2, <3>1, <3>3 DEF RecordOwned
      <4>2. progress.page \in Nat /\ (progress.page - 1) * PageSize \in Int
        BY RssHistoryAssumption DEF TypeOK
      <4>. QED
        BY <1>1, <1>3, <3>1, <4>1 DEF Filled
    <3>. QED
      BY <3>2, <3>3
  <2>. QED
    BY <1>2, <2>1, <2>2 DEF RecordOwned, sharedVars
<1>11. HistoryHasNoHole'
  <2>1. ASSUME NEW g \in Feeds \ crossed, NEW a \in stored'[g]
        PROVE  1..a \subseteq stored'[g]
    <3>1. CASE a \in stored[g]
      <4>1. 1..a \subseteq stored[g]
        BY <2>1, <3>1 DEF HistoryHasNoHole
      <4>. QED
        BY <1>3, <4>1
    <3>2. CASE g = f /\ a \in PageOf(f, p)
      <4>1. ASSUME NEW b \in 1..a PROVE b \in stored'[g]
        <5>1. b \in PageOf(f, p) \/ b <= (p - 1) * PageSize
          BY <1>1, <3>2, Pages
        <5>2. b \in Articles(f)
          BY <1>1, <1>4, <3>2, RssHistoryAssumption DEF Articles
        <5>. QED
          BY <1>1, <1>3, <2>1, <3>2, <5>1, <5>2 DEF Filled
      <4>. QED
        BY <4>1
    <3>. QED
      BY <1>3, <2>1, <3>1, <3>2
  <2>2. ASSUME NEW g \in Feeds \ crossed, hasHistory[g] = 0
        PROVE  stored'[g] = Articles(g)
    BY <1>3, <1>4, <2>2 DEF HistoryHasNoHole
  <2>3. UNCHANGED <<hasHistory, crossed>>
    BY <1>2
  <2>. QED
    BY <2>1, <2>2, <2>3 DEF HistoryHasNoHole, Articles
<1>. QED
  BY <1>5, <1>6, <1>7, <1>9, <1>10, <1>11

\* What a call that has stored its page knows when the page was not full: all is there.
LEMMA LastPage ==
  ASSUME RssInv, NEW c \in Calls, at[c] = "update", feed[c] \notin crossed,
         ~HasMore(feed[c], page[c])
  PROVE  stored[feed[c]] = Articles(feed[c])
<1>. USE DEF RssInv
<1>1. feed[c] \in Feeds /\ page[c] \in Nat
  BY CallsAre DEF TypeOK, CallsInOrder, Fetching, Live
<1>2. /\ Filled(feed[c], (page[c] - 1) * PageSize)
      /\ PageOf(feed[c], page[c]) \subseteq stored[feed[c]]
  BY DEF FilledBefore, Fetching
<1>3. Articles(feed[c]) \subseteq stored[feed[c]]
  BY <1>1, <1>2, Pages DEF Filled
<1>. QED
  BY <1>1, <1>3 DEF TypeOK

\* And when it was full: what is before the next page.
LEMMA PageDone ==
  ASSUME RssInv, NEW c \in Calls, at[c] = "update", feed[c] \notin crossed
  PROVE  Filled(feed[c], page[c] * PageSize)
<1>. USE DEF RssInv
<1>1. feed[c] \in Feeds /\ page[c] \in Nat
  BY CallsAre DEF TypeOK, CallsInOrder, Fetching, Live
<1>2. /\ Filled(feed[c], (page[c] - 1) * PageSize)
      /\ PageOf(feed[c], page[c]) \subseteq stored[feed[c]]
  BY DEF FilledBefore, Fetching
<1>. QED
  BY <1>1, <1>2, Pages DEF Filled

LEMMA UpdateStep ==
  ASSUME RssInv, NEW c \in Calls, Update(c)
  PROVE  RssInv'
<1>. USE DEF RssInv
<1>. DEFINE f == feed[c]
            more == HasMore(f, page[c])
<1>1. /\ f \in Feeds /\ page[c] \in Nat /\ at[c] = "update" /\ Live(c)
      /\ c \in Refreshes => page[c] = 1
  BY CallsAre DEF TypeOK, Update, CallsInOrder, Fetching, Live
<1>2. /\ UNCHANGED <<stored, enabled, crossed, stops, faults>>
      /\ hasHistory' = [hasHistory EXCEPT ![f] = IF more THEN 1 ELSE 0]
  BY DEF Update, boundVars
<1>3. /\ hasHistory' \in [Feeds -> {0, 1}]
      /\ \A g \in Feeds \ crossed : hasHistory'[g] = 0 => stored[g] = Articles(g)
  <2>1. f \notin crossed /\ ~more => stored[f] = Articles(f)
    BY <1>1, LastPage
  <2>. HIDE DEF f, more
  <2>2. hasHistory' \in [Feeds -> {0, 1}]
    BY <1>2 DEF TypeOK
  <2>3. ASSUME NEW g \in Feeds \ crossed, hasHistory'[g] = 0
        PROVE  stored[g] = Articles(g)
    BY <1>1, <1>2, <2>1, <2>3 DEF TypeOK, HistoryHasNoHole
  <2>. QED
    BY <2>2, <2>3
<1>4. CASE End(c)
  BY <1>2, <1>3, <1>4, EndStep DEF TypeOK
<1>5. CASE ~End(c)
  <2>1. /\ Goto(c, "sleep") /\ Forget(c) /\ UNCHANGED <<refreshing, feed, rest, ofAll>>
        /\ progress' = (IF c \in Histories THEN [progress EXCEPT !.page = @ + 1] ELSE progress)
    BY <1>5 DEF Update
  <2>2. /\ at'[c] = "sleep"
        /\ \A b \in Calls \ {c} : at'[b] = at[b] /\ page'[b] = page[b]
        /\ progress'.id = progress.id
        /\ c \in Histories => progress'.page = progress.page + 1
    BY <2>1 DEF TypeOK, Goto, Forget
  <2>3. TypeOK'
    <3>1. progress' \in [id: Feeds \cup {Nobody}, page: Nat]
      BY <2>1 DEF TypeOK
    <3>2. tries' \in [Calls -> 0..Retries] /\ page' \in [Calls -> Nat]
      BY <2>1, BoundsAre DEF TypeOK, Forget
    <3>3. at' \in [Calls -> Points]
      BY <2>1 DEF TypeOK, Goto, Points
    <3>. QED
      BY <1>2, <1>3, <2>1, <3>1, <3>2, <3>3 DEF TypeOK
  <2>4. GuardsDoNotStick'
    <3>1. \A b \in Calls : Live(b) => Live(b)'
      BY <2>2 DEF Live
    <3>2. ofAll \subseteq Calls /\ Histories \subseteq Calls
      BY CallsAre DEF TypeOK
    <3>. QED
      BY <2>1, <2>2, <3>1, <3>2 DEF GuardsDoNotStick
  <2>5. CallsInOrder'
    BY <1>1, <2>1, <2>2, CallsAre DEF CallsInOrder, Live, Fetching
  <2>6. FilledBefore'
    BY <1>2, <2>1, <2>2 DEF FilledBefore, Fetching, Filled
  <2>7. RecordOwned'
    <3>. SUFFICES ASSUME progress.id \in Feeds \ crossed
                  PROVE  RecordOwned'
      BY <1>2, <2>2 DEF RecordOwned
    <3>1. \A h, k \in Histories : Live(h)' /\ Live(k)' => h = k
      BY <1>1, <2>2, CallsAre DEF RecordOwned, Live
    <3>2. CASE c \in Histories
      <4>1. \A h \in Histories \ {c} : at'[h] \in {"idle", "done"}
        BY <1>1, <2>2, <3>2, CallsAre DEF RecordOwned, Live
      <4>2. f = progress.id
        BY <1>1, <3>2, RssHistoryAssumption DEF RecordOwned, GuardsDoNotStick
      <4>3. progress.page = page[c]
        BY <1>1, <3>2 DEF RecordOwned, Fetching
      <4>4. Filled(f, page[c] * PageSize)
        BY <1>1, <4>2, PageDone
      <4>5. progress'.page - 1 = page[c]
        BY <1>1, <2>2, <3>2, <4>3
      <4>. QED
        BY <1>2, <2>2, <3>1, <4>1, <4>2, <4>4, <4>5 DEF RecordOwned, Fetching, Filled
    <3>3. CASE c \notin Histories
      <4>1. progress' = progress
        BY <2>1, <3>3
      <4>2. \A h \in Histories : h # c /\ h \in Calls
        BY <3>3, CallsAre
      <4>. QED
        BY <1>2, <2>2, <3>1, <4>1, <4>2 DEF RecordOwned, Fetching, Filled
    <3>. QED
      BY <3>2, <3>3
  <2>8. HistoryHasNoHole'
    BY <1>2, <1>3 DEF HistoryHasNoHole
  <2>. QED
    BY <2>3, <2>4, <2>5, <2>6, <2>7, <2>8
<1>. QED
  BY <1>4, <1>5

\* A history begins: alone, or its feed is crossed from now on.
LEMMA RequestHistoryStep ==
  ASSUME RssInv, NEW c \in Histories, NEW f \in Feeds, RequestHistory(c, f)
  PROVE  RssInv'
<1>. USE DEF RssInv
<1>1. c \in Calls /\ at[c] = "idle" /\ UNCHANGED <<refreshing, dbVars, page, tries, rest, ofAll, boundVars>>
  BY CallsAre DEF RequestHistory
<1>2. CASE progress.id = f
  <2>1. Goto(c, "done") /\ UNCHANGED <<progress, feed, crossed>>
    BY <1>2 DEF RequestHistory
  <2>2. at'[c] = "done" /\ \A b \in Calls \ {c} : at'[b] = at[b]
    BY <1>1, <2>1 DEF TypeOK, Goto
  <2>3. TypeOK'
    BY <1>1, <2>1 DEF TypeOK, Goto, Points, dbVars, boundVars
  <2>4. \A b \in Calls : Live(b) = Live(b)'
    BY <1>1, <2>2 DEF Live
  <2>5. GuardsDoNotStick'
    BY <1>1, <2>1, <2>4, CallsAre DEF GuardsDoNotStick, TypeOK
  <2>6. CallsInOrder' /\ FilledBefore'
    BY <1>1, <2>1, <2>2, CallsAre DEF CallsInOrder, FilledBefore, Live, Fetching, Filled, dbVars
  <2>7. RecordOwned' /\ HistoryHasNoHole'
    BY <1>1, <2>1, <2>2, <2>4, CallsAre DEF RecordOwned, HistoryHasNoHole, Fetching, Filled, dbVars
  <2>. QED
    BY <2>3, <2>5, <2>6, <2>7
<1>3. CASE progress.id # f
  <2>1. /\ Goto(c, "feed") /\ progress' = [id |-> f, page |-> 1] /\ feed' = [feed EXCEPT ![c] = f]
        /\ crossed' = IF AnotherHistory(c) THEN crossed \cup {f} ELSE crossed
    BY <1>3 DEF RequestHistory
  <2>2. /\ at'[c] = "feed" /\ feed'[c] = f /\ progress'.id = f
        /\ \A b \in Calls \ {c} : at'[b] = at[b] /\ feed'[b] = feed[b]
        /\ crossed \subseteq crossed' /\ crossed' \subseteq Feeds
    BY <1>1, <2>1 DEF TypeOK, Goto
  <2>3. TypeOK'
    BY <1>1, <2>1, <2>2 DEF TypeOK, Goto, Points, dbVars, boundVars
  <2>4. GuardsDoNotStick'
    <3>1. Live(c)' /\ feed'[c] = progress'.id
      BY <2>2 DEF Live
    <3>2. \A b \in Calls : Live(b) => Live(b)'
      BY <1>1, <2>2 DEF Live
    <3>. QED
      BY <1>1, <3>1, <3>2, CallsAre DEF GuardsDoNotStick, TypeOK
  <2>5. CallsInOrder' /\ FilledBefore'
    BY <1>1, <2>2, CallsAre DEF CallsInOrder, FilledBefore, Live, Fetching, Filled, dbVars
  <2>6. RecordOwned'
    <3>1. CASE AnotherHistory(c)
      BY <2>1, <2>2, <3>1 DEF RecordOwned
    <3>2. CASE ~AnotherHistory(c)
      <4>1. \A h \in Histories \ {c} : ~Live(h)' /\ at'[h] \in {"idle", "done"}
        BY <2>2, <3>2, CallsAre DEF AnotherHistory, Live
      <4>. QED
        BY <2>2, <4>1 DEF RecordOwned, Fetching
    <3>. QED
      BY <3>1, <3>2
  <2>7. HistoryHasNoHole'
    BY <1>1, <2>2 DEF HistoryHasNoHole, dbVars
  <2>. QED
    BY <2>3, <2>4, <2>5, <2>6, <2>7
<1>. QED
  BY <1>2, <1>3

LEMMA StopStep ==
  ASSUME RssInv, StopHistory
  PROVE  RssInv'
<1>. USE DEF RssInv
<1>1. progress'.id = Nobody /\ UNCHANGED <<refreshing, dbVars, callVars, crossed, faults>>
  BY DEF StopHistory, NotInProgress
<1>2. TypeOK'
  <2>1. NotInProgress \in [id: Feeds \cup {Nobody}, page: Nat]
    BY DEF NotInProgress
  <2>2. stops' \in 0..MaxStops
    BY BoundsAre DEF StopHistory, TypeOK
  <2>. QED
    BY <1>1, <2>1, <2>2 DEF TypeOK, StopHistory, dbVars, callVars
<1>3. GuardsDoNotStick'
  BY <1>1 DEF GuardsDoNotStick, Live, callVars
<1>4. CallsInOrder' /\ FilledBefore'
  BY <1>1 DEF CallsInOrder, FilledBefore, Live, Fetching, Filled, callVars, dbVars
<1>5. RecordOwned' /\ HistoryHasNoHole'
  BY <1>1, CallsAre DEF RecordOwned, HistoryHasNoHole, dbVars
<1>. QED
  BY <1>2, <1>3, <1>4, <1>5

\* The articles counted reach into the last page counted, so those before it are stored.
LEMMA CountedPages ==
  ASSUME RssInv, NEW f \in Feeds, f \notin crossed
  PROVE  PagesFilled(f) \in Nat /\ Filled(f, (PagesFilled(f) - 1) * PageSize)
<1>. USE DEF RssInv
<1>. DEFINE n == Cardinality(stored[f])
<1>1. stored[f] \subseteq Articles(f) /\ Articles(f) = 1..Upstream[f] /\ Upstream[f] \in Nat
  BY RssHistoryAssumption DEF TypeOK, Articles
<1>2. IsFiniteSet(stored[f]) /\ n \in Nat
  <2>1. IsFiniteSet(1..Upstream[f])
    BY <1>1, FS_Interval
  <2>2. IsFiniteSet(stored[f])
    BY <1>1, <2>1, FS_Subset
  <2>. QED
    BY <2>2, FS_CardinalityType
<1>3. PagesFilled(f) \in Nat /\ (PagesFilled(f) - 1) * PageSize < n
  BY <1>2, RoundedUp, RssHistoryAssumption DEF PagesFilled
<1>4. ASSUME NEW a \in Articles(f), a <= (PagesFilled(f) - 1) * PageSize, a \notin stored[f]
      PROVE  FALSE
  <2>1. a \in Nat /\ a >= 1
    BY <1>1
  <2>2. \A b \in stored[f] : b < a
    <3>1. ASSUME NEW b \in stored[f], b >= a PROVE FALSE
      <4>1. 1..b \subseteq stored[f]
        BY DEF HistoryHasNoHole
      <4>. QED
        BY <1>1, <1>4, <2>1, <3>1, <4>1
    <3>. QED
      BY <1>1, <2>1, <3>1
  <2>3. stored[f] \subseteq 1..(a - 1)
    BY <1>1, <2>1, <2>2
  <2>4. IsFiniteSet(1..(a - 1)) /\ Cardinality(1..(a - 1)) = a - 1
    BY <2>1, FS_Interval
  <2>5. n <= a - 1
    BY <2>3, <2>4, FS_Subset
  <2>6. (PagesFilled(f) - 1) * PageSize \in Int
    BY <1>3, RssHistoryAssumption
  <2>. QED
    BY <1>2, <1>3, <1>4, <2>1, <2>5, <2>6
<1>. QED
  BY <1>3, <1>4 DEF Filled

LEMMA PagesFilledType ==
  ASSUME RssInv, NEW f \in Feeds
  PROVE  PagesFilled(f) \in Nat
<1>1. stored[f] \subseteq 1..Upstream[f] /\ Upstream[f] \in Nat
  BY RssHistoryAssumption DEF RssInv, TypeOK, Articles
<1>2. IsFiniteSet(1..Upstream[f])
  BY <1>1, FS_Interval
<1>3. IsFiniteSet(stored[f])
  BY <1>1, <1>2, FS_Subset
<1>4. Cardinality(stored[f]) \in Nat
  BY <1>3, FS_CardinalityType
<1>. QED
  BY <1>4, RoundedUp, RssHistoryAssumption DEF PagesFilled

LEMMA HistorySteps ==
  ASSUME RssInv, NEW c \in Calls, ReadFeed(c) \/ CountArticles(c) \/ NextPage(c)
  PROVE  RssInv'
<1>. USE DEF RssInv
<1>1. /\ c \in Histories /\ c \notin Refreshes /\ Live(c) /\ feed[c] \in Feeds
      /\ UNCHANGED <<dbVars, crossed, boundVars>>
  BY CallsAre DEF ReadFeed, CountArticles, NextPage, CallsInOrder, Live
<1>2. ASSUME End(c) PROVE RssInv'
  BY <1>1, <1>2, EndStep DEF dbVars, boundVars, TypeOK, HistoryHasNoHole
<1>3. CASE ReadFeed(c)
  <2>1. CASE hasHistory[feed[c]] = 0
    BY <1>2, <1>3, <2>1 DEF ReadFeed
  <2>2. CASE hasHistory[feed[c]] # 0
    BY <1>1, <1>3, <2>2, GoOnStep DEF ReadFeed, dbVars, boundVars, TypeOK, Fetching
  <2>. QED
    BY <2>1, <2>2
<1>4. CASE CountArticles(c)
  <2>1. CASE progress.id # feed[c]
    BY <1>2, <1>4, <2>1 DEF CountArticles
  <2>2. CASE progress.id = feed[c]
    <3>. DEFINE n == PagesFilled(feed[c])
    <3>1. /\ progress' = [progress EXCEPT !.page = n] /\ BeginFetch(c, feed[c], n)
          /\ UNCHANGED <<refreshing, rest, ofAll>>
      BY <1>4, <2>2 DEF CountArticles
    <3>2. n \in Nat /\ (feed[c] \notin crossed => Filled(feed[c], (n - 1) * PageSize))
      BY <1>1, CountedPages, PagesFilledType
    <3>. HIDE DEF n
    <3>3. /\ progress' \in [id: Feeds \cup {Nobody}, page: Nat]
          /\ progress'.id = progress.id /\ progress'.page = n
      BY <3>1, <3>2 DEF TypeOK
    <3>4. refreshing' \in BOOLEAN /\ ofAll' \subseteq Refreshes /\ rest' \in [Calls -> SUBSET Feeds]
      BY <3>1 DEF TypeOK
    <3>. QED
      BY <1>1, <2>2, <3>1, <3>2, <3>3, <3>4, BeginFetchStep
  <2>. QED
    BY <2>1, <2>2
<1>5. CASE NextPage(c)
  <2>1. CASE progress.id # feed[c]
    BY <1>2, <1>5, <2>1 DEF NextPage
  <2>2. CASE progress.id = feed[c]
    <3>1. /\ BeginFetch(c, feed[c], progress.page) /\ UNCHANGED <<sharedVars, rest, ofAll>>
          /\ at[c] = "sleep"
      BY <1>5, <2>2 DEF NextPage
    <3>2. progress.page \in Nat
      BY DEF TypeOK
    <3>3. feed[c] \notin crossed => Filled(feed[c], (progress.page - 1) * PageSize)
      BY <1>1, <2>2, <3>1 DEF RecordOwned
    <3>4. /\ refreshing' \in BOOLEAN /\ ofAll' \subseteq Refreshes /\ rest' \in [Calls -> SUBSET Feeds]
          /\ progress' \in [id: Feeds \cup {Nobody}, page: Nat] /\ progress' = progress
          /\ refreshing' = refreshing /\ ofAll' = ofAll
      BY <3>1 DEF TypeOK, sharedVars
    <3>. QED
      BY <1>1, <2>2, <3>1, <3>2, <3>3, <3>4, BeginFetchStep
  <2>. QED
    BY <2>1, <2>2
<1>. QED
  BY <1>3, <1>4, <1>5

LEMMA RefreshSteps ==
  ASSUME RssInv, NEW c \in Calls, ListFeeds(c) \/ NextFeed(c)
  PROVE  RssInv'
<1>. USE DEF RssInv
<1>1. /\ c \in Refreshes /\ c \notin Histories
      /\ UNCHANGED <<dbVars, crossed, boundVars>>
  BY CallsAre DEF ListFeeds, NextFeed, CallsInOrder
<1>2. /\ progress \in [id: Feeds \cup {Nobody}, page: Nat] /\ 1 \in Nat /\ (1 - 1) * PageSize = 0
      /\ \A f \in Feeds : Filled(f, 0)
  BY RssHistoryAssumption DEF TypeOK, Filled, Articles
<1>3. CASE ListFeeds(c)
  <2>1. PICK f \in Feeds : BeginFetch(c, f, 1) /\ rest' = [rest EXCEPT ![c] = Feeds \ {f}]
    BY <1>3 DEF ListFeeds
  <2>2. /\ rest' \in [Calls -> SUBSET Feeds] /\ refreshing' \in BOOLEAN /\ ofAll' \subseteq Refreshes
        /\ c \in ofAll' /\ progress' = progress /\ ofAll' \subseteq ofAll \cup {c}
    BY <1>1, <1>3, <2>1 DEF TypeOK, ListFeeds
  <2>. QED
    BY <1>1, <1>2, <2>1, <2>2, BeginFetchStep
<1>4. CASE NextFeed(c)
  <2>1. CASE rest[c] = {}
    BY <1>1, <1>4, <2>1, EndStep DEF NextFeed, dbVars, boundVars, TypeOK, HistoryHasNoHole
  <2>2. CASE rest[c] # {}
    <3>1. PICK f \in rest[c] : BeginFetch(c, f, 1) /\ rest' = [rest EXCEPT ![c] = @ \ {f}]
      BY <1>4, <2>2 DEF NextFeed
    <3>2. f \in Feeds /\ rest' \in [Calls -> SUBSET Feeds]
      BY <3>1 DEF TypeOK
    <3>3. /\ refreshing' \in BOOLEAN /\ ofAll' \subseteq Refreshes /\ progress' = progress
          /\ refreshing' = refreshing /\ ofAll' = ofAll
      BY <1>4, <2>2 DEF NextFeed, TypeOK, sharedVars
    <3>. QED
      BY <1>1, <1>2, <3>1, <3>2, <3>3, BeginFetchStep
  <2>. QED
    BY <2>1, <2>2
<1>. QED
  BY <1>3, <1>4

LEMMA RefreshRequests ==
  ASSUME RssInv, NEW c \in Refreshes,
         RequestRefresh(c) \/ (\E f \in Feeds : RequestOne(c, f))
  PROVE  RssInv'
<1>. USE DEF RssInv
<1>0. c \in Calls /\ c \notin Histories /\ at[c] = "idle"
  BY CallsAre DEF RequestRefresh, RequestOne
<1>1. CASE RequestRefresh(c)
  <2>0. PICK s \in {"done", "list"} : Goto(c, s)
    BY <1>1 DEF RequestRefresh
  <2>1. /\ UNCHANGED <<sharedVars, dbVars, feed, page, tries, rest, ofAll, crossed, boundVars>>
        /\ at' \in [Calls -> Points] /\ at'[c] \in {"done", "list"}
        /\ \A b \in Calls \ {c} : at'[b] = at[b]
    BY <1>0, <1>1, <2>0 DEF RequestRefresh, Goto, TypeOK, Points
  <2>2. TypeOK'
    BY <2>1 DEF TypeOK, sharedVars, dbVars, boundVars
  <2>3. \A b \in Calls : Live(b) => Live(b)'
    BY <1>0, <2>1 DEF Live
  <2>4. GuardsDoNotStick'
    BY <2>1, <2>3, CallsAre DEF GuardsDoNotStick, TypeOK, sharedVars
  <2>5. CallsInOrder' /\ FilledBefore'
    BY <1>0, <2>1, CallsAre DEF CallsInOrder, FilledBefore, Live, Fetching, Filled, dbVars
  <2>6. RecordOwned' /\ HistoryHasNoHole'
    BY <1>0, <2>1, CallsAre
    DEF RecordOwned, HistoryHasNoHole, Live, Fetching, Filled, dbVars, sharedVars
  <2>. QED
    BY <2>2, <2>4, <2>5, <2>6
<1>2. CASE \E f \in Feeds : RequestOne(c, f)
  <2>1. PICK f \in Feeds : RequestOne(c, f)
    BY <1>2
  <2>2. /\ progress' = progress /\ refreshing' = refreshing /\ rest' = rest /\ ofAll' = ofAll
        /\ BeginFetch(c, f, 1) /\ UNCHANGED <<dbVars, crossed, boundVars>>
        /\ refreshing' \in BOOLEAN /\ ofAll' \subseteq Refreshes /\ rest' \in [Calls -> SUBSET Feeds]
        /\ progress' \in [id: Feeds \cup {Nobody}, page: Nat]
    BY <2>1 DEF RequestOne, sharedVars, TypeOK
  <2>3. 1 \in Nat /\ (1 - 1) * PageSize = 0 /\ Filled(f, 0)
    BY RssHistoryAssumption DEF Filled, Articles
  <2>. QED
    BY <1>0, <2>2, <2>3, BeginFetchStep
<1>. QED
  BY <1>1, <1>2

LEMMA FetchSteps ==
  ASSUME RssInv, NEW c \in Calls, PickAccount(c) \/ FetchFails(c) \/ QueryFails(c)
  PROVE  RssInv'
<1>. USE DEF RssInv
<1>0. enabled \in 0..Accounts /\ faults \in 0..MaxFaults /\ stops \in 0..MaxStops /\ Live(c)
  BY DEF TypeOK, PickAccount, FetchFails, QueryFails, Live
<1>1. ASSUME End(c), UNCHANGED <<stored, hasHistory, crossed, stops>>,
             enabled' \in 0..Accounts, faults' \in 0..MaxFaults
      PROVE  RssInv'
  BY <1>0, <1>1, EndStep DEF TypeOK, HistoryHasNoHole
<1>2. CASE PickAccount(c)
  <2>1. CASE enabled = 0
    BY <1>0, <1>1, <1>2, <2>1 DEF PickAccount, dbVars, boundVars
  <2>2. CASE enabled # 0
    <3>1. tries' \in [Calls -> 0..Retries]
      BY <1>2, <2>2 DEF PickAccount, TypeOK
    <3>. QED
      BY <1>0, <1>2, <2>2, <3>1, GoOnStep DEF PickAccount, dbVars, boundVars, Fetching
  <2>. QED
    BY <2>1, <2>2
<1>3. CASE FetchFails(c)
  <2>1. faults' \in 0..MaxFaults /\ enabled' \in 0..Accounts
    BY <1>0, <1>3, BoundsAre DEF FetchFails
  <2>2. CASE tries[c] = 0
    BY <1>1, <1>3, <2>1, <2>2 DEF FetchFails
  <2>3. CASE tries[c] # 0
    <3>1. tries' \in [Calls -> 0..Retries]
      <4>1. tries[c] \in 0..Retries
        BY DEF TypeOK
      <4>2. tries[c] - 1 \in 0..Retries
        BY <2>3, <4>1, BoundsAre
      <4>. QED
        BY <1>3, <2>3, <4>2 DEF FetchFails, TypeOK
    <3>. QED
      BY <1>0, <1>3, <2>1, <2>3, <3>1, GoOnStep DEF FetchFails, Fetching
  <2>. QED
    BY <2>2, <2>3
<1>4. CASE QueryFails(c)
  <2>1. faults' \in 0..MaxFaults
    BY <1>0, <1>4, BoundsAre DEF QueryFails
  <2>2. CASE at[c] # "list"
    BY <1>0, <1>1, <1>4, <2>1, <2>2 DEF QueryFails, dbVars
  <2>3. CASE at[c] = "list"
    <3>1. /\ Goto(c, "done") /\ UNCHANGED <<sharedVars, dbVars, feed, page, tries, rest, ofAll, crossed, stops>>
          /\ c \in Refreshes /\ c \notin Histories
      BY <1>4, <2>3, CallsAre DEF QueryFails, CallsInOrder
    <3>2. at' \in [Calls -> Points] /\ at'[c] = "done" /\ \A b \in Calls \ {c} : at'[b] = at[b]
      BY <3>1 DEF TypeOK, Goto, Points
    <3>3. TypeOK'
      BY <2>1, <3>1, <3>2 DEF TypeOK, sharedVars, dbVars
    <3>4. GuardsDoNotStick'
      <4>1. c \notin ofAll
        BY <2>3, <3>1 DEF CallsInOrder
      <4>2. \A b \in Calls \ {c} : Live(b) => Live(b)'
        BY <3>2 DEF Live
      <4>3. UNCHANGED <<progress, refreshing, feed, ofAll>> /\ ofAll \subseteq Calls
        BY <3>1, CallsAre DEF sharedVars, TypeOK
      <4>. QED
        BY <3>1, <4>1, <4>2, <4>3, CallsAre DEF GuardsDoNotStick
    <3>5. CallsInOrder' /\ FilledBefore'
      BY <3>1, <3>2, CallsAre DEF CallsInOrder, FilledBefore, Live, Fetching, Filled, dbVars
    <3>6. RecordOwned' /\ HistoryHasNoHole'
      BY <3>1, <3>2, CallsAre
      DEF RecordOwned, HistoryHasNoHole, Live, Fetching, Filled, dbVars, sharedVars
    <3>. QED
      BY <3>3, <3>4, <3>5, <3>6
  <2>. QED
    BY <2>2, <2>3
<1>. QED
  BY <1>2, <1>3, <1>4

LEMMA RssStep == RssInv /\ [Next]_vars => RssInv'
<1>. SUFFICES ASSUME RssInv, [Next]_vars PROVE RssInv'
  OBVIOUS
<1>1. CASE UNCHANGED vars
  BY <1>1 DEF vars, sharedVars, dbVars, callVars, boundVars, RssInv, TypeOK, GuardsDoNotStick,
              CallsInOrder, FilledBefore, RecordOwned, HistoryHasNoHole, Live, Fetching, Filled
<1>2. CASE Request
  BY <1>2, RequestHistoryStep, RefreshRequests, StopStep DEF Request
<1>3. ASSUME NEW c \in Calls, Advance(c) \/ FetchFails(c) \/ QueryFails(c)
      PROVE  RssInv'
  BY <1>3, HistorySteps, RefreshSteps, FetchSteps, StoreStep, UpdateStep DEF Advance
<1>. QED
  BY <1>1, <1>2, <1>3 DEF Next

\* The record has one owner as long as its feed is not crossed, and pages come in order.
THEOREM RssInvariant == Spec => []RssInv
  BY RssInit, RssStep, PTL DEF Spec

\* Every variable keeps its type.
THEOREM RssTypeCorrect == Spec => []TypeOK
  BY RssInvariant, PTL DEF RssInv

\* A record or a flag that is set belongs to a call that is under way and will reset it.
THEOREM GuardsAreHeld == Spec => []GuardsDoNotStick
  BY RssInvariant, PTL DEF RssInv

\* A history begun alone stores the newest articles up to some point, and all in the end.
THEOREM HistoriesHaveNoHole == Spec => []HistoryHasNoHole
  BY RssInvariant, PTL DEF RssInv
================================================================================
