----------------------------- MODULE EventPages -----------------------------
(***************************************************************************)
(* GET /v1/events: a client that walks the event list page by page through *)
(* the response cache, while ingestion writes rows and other clients fill  *)
(* the cache (handlers/events.go, ListEvents in database/queries.go).      *)
(*                                                                         *)
(* One filter is in use. What a row contributes to a page is its date (0   *)
(* for NULL) and whether it matches the filter; an event that has no row   *)
(* yet does not match. The keys of the cache are the offsets of the pages. *)
(***************************************************************************)
EXTENDS ResponseCache

CONSTANTS
  Events,      \* ids of the rows; the order of the UUIDs is that of numbers
  Dates,       \* event_date of a row, 0 for NULL
  PageSize,    \* limit
  Walker,      \* the request of the client that walks
  MaxWrites    \* bound: writes that move a row or change what matches

\* A page that has a next one is followed by an offset.
ASSUME PagesAssumption ==
  /\ Events \subseteq Nat /\ Dates \subseteq Nat /\ PageSize \in Nat \ {0}
  /\ Keys \subseteq Nat /\ 0 \in Keys /\ Walker \in Requests /\ MaxWrites \in Nat
  /\ \A k \in Keys : k + 1 < Cardinality(Events) => k + PageSize \in Keys

VARIABLES
  rows,     \* the table, as far as the filter and the order can tell
  touched,  \* ghost: the write that last moved a row, or took it in or out
  writes,   \* ghost: number of such writes
  page,     \* the response a request is making
  content,  \* the responses in the cache
  walk      \* the walking client

pageVars == <<entries, order, pc, key, busy, data, rows, touched, writes,
              page, content, walk>>

Row == [in : BOOLEAN, date : Dates]

\* A response, and between which writes its two statements ran.
NoPage == [total |-> -1, events |-> <<>>, counted |-> 0, read |-> 0]

Over == -1
None == -1

Page == [total : -1..Cardinality(Events), events : Seq(Events),
         counted : 0..MaxWrites, read : 0..MaxWrites]

PagesTypeOK ==
  /\ TypeOK
  /\ rows \in [Events -> Row] /\ touched \in [Events -> 0..MaxWrites] /\ writes \in 0..MaxWrites
  /\ page \in [Requests -> Page]
  /\ DOMAIN content = DOMAIN entries /\ \A k \in DOMAIN content : content[k] \in Page
  /\ walk.next \in Keys \cup {Over}
  /\ walk.seen \subseteq Events /\ walk.twice \subseteq walk.seen

\* The walk starts at page 1. Of what it was shown: the write the oldest response
\* had last seen, that of the page before, and how far the responses lie apart.
Start == [next |-> 0, seen |-> {}, twice |-> {}, first |-> MaxWrites, last |-> None, drift |-> 0]

PagesInit ==
  /\ Init
  /\ rows \in [Events -> Row] /\ touched = [e \in Events |-> 0] /\ writes = 0
  /\ page = [r \in Requests |-> NoPage]
  /\ content = [k \in {} |-> NoPage]
  /\ walk = Start

\* buildEventFilterClause: the rows the WHERE clause leaves.
Matching(tbl) == {e \in Events : tbl[e].in}

\* Faulty variant: without the id, rows of one date come in any order.
BeforeLoose(tbl, e, f) == tbl[e].date > tbl[f].date

\* ORDER BY event_date DESC NULLS LAST, id DESC.
Before(tbl, e, f) == tbl[e].date > tbl[f].date \/ (tbl[e].date = tbl[f].date /\ e > f)

\* The orders in which the database may return the matching rows.
Sorted(tbl) ==
  {s \in SetToSeqs(Matching(tbl)) :
     \A i, j \in DOMAIN s : Before(tbl, s[i], s[j]) => i < j}

\* LIMIT and OFFSET.
Slice(s, offset) ==
  SubSeq(s, offset + 1, IF offset + PageSize < Len(s) THEN offset + PageSize ELSE Len(s))

\* A first upsert, or one that changes event_date or a column the filter reads.
\* Re-ingesting an unchanged event changes nothing that a page depends on.
WriteRow(e, row) ==
  /\ writes < MaxWrites /\ row # rows[e] /\ (row.in \/ rows[e].in)
  /\ rows' = [rows EXCEPT ![e] = row]
  /\ writes' = writes + 1 /\ touched' = [touched EXCEPT ![e] = writes']
  /\ UNCHANGED <<entries, order, pc, key, busy, data, page, content, walk>>

\* The first statement counts; with nothing to show there is no second one.
CountRows(r) ==
  /\ pc[r] = "miss" /\ page[r] = NoPage
  /\ LET total == Cardinality(Matching(rows)) IN
     /\ page' = [page EXCEPT ![r] = [total |-> total, events |-> <<>>, counted |-> writes, read |-> writes]]
     /\ IF total = 0 THEN Read(r) ELSE UNCHANGED vars
  /\ UNCHANGED <<rows, touched, writes, content, walk>>

\* The second statement reads the page.
ReadPage(r) ==
  /\ pc[r] = "miss" /\ page[r] # NoPage /\ Read(r)
  /\ \E s \in Sorted(rows) :
       page' = [page EXCEPT ![r].events = Slice(s, key[r]), ![r].read = writes]
  /\ UNCHANGED <<rows, touched, writes, content, walk>>

Distance(m, n) == IF m < n THEN n - m ELSE m - n

\* What the pager has shown after one more response. EventsDashboard offers Next
\* when there are several pages, this one has rows, and rows are left by its total.
Shown(resp, offset) ==
  LET ids == ToSet(resp.events)
      end == offset + Len(resp.events)
      more == resp.total > PageSize /\ ids # {} /\ end < resp.total
  IN [next  |-> IF more THEN offset + PageSize ELSE Over,
      seen  |-> walk.seen \cup ids,
      twice |-> walk.twice \cup (ids \cap walk.seen),
      first |-> Least(walk.first, resp.counted),
      last  |-> resp.read,
      drift |-> walk.drift + (resp.read - resp.counted)
                  + (IF walk.last = None THEN 0 ELSE Distance(walk.last, resp.read))]

Asks(r, k) == r = Walker => walk.next = k

\* From the cache.
PageHit(r, k) ==
  /\ Asks(r, k) /\ LookupHits(r, k)
  /\ walk' = IF r = Walker THEN Shown(content[k], k) ELSE walk
  /\ UNCHANGED <<rows, touched, writes, page, content>>

PageMiss(r, k) ==
  /\ Asks(r, k) /\ LookupMisses(r, k)
  /\ content' = [j \in DOMAIN entries' |-> content[j]]
  /\ UNCHANGED <<rows, touched, writes, page, walk>>

\* The response is complete: it is stored, and the client has it.
PageStored(r) ==
  /\ Store(r)
  /\ content' = [j \in DOMAIN entries' |-> IF j = key[r] THEN page[r] ELSE content[j]]
  /\ walk' = IF r = Walker THEN Shown(page[r], key[r]) ELSE walk
  /\ page' = [page EXCEPT ![r] = NoPage]
  /\ UNCHANGED <<rows, touched, writes>>

\* A database error is a 500; the client may ask again.
PageFails(r) ==
  /\ Fail(r)
  /\ page' = [page EXCEPT ![r] = NoPage]
  /\ UNCHANGED <<rows, touched, writes, content, walk>>

PagesTick == Tick /\ UNCHANGED <<rows, touched, writes, page, content, walk>>

PagesNext ==
  \/ \E r \in Requests, k \in Keys : PageHit(r, k) \/ PageMiss(r, k)
  \/ \E r \in Requests : CountRows(r) \/ ReadPage(r) \/ PageStored(r) \/ PageFails(r)
  \/ \E e \in Events, row \in Row : WriteRow(e, row)
  \/ PagesTick

PagesSpec == PagesInit /\ [][PagesNext]_pageVars

(***************************************************************************)
(* Properties.                                                             *)
(***************************************************************************)

\* Rows that matched, and stood where they stand, since the oldest response.
Stable == {e \in Events : rows[e].in /\ touched[e] <= walk.first}

\* A client that walks the list to its end misses, and is shown twice, no more
\* rows than writes that moved the list came between the statements its pages
\* were made of, counted from page to page in either direction: the cache may
\* serve a later page older than an earlier one. When no such write came between
\* them, every row is shown exactly once (the promise of the id tie-break in
\* ListEvents).
WalkBound ==
  walk.next = Over =>
    /\ Cardinality(Stable \ walk.seen) <= walk.drift
    /\ Cardinality(Stable \cap walk.twice) <= walk.drift
=============================================================================
