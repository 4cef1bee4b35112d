------------------------------ MODULE JiraSync ------------------------------
(***************************************************************************)
(* `tga jira sync`: a run reads the project's cursor, walks the tickets      *)
(* updated since its window opened page by page in the order they were       *)
(* updated, ingests them one by one, and plans the next cursor. Tickets are  *)
(* edited on the server meanwhile; reads fail, and a run may die anywhere.   *)
(***************************************************************************)
EXTENDS Naturals, FiniteSets

CONSTANTS
  Procs,          \* processes that run sync against one database
  Tickets,        \* the tickets of the project
  Undated,        \* tickets whose replies carry no usable `updated`
  MinuteLen,      \* ticks in a minute, the resolution of a JQL date
  Sinces,         \* the dates `--since` may be given
  PageSize,       \* SEARCH_PAGE_SIZE
  PageSlack,      \* pages a walk may read beyond twice the ideal
  BlankPages,     \* how many of its first pages may be empty but not the last
  MaxTickets,     \* --max-tickets
  Breaker,        \* MAX_CONSECUTIVE_TICKET_FAILURES
  EditsDuringRun, \* whether tickets are edited while a run is working
  SkipAhead,      \* whether `--since` may lie after the stored cursor
  Crowd,          \* how many tickets are updated in one minute at most
  LastTick,       \* the clock stops here (bounds the model)
  MaxFaults,      \* failed reads and killed runs (bounds the model)
  None

ASSUME SyncAssumption ==
  /\ MinuteLen \in Nat \ {0}
  /\ Undated \subseteq Tickets
  /\ Sinces \subseteq Nat
  /\ PageSize \in Nat \ {0}
  /\ PageSlack \in Nat
  /\ BlankPages \in Nat
  /\ MaxTickets \in Nat \ {0}
  /\ Breaker \in Nat \ {0}
  /\ EditsDuringRun \in BOOLEAN
  /\ SkipAhead \in BOOLEAN
  /\ Crowd \in Nat
  /\ LastTick \in Nat
  /\ MaxFaults \in Nat
  /\ None \notin Nat

VARIABLES
  clock,
  updated,  \* updated[t]: when ticket t last changed, or None: not created
  kept,     \* kept[t]: the newest version ingested with all its comments
  cursor,   \* jira_sync_cursor.last_synced_at, or None
  reported, \* the tickets the error of a failed run named, until ingested
  faults,   \* reads failed and runs killed so far
  pc,       \* where each process stands in run_sync
  scope,    \* the lower bound its run was started with, or None
  stored,   \* the cursor it read when it began
  window,   \* the lower bound of its current query
  given,    \* what the server's page token has passed in that query
  pages,    \* pages it has read
  found,    \* the tickets its walk returned, each at the version it saw
  todo,     \* those not yet ingested
  failed,   \* those whose reads failed
  streak,   \* failures in a row
  cut,      \* whether the walk was truncated at MaxTickets
  noted     \* whether it followed a page token (offset_paged_minute is set)

vars   == <<clock, updated, kept, cursor, reported, faults, pc, scope, stored,
            window, given, pages, found, todo, failed, streak, cut, noted>>
server == <<clock, updated>>
store  == <<kept, cursor, reported>>
walk   == <<window, given, pages, found, cut, noted>>
locals == <<scope, stored, walk, todo, failed, streak>>

-----------------------------------------------------------------------------
(* Windows and versions.                                                    *)

Instant == Nat \cup {None}

Minute(at) == at \div MinuteLen

\* `updated >= "<lower>"`, a date that JQL reads to the minute.
InWindow(t, lower) ==
  updated[t] # None /\ (lower # None => Minute(lower) <= Minute(updated[t]))

Item == [ticket : Tickets, at : Nat]

\* What a reply says of when an item was updated.
Stamp(i) == IF i.ticket \in Undated THEN None ELSE i.at

Stamps(items) == {Stamp(i) : i \in items}

Latest(S)   == CHOOSE x \in S : \A y \in S : y <= x
Earliest(S) == CHOOSE x \in S : \A y \in S : x <= y

Newer(a, b) == IF a = None THEN b ELSE IF a < b THEN b ELSE a

MaxPages == 2 * ((MaxTickets + PageSize - 1) \div PageSize) + PageSlack

\* --since, or nothing for --backfill, or the stored cursor.
ResolveScope(since, backfill, c) ==
  IF since # None THEN since ELSE IF backfill THEN None ELSE c

Seen(p) == {i.ticket : i \in found[p]}

\* The tickets the current query still has to return.
Rest(p) == {t \in Tickets \ given[p] : InWindow(t, window[p])}

\* A page holds the tickets that come first. It may be short, or empty, and
\* still carry a token; only the last page carries none.
IsPage(p, page, last) ==
  /\ Cardinality(page) <= PageSize
  /\ Cardinality(page) <= MaxTickets - Cardinality(found[p])
  /\ last => page = Rest(p)
  /\ page = {} /\ ~last => pages[p] < BlankPages
  /\ \A t \in page, u \in Rest(p) \ page : updated[t] <= updated[u]

Items(S) == {[ticket |-> t, at |-> updated[t]] : t \in S}

-----------------------------------------------------------------------------
(* The cursor a finished run stores, or the one on record when it holds.    *)

\* Faulty variant: steps over the failed tickets.
NextCursorOverFailures(p) ==
  LET observed == Stamps(found[p] \ todo[p]) \ {None}
  IN  IF observed = {} THEN cursor ELSE Newer(stored[p], Latest(observed))

\* Faulty variant: a clean run stores the first ticket it saw, not the last.
NextCursorAtFirst(p) ==
  LET observed == Stamps(found[p] \ todo[p]) \ {None}
      late     == Stamps(failed[p])
  IN  CASE None \in late -> cursor
        [] late # {} /\ late \subseteq Nat -> Earliest(late)
        [] OTHER -> IF observed = {} THEN cursor
                    ELSE Newer(stored[p], Earliest(observed))

NextCursor(p) ==
  LET observed == Stamps(found[p] \ todo[p]) \ {None}
      late     == Stamps(failed[p])
  IN  CASE None \in late -> cursor
        [] late # {} /\ late \subseteq Nat -> Earliest(late)
        [] OTHER -> IF observed = {} THEN cursor
                    ELSE Newer(stored[p], Latest(observed))

-----------------------------------------------------------------------------
Resting == {"idle", "done", "failed"}

Init ==
  /\ clock = 0
  /\ updated = [t \in Tickets |-> None]
  /\ kept = [t \in Tickets |-> None]
  /\ cursor = None
  /\ reported = {}
  /\ faults = 0
  /\ pc = [p \in Procs |-> "idle"]
  /\ scope = [p \in Procs |-> None]
  /\ stored = [p \in Procs |-> None]
  /\ window = [p \in Procs |-> None]
  /\ given = [p \in Procs |-> {}]
  /\ pages = [p \in Procs |-> 0]
  /\ found = [p \in Procs |-> {}]
  /\ todo = [p \in Procs |-> {}]
  /\ failed = [p \in Procs |-> {}]
  /\ streak = [p \in Procs |-> 0]
  /\ cut = [p \in Procs |-> FALSE]
  /\ noted = [p \in Procs |-> FALSE]

Goto(p, at) == pc' = [pc EXCEPT ![p] = at]

\* A fault is spent: the model has MaxFaults of them.
Fault == faults < MaxFaults /\ faults' = faults + 1

\* The run is over, and its locals with it.
Leave(p, at) ==
  /\ Goto(p, at)
  /\ scope' = [scope EXCEPT ![p] = None]
  /\ stored' = [stored EXCEPT ![p] = None]
  /\ window' = [window EXCEPT ![p] = None]
  /\ given' = [given EXCEPT ![p] = {}]
  /\ pages' = [pages EXCEPT ![p] = 0]
  /\ found' = [found EXCEPT ![p] = {}]
  /\ todo' = [todo EXCEPT ![p] = {}]
  /\ failed' = [failed EXCEPT ![p] = {}]
  /\ streak' = [streak EXCEPT ![p] = 0]
  /\ cut' = [cut EXCEPT ![p] = FALSE]
  /\ noted' = [noted EXCEPT ![p] = FALSE]

\* run_sync reads the cursor and resolves its window.
StartWith(p, since, backfill) ==
  /\ pc[p] \in Resting
  /\ Goto(p, "search")
  /\ stored' = [stored EXCEPT ![p] = cursor]
  /\ scope' = [scope EXCEPT ![p] = ResolveScope(since, backfill, cursor)]
  /\ window' = [window EXCEPT ![p] = ResolveScope(since, backfill, cursor)]
  /\ UNCHANGED <<server, store, faults, given, pages, found, todo, failed,
                 streak, cut, noted>>

StartIncremental(p) == StartWith(p, None, FALSE)

StartBackfill(p) == StartWith(p, None, TRUE)

StartSince(p, since) ==
  /\ SkipAhead \/ (cursor # None /\ since <= cursor)
  /\ \E backfill \in BOOLEAN : StartWith(p, since, backfill)

\* Faulty variant: the window moves past the page's latest minute.
TurnPagePastMinute(p, page, last) ==
  LET dated == Stamps(Items(page)) \ {None}
  IN  IF last \/ pages[p] + 1 >= MaxPages
      THEN /\ Goto(p, "tickets")
           /\ UNCHANGED <<window, given, cut, noted>>
      ELSE /\ IF Cardinality(found'[p]) >= MaxTickets
              THEN Goto(p, "tickets") /\ cut' = [cut EXCEPT ![p] = TRUE]
              ELSE UNCHANGED <<pc, cut>>
           /\ IF dated # {} /\ (window[p] # None =>
                                  Minute(window[p]) < Minute(Latest(dated)))
              THEN /\ window' = [window EXCEPT ![p] = Latest(dated) + MinuteLen]
                   /\ given' = [given EXCEPT ![p] = {}]
                   /\ UNCHANGED noted
              ELSE /\ given' = [given EXCEPT ![p] = @ \cup page]
                   /\ noted' = [noted EXCEPT ![p] = TRUE]
                   /\ UNCHANGED window

\* record_page: a walk ends with the last page or at its page cap; else the
\* window moves up to the page's latest minute, or the token is followed.
TurnPage(p, page, last) ==
  LET dated == Stamps(Items(page)) \ {None}
  IN  IF last \/ pages[p] + 1 >= MaxPages
      THEN /\ Goto(p, "tickets")
           /\ UNCHANGED <<window, given, cut, noted>>
      ELSE /\ IF Cardinality(found'[p]) >= MaxTickets
              THEN Goto(p, "tickets") /\ cut' = [cut EXCEPT ![p] = TRUE]
              ELSE UNCHANGED <<pc, cut>>
           /\ IF dated # {} /\ (window[p] # None =>
                                  Minute(window[p]) < Minute(Latest(dated)))
              THEN /\ window' = [window EXCEPT ![p] = Latest(dated)]
                   /\ given' = [given EXCEPT ![p] = {}]
                   /\ UNCHANGED noted
              ELSE /\ given' = [given EXCEPT ![p] = @ \cup page]
                   /\ noted' = [noted EXCEPT ![p] = TRUE]
                   /\ UNCHANGED window

\* One request of search_with_changelog; what the walk has seen by key is not
\* returned again.
FetchPage(p) ==
  /\ pc[p] = "search"
  /\ \E page \in SUBSET Rest(p), last \in BOOLEAN :
       /\ IsPage(p, page, last)
       /\ found' = [found EXCEPT ![p] = @ \cup Items(page \ Seen(p))]
       /\ TurnPage(p, page, last)
  /\ pages' = [pages EXCEPT ![p] = @ + 1]
  /\ todo' = [todo EXCEPT ![p] = found'[p]]
  /\ UNCHANGED <<server, store, faults, scope, stored, failed, streak>>

\* The next ticket of the loop, which goes on until the breaker trips.
IsNext(p, i) ==
  /\ pc[p] = "tickets"
  /\ i \in todo[p]
  /\ \A j \in todo[p] : i.at <= j.at
  /\ streak[p] < Breaker

\* Transitions are those of the walk, or of a repair read just now; comments
\* are read just now. All are upserts.
IngestTicket(p, i) ==
  /\ IsNext(p, i)
  /\ \E version \in {i.at, updated[i.ticket]} :
       kept' = [kept EXCEPT ![i.ticket] = Newer(@, version)]
  /\ reported' = reported \ {i.ticket}
  /\ todo' = [todo EXCEPT ![p] = @ \ {i}]
  /\ streak' = [streak EXCEPT ![p] = 0]
  /\ UNCHANGED <<server, cursor, faults, pc, scope, stored, walk, failed>>

\* The repair of a short changelog or the comments could not be read.
TicketFails(p, i) ==
  /\ IsNext(p, i)
  /\ Fault
  /\ failed' = [failed EXCEPT ![p] = @ \cup {i}]
  /\ todo' = [todo EXCEPT ![p] = @ \ {i}]
  /\ streak' = [streak EXCEPT ![p] = @ + 1]
  /\ UNCHANGED <<server, store, pc, scope, stored, walk>>

\* plan_cursor and set_cursor; a run with failures returns an error.
FinishSync(p) ==
  /\ pc[p] = "tickets"
  /\ todo[p] = {} \/ streak[p] >= Breaker
  /\ cursor' = NextCursor(p)
  /\ reported' = reported \cup {i.ticket : i \in failed[p]}
  /\ Leave(p, IF failed[p] = {} THEN "done" ELSE "failed")
  /\ UNCHANGED <<server, kept, faults>>

\* A kill, a failed page request, a failed write.
Interrupt(p) ==
  /\ pc[p] \notin Resting
  /\ Fault
  /\ Leave(p, "idle")
  /\ UNCHANGED <<server, store>>

-----------------------------------------------------------------------------
(* The server.                                                              *)

Tick ==
  /\ clock < LastTick
  /\ clock' = clock + 1
  /\ UNCHANGED <<updated, store, faults, pc, locals>>

\* A ticket is created or edited: it moves to the end of the order.
Edit(t) ==
  /\ EditsDuringRun \/ \A p \in Procs : pc[p] \in Resting
  /\ updated[t] # None => updated[t] < clock
  /\ Cardinality({u \in Tickets \ {t} :
       updated[u] # None /\ Minute(updated[u]) = Minute(clock)}) < Crowd
  /\ updated' = [updated EXCEPT ![t] = clock]
  /\ UNCHANGED <<clock, store, faults, pc, locals>>

Sync(p) ==
  \/ FetchPage(p)
  \/ \E i \in todo[p] : IngestTicket(p, i)
  \/ FinishSync(p)

Next ==
  \/ \E p \in Procs :
       \/ StartIncremental(p)
       \/ StartBackfill(p)
       \/ \E since \in Sinces : StartSince(p, since)
       \/ Sync(p)
       \/ \E i \in todo[p] : TicketFails(p, i)
       \/ Interrupt(p)
  \/ Tick
  \/ \E t \in Tickets : Edit(t)

Spec == Init /\ [][Next]_vars

\* The loops of a run go on while they can, and a schedule runs incremental
\* syncs for ever, whatever else is started in between.
Fairness ==
  \A p \in Procs : WF_vars(Sync(p)) /\ SF_vars(StartIncremental(p))

FairSpec == Spec /\ Fairness

-----------------------------------------------------------------------------
(* Properties.                                                              *)

\* Every variable holds a value of the type the code gives it.
TypeOK ==
  /\ clock \in 0 .. LastTick
  /\ updated \in [Tickets -> Instant]
  /\ kept \in [Tickets -> Instant]
  /\ cursor \in Instant
  /\ reported \subseteq Tickets
  /\ faults \in 0 .. MaxFaults
  /\ pc \in [Procs -> Resting \cup {"search", "tickets"}]
  /\ scope \in [Procs -> Instant]
  /\ stored \in [Procs -> Instant]
  /\ window \in [Procs -> Instant]
  /\ given \in [Procs -> SUBSET Tickets]
  /\ pages \in [Procs -> 0 .. MaxPages]
  /\ found \in [Procs -> SUBSET Item]
  /\ todo \in [Procs -> SUBSET Item]
  /\ failed \in [Procs -> SUBSET Item]
  /\ streak \in [Procs -> 0 .. Breaker]
  /\ cut \in [Procs -> BOOLEAN]
  /\ noted \in [Procs -> BOOLEAN]

Ingested(t) == kept[t] = updated[t]

\* A ticket whose newest version was not fully ingested, for whatever reason,
\* always remains inside the next run's query window (plan_cursor's doc).
StaleStaysAhead ==
  \A t \in Tickets : ~Ingested(t) => InWindow(t, cursor)

\* A ticket that a failed run named stays inside the next run's window until
\* it is ingested: the cursor was held, "so the next run re-fetches them".
ReportedStaysAhead == \A t \in reported : InWindow(t, cursor)

\* A run that returns Ok and reports no truncation has ingested every ticket
\* of the window it was asked for, however the pages fell (model.rs: the two
\* ways a walk can be incomplete without being an error).
OkRunIsComplete ==
  [][\A p \in Procs :
       pc[p] = "tickets" /\ pc'[p] = "done" /\ ~cut[p] =>
         \A t \in Tickets : InWindow(t, scope[p]) => Ingested(t)]_vars

\* A run that returns Ok and notes no minute walked by page token leaves every
\* ticket of its window ingested or ahead of the new cursor: a ticket edited
\* during the walk is read again where it reappears (paging.rs).
UnnotedRunLosesNothing ==
  [][\A p \in Procs :
       pc[p] = "tickets" /\ pc'[p] = "done" /\ ~noted[p] =>
         \A t \in Tickets :
           InWindow(t, scope[p]) => Ingested(t) \/ InWindow(t, cursor)']_vars

\* Once the edits and the faults stop, incremental runs catch up: every ticket
\* is ingested, through truncated walks, held cursors and repeated pages.
EventuallyIngested == <>[](\A t \in Tickets : Ingested(t))
=============================================================================
