-------------------------- MODULE JiraSync_proofs --------------------------
(***************************************************************************)
(* Theorems about the JIRA sync, for every set of processes and tickets,     *)
(* page size, limit and number of faults: the types of its state; and, when  *)
(* nothing is edited while a run works, that no ticket is left behind the    *)
(* cursor and that a run which returns Ok is complete.                       *)
(***************************************************************************)
EXTENDS JiraSync, WellFoundedInduction, TLAPS

USE SyncAssumption

-----------------------------------------------------------------------------
(* Numbers, stamps and pages.                                               *)

(* Division cuts the integers into blocks of d.                              *)
LEMMA DivBlock ==
  ASSUME NEW n \in Int, NEW d \in Nat \ {0}
  PROVE  /\ n \div d \in Int
         /\ (n \div d) * d <= n
         /\ n < (n \div d) * d + d
  OBVIOUS

(* A number not below the q-th block has a block not below q.                *)
LEMMA DivAbove ==
  ASSUME NEW n \in Int, NEW d \in Nat \ {0}, NEW q \in Int, q * d <= n
  PROVE  q <= n \div d
<1>. DEFINE k == n \div d
<1>1. k \in Int /\ n < k * d + d
  BY DivBlock
<1>. HIDE DEF k
<1>2. SUFFICES ASSUME k + 1 <= q PROVE FALSE
  BY <1>1
<1>3. (k + 1) * d <= q * d
  BY <1>1, <1>2
<1>4. (k + 1) * d = k * d + d
  BY <1>1
<1>. QED BY <1>1, <1>3, <1>4

(* Division keeps the order.                                                 *)
LEMMA DivMonotone ==
  ASSUME NEW m \in Int, NEW n \in Int, NEW d \in Nat \ {0}, m <= n
  PROVE  m \div d <= n \div d
<1>1. (m \div d) \in Int /\ (m \div d) * d <= m
  BY DivBlock
<1>2. (m \div d) * d <= n
  BY <1>1
<1>. QED BY <1>1, <1>2, DivAbove

(* A set of naturals that is not empty has a least member.                   *)
LEMMA HasLeast ==
  ASSUME NEW S \in SUBSET Nat, S # {}
  PROVE  \E x \in S : \A y \in S : x <= y
<1>1. PICK x \in S : \A y \in S : <<y, x>> \notin OpToRel(<, Nat)
  BY NatLessThanWellFounded, WFMin
<1>2. ASSUME NEW y \in S PROVE x <= y
  <2>1. ~(y < x)
    BY <1>1 DEF OpToRel
  <2>. QED BY <2>1
<1>. QED BY <1>2

(* A bounded one has a greatest member: its least bound.                     *)
LEMMA HasGreatest ==
  ASSUME NEW S \in SUBSET Nat, S # {}, NEW b \in Nat, \A y \in S : y <= b
  PROVE  \E x \in S : \A y \in S : y <= x
<1>. DEFINE U == {u \in Nat : \A y \in S : y <= u}
<1>1. PICK u \in U : \A v \in U : u <= v
  <2>1. U \in SUBSET Nat /\ U # {}
    OBVIOUS
  <2>. QED BY <2>1, HasLeast
<1>2. SUFFICES ASSUME u \notin S PROVE FALSE
  BY <1>1
<1>3. PICK z \in S : TRUE
  OBVIOUS
<1>4. \A y \in S : y < u
  BY <1>1, <1>2
<1>5. u - 1 \in U
  BY <1>3, <1>4
<1>. QED BY <1>1, <1>5

(* Later instants lie in later or the same minutes.                          *)
LEMMA MinuteMonotone ==
  ASSUME NEW a \in Nat, NEW b \in Nat, a <= b
  PROVE  Minute(a) \in Nat /\ Minute(b) \in Nat /\ Minute(a) <= Minute(b)
<1>1. Minute(a) \in Nat /\ Minute(b) \in Nat
  BY DEF Minute
<1>2. a \div MinuteLen <= b \div MinuteLen
  BY DivMonotone
<1>. QED BY <1>1, <1>2 DEF Minute

(* Latest picks the greatest of a bounded set.                               *)
LEMMA LatestIs ==
  ASSUME NEW S \in SUBSET Nat, S # {}, NEW b \in Nat, \A y \in S : y <= b
  PROVE  Latest(S) \in S /\ \A y \in S : y <= Latest(S)
BY HasGreatest DEF Latest

(* Earliest picks the least.                                                 *)
LEMMA EarliestIs ==
  ASSUME NEW S \in SUBSET Nat, S # {}
  PROVE  Earliest(S) \in S /\ \A y \in S : Earliest(S) <= y
BY HasLeast DEF Earliest

(* The stamps of items, undated ones aside, are their times.                 *)
LEMMA StampsAre ==
  ASSUME NEW S \in SUBSET Item
  PROVE  /\ Stamps(S) \subseteq Instant
         /\ Stamps(S) \ {None} \subseteq {i.at : i \in S}
         /\ Stamps(S) \ {None} \in SUBSET Nat
BY DEF Stamps, Stamp, Instant, Item

(* A walk may read at least one page.                                        *)
LEMMA SomePage == MaxPages \in Nat /\ MaxPages > 0
<1>. DEFINE n == MaxTickets + PageSize - 1
            q == n \div PageSize
<1>1. n \in Int /\ PageSize \in Nat \ {0}
  OBVIOUS
<1>2. q \in Int /\ n < q * PageSize + PageSize
  BY <1>1, DivBlock
<1>3. 1 <= q
  <2>1. 1 * PageSize <= n
    OBVIOUS
  <2>. QED BY <1>1, <2>1, DivAbove
<1>4. MaxPages = 2 * q + PageSlack
  BY DEF MaxPages
<1>. HIDE DEF q
<1>. QED BY <1>2, <1>3, <1>4

-----------------------------------------------------------------------------
(* The type invariant, and what makes it inductive: how far times reach and  *)
(* where a walk's tickets come from.                                         *)

TimesInv ==
  /\ \A t \in Tickets : updated[t] # None => updated[t] <= clock
  /\ cursor # None => cursor <= clock
  /\ \A p \in Procs :
       /\ \A i \in found[p] : i.at <= clock
       /\ todo[p] \subseteq found[p]
       /\ failed[p] \subseteq found[p]
       /\ stored[p] # None => stored[p] <= clock
       /\ pc[p] = "search" => pages[p] < MaxPages
       /\ pc[p] \in Resting => pages[p] = 0

TInv == TypeOK /\ TimesInv

(* The cursor a run would store is one it saw or one on record.              *)
LEMMA NextCursorIs ==
  ASSUME TInv, NEW p \in Procs
  PROVE  /\ NextCursor(p) \in Instant
         /\ NextCursor(p) # None => NextCursor(p) <= clock
<1>. DEFINE observed == Stamps(found[p] \ todo[p]) \ {None}
            late == Stamps(failed[p])
<1>1. found[p] \in SUBSET Item /\ failed[p] \in SUBSET Item
      /\ found[p] \ todo[p] \in SUBSET Item /\ clock \in Nat
      /\ stored[p] \in Instant /\ cursor \in Instant
  BY DEF TInv, TypeOK
<1>2. observed \in SUBSET Nat /\ \A y \in observed : y <= clock
  BY <1>1, StampsAre DEF TInv, TimesInv
<1>3. late \in SUBSET Instant /\ \A y \in late \ {None} : y <= clock
  BY <1>1, StampsAre DEF TInv, TimesInv
<1>4. CASE None \in late
  BY <1>1, <1>4 DEF NextCursor, TInv, TimesInv
<1>5. CASE None \notin late /\ late # {}
  <2>1. late \in SUBSET Nat
    BY <1>3, <1>5 DEF Instant
  <2>2. NextCursor(p) = Earliest(late)
    BY <1>5, <2>1 DEF NextCursor
  <2>3. Earliest(late) \in late
    BY <1>5, <2>1, EarliestIs
  <2>. QED BY <1>3, <1>5, <2>1, <2>2, <2>3 DEF Instant
<1>6. CASE late = {} /\ observed = {}
  BY <1>1, <1>6 DEF NextCursor, TInv, TimesInv
<1>7. CASE late = {} /\ observed # {}
  <2>1. NextCursor(p) = Newer(stored[p], Latest(observed))
    BY <1>7 DEF NextCursor
  <2>2. Latest(observed) \in observed
    BY <1>1, <1>2, <1>7, LatestIs
  <2>3. stored[p] # None => stored[p] \in Nat /\ stored[p] <= clock
    BY <1>1 DEF TInv, TimesInv, Instant
  <2>. QED BY <1>1, <1>2, <2>1, <2>2, <2>3 DEF Newer, Instant
<1>. QED BY <1>4, <1>5, <1>6, <1>7

(* The items of a page are tickets at the times they have now.               *)
LEMMA PageItems ==
  ASSUME TInv, NEW p \in Procs, NEW page \in SUBSET Rest(p)
  PROVE  /\ Items(page) \in SUBSET Item
         /\ page \subseteq Tickets
         /\ \A t \in page : updated[t] \in Nat /\ updated[t] <= clock
         /\ \A i \in Items(page) : i.ticket \in page /\ i.at = updated[i.ticket]
         /\ \A t \in page : \E i \in Items(page) : i.ticket = t
<1>1. page \subseteq Tickets
  BY DEF Rest
<1>2. \A t \in page : updated[t] \in Nat /\ updated[t] <= clock
  BY <1>1 DEF Rest, InWindow, TInv, TypeOK, TimesInv, Instant
<1>3. \A t \in page : [ticket |-> t, at |-> updated[t]] \in Item
  BY <1>1, <1>2 DEF Item
<1>4. Items(page) \in SUBSET Item
  BY <1>3 DEF Items
<1>5. ASSUME NEW i \in Items(page)
      PROVE  i.ticket \in page /\ i.at = updated[i.ticket]
  <2>1. PICK t \in page : i = [ticket |-> t, at |-> updated[t]]
    BY DEF Items
  <2>. QED BY <2>1
<1>6. ASSUME NEW t \in page PROVE \E i \in Items(page) : i.ticket = t
  <2>1. [ticket |-> t, at |-> updated[t]] \in Items(page)
    BY DEF Items
  <2>. QED BY <2>1
<1>. QED BY <1>1, <1>2, <1>4, <1>5, <1>6

(* Where the window stands after a page.                                     *)
LEMMA PageLatest ==
  ASSUME TInv, NEW p \in Procs, NEW page \in SUBSET Rest(p),
         Stamps(Items(page)) \ {None} # {}
  PROVE  /\ Latest(Stamps(Items(page)) \ {None}) \in Nat
         /\ \E t \in page : updated[t] = Latest(Stamps(Items(page)) \ {None})
<1>. DEFINE S == Stamps(Items(page)) \ {None}
<1>1. Items(page) \in SUBSET Item /\ clock \in Nat
  BY PageItems DEF TInv, TypeOK
<1>2. S \in SUBSET Nat /\ S \subseteq {i.at : i \in Items(page)}
  BY <1>1, StampsAre
<1>3. \A y \in S : y <= clock
  BY <1>2, PageItems
<1>4. Latest(S) \in S
  BY <1>1, <1>2, <1>3, LatestIs
<1>5. PICK i \in Items(page) : i.at = Latest(S)
  BY <1>2, <1>4
<1>6. i.ticket \in page /\ i.at = updated[i.ticket]
  BY PageItems
<1>. QED BY <1>2, <1>4, <1>5, <1>6

-----------------------------------------------------------------------------
(* Type correctness.                                                        *)

(* The initial state satisfies the type invariant.                           *)
LEMMA InitTInv == Init => TInv
BY SomePage DEF Init, TInv, TypeOK, TimesInv, Instant, Resting

(* Every action keeps it.                                                    *)
LEMMA NextTInv == TInv /\ [Next]_vars => TInv'
<1>. SUFFICES ASSUME TInv, [Next]_vars PROVE TInv'
  OBVIOUS
<1>. USE DEF TInv, TypeOK, TimesInv
<1>1. ASSUME NEW p \in Procs, NEW since \in Sinces \cup {None},
             NEW backfill \in BOOLEAN, StartWith(p, since, backfill)
      PROVE  TInv'
  <2>1. ResolveScope(since, backfill, cursor) \in Instant
    BY DEF ResolveScope, Instant
  <2>. QED BY <1>1, <2>1, SomePage DEF StartWith, Goto, Resting, server, store
<1>2. ASSUME NEW p \in Procs, FetchPage(p) PROVE TInv'
  <2>1. PICK page \in SUBSET Rest(p), last \in BOOLEAN :
          /\ found' = [found EXCEPT ![p] = @ \cup Items(page \ Seen(p))]
          /\ TurnPage(p, page, last)
    BY <1>2 DEF FetchPage
  <2>2. Items(page \ Seen(p)) \in SUBSET Item
        /\ \A i \in Items(page \ Seen(p)) : i.at <= clock
    BY PageItems
  <2>3. /\ pc' \in [Procs -> Resting \cup {"search", "tickets"}]
        /\ pc'[p] = "search" => pages[p] + 1 < MaxPages
        /\ pc'[p] \in {"search", "tickets"}
        /\ \A q \in Procs \ {p} : pc'[q] = pc[q]
    <3>1. pc \in [Procs -> Resting \cup {"search", "tickets"}]
          /\ pc[p] = "search" /\ pages[p] \in Nat
      BY <1>2 DEF FetchPage
    <3>2. \/ pc' = [pc EXCEPT ![p] = "tickets"]
          \/ pc' = pc /\ ~(pages[p] + 1 >= MaxPages)
      BY <2>1 DEF TurnPage, Goto
    <3>. QED BY <3>1, <3>2, SomePage
  <2>4. /\ window' \in [Procs -> Instant]
        /\ given' \in [Procs -> SUBSET Tickets]
        /\ cut' \in [Procs -> BOOLEAN]
        /\ noted' \in [Procs -> BOOLEAN]
    <3>. DEFINE dated == Stamps(Items(page)) \ {None}
    <3>1. page \subseteq Tickets
      BY PageItems
    <3>2. dated # {} => Latest(dated) \in Instant
      BY PageLatest DEF Instant
    <3>3. \/ UNCHANGED <<window, given, noted>>
          \/ /\ dated # {}
             /\ window' = [window EXCEPT ![p] = Latest(dated)]
             /\ given' = [given EXCEPT ![p] = {}]
             /\ UNCHANGED noted
          \/ /\ given' = [given EXCEPT ![p] = @ \cup page]
             /\ noted' = [noted EXCEPT ![p] = TRUE]
             /\ UNCHANGED window
      BY <2>1, Zenon DEF TurnPage
    <3>4. cut' = cut \/ cut' = [cut EXCEPT ![p] = TRUE]
      BY <2>1, Zenon DEF TurnPage
    <3>. HIDE DEF dated
    <3>5. /\ window \in [Procs -> Instant] /\ given \in [Procs -> SUBSET Tickets]
          /\ cut \in [Procs -> BOOLEAN] /\ noted \in [Procs -> BOOLEAN]
      OBVIOUS
    <3>6. window' \in [Procs -> Instant]
      BY <3>2, <3>3, <3>5
    <3>7. given' \in [Procs -> SUBSET Tickets]
      BY <3>1, <3>3, <3>5
    <3>8. cut' \in [Procs -> BOOLEAN] /\ noted' \in [Procs -> BOOLEAN]
      BY <3>3, <3>4, <3>5
    <3>. QED BY <3>6, <3>7, <3>8
  <2>5. pages' \in [Procs -> 0 .. MaxPages]
    BY <1>2, SomePage DEF FetchPage
  <2>6. found' \in [Procs -> SUBSET Item] /\ todo' \in [Procs -> SUBSET Item]
    BY <1>2, <2>1, <2>2 DEF FetchPage
  <2>7. TypeOK'
    BY <1>2, <2>3, <2>4, <2>5, <2>6 DEF FetchPage, server, store
  <2>8. TimesInv'
    BY <1>2, <2>1, <2>2, <2>3 DEF FetchPage, server, store, Resting
  <2>. QED BY <2>7, <2>8
<1>3. ASSUME NEW p \in Procs, NEW i \in todo[p], IngestTicket(p, i)
      PROVE  TInv'
  <2>1. i \in Item /\ updated[i.ticket] \in Instant
    BY DEF Item
  <2>2. ASSUME NEW version \in {i.at, updated[i.ticket]}
        PROVE  Newer(kept[i.ticket], version) \in Instant
    BY <2>1 DEF Newer, Instant, Item
  <2>. QED BY <1>3, <2>1, <2>2 DEF IngestTicket, IsNext, server, walk, Item, Resting
<1>4. ASSUME NEW p \in Procs, NEW i \in todo[p], TicketFails(p, i)
      PROVE  TInv'
  BY <1>4 DEF TicketFails, IsNext, Fault, server, store, walk, Resting
<1>5. ASSUME NEW p \in Procs, FinishSync(p) PROVE TInv'
  BY <1>5, NextCursorIs, SomePage DEF FinishSync, Leave, Goto, server, Resting, Item, Instant
<1>6. ASSUME NEW p \in Procs, Interrupt(p) PROVE TInv'
  BY <1>6, SomePage DEF Interrupt, Leave, Goto, Fault, server, store, Resting, Instant
<1>7. ASSUME Tick PROVE TInv'
  BY <1>7 DEF Tick, store, locals, walk, Instant, Item
<1>8. ASSUME NEW t \in Tickets, Edit(t) PROVE TInv'
  BY <1>8 DEF Edit, store, locals, walk, Instant
<1>9. ASSUME UNCHANGED vars PROVE TInv'
  BY <1>9 DEF vars
<1>. HIDE DEF TInv, TypeOK, TimesInv
<1>10. ASSUME NEW p \in Procs,
              StartIncremental(p) \/ StartBackfill(p)
                \/ \E since \in Sinces : StartSince(p, since)
       PROVE  TInv'
  BY <1>1, <1>10 DEF StartIncremental, StartBackfill, StartSince
<1>. QED BY <1>2, <1>3, <1>4, <1>5, <1>6, <1>7, <1>8, <1>9, <1>10 DEF Next, Sync

(* Every reachable state has the types of TypeOK, for every project, limit    *)
(* and number of processes and faults.                                       *)
THEOREM TypeCorrect == Spec => []TypeOK
<1>1. TInv => TypeOK
  BY DEF TInv
<1>. QED BY InitTInv, NextTInv, <1>1, PTL DEF Spec

-----------------------------------------------------------------------------
(* What a run has read and done, when no ticket is edited while a run works.  *)

\* What a failed run named is followed only where a name can be placed, that
\* is, where every ticket is dated, and no other run stores its own cursor.
Followed == Undated = {} /\ \A p, q \in Procs : p = q

\* A ticket is done with once it is ingested and no failed run has named it
\* since.
Caught(t) == Ingested(t) /\ (Followed => t \notin reported)

\* Nothing is kept that the server does not have.
KeptNotAhead ==
  \A t \in Tickets :
    kept[t] # None => updated[t] # None /\ kept[t] <= updated[t]

\* Between runs the locals are empty.
Empty(p) ==
  /\ found[p] = {}
  /\ todo[p] = {}
  /\ failed[p] = {}
  /\ given[p] = {}
  /\ streak[p] = 0

\* What the walk found is a prefix of its window, in the order of updates, and
\* the current query still has the rest.
WalkInv(p) ==
  /\ \A i \in found[p] : updated[i.ticket] = i.at
  /\ \A t \in Tickets \ Seen(p) :
       InWindow(t, scope[p]) => \A i \in found[p] : i.at <= updated[t]
  /\ pc[p] = "search" =>
       /\ todo[p] = found[p]
       /\ failed[p] = {}
       /\ \A t \in Tickets \ Seen(p) : InWindow(t, scope[p]) => t \in Rest(p)

\* A walk that ended of itself, neither at the limit nor at its page cap, saw
\* all of its window.
EndInv(p) ==
  pc[p] = "tickets" /\ ~cut[p] /\ pages[p] < MaxPages =>
    \A t \in Tickets : InWindow(t, scope[p]) => t \in Seen(p)

\* The loop has ingested or failed a prefix of what the walk found.
LoopInv(p) ==
  /\ failed[p] \cap todo[p] = {}
  /\ \A i \in found[p] \ todo[p] : i \in failed[p] \/ Caught(i.ticket)
  /\ \A i \in found[p] \ todo[p], j \in todo[p] : i.at <= j.at
  /\ streak[p] > 0 => failed[p] # {}

RunInv(p) ==
  IF pc[p] \in Resting THEN Empty(p) ELSE WalkInv(p) /\ EndInv(p) /\ LoopInv(p)

RInv ==
  /\ TInv
  /\ KeptNotAhead
  /\ \A p \in Procs : RunInv(p)

(* A ticket updated at a cursor or later is in the cursor's window.          *)
LEMMA LaterIsInWindow ==
  ASSUME NEW t \in Tickets, updated[t] \in Nat, NEW lower \in Nat,
         lower <= updated[t]
  PROVE  InWindow(t, lower)
BY MinuteMonotone DEF InWindow

(* A step of one process leaves the others where they are.                   *)
Apart(q) ==
  /\ pc'[q] = pc[q] /\ scope'[q] = scope[q] /\ stored'[q] = stored[q]
  /\ window'[q] = window[q] /\ given'[q] = given[q] /\ pages'[q] = pages[q]
  /\ found'[q] = found[q] /\ todo'[q] = todo[q] /\ failed'[q] = failed[q]
  /\ streak'[q] = streak[q] /\ cut'[q] = cut[q]

LEMMA OthersApart ==
  ASSUME TInv, NEW p \in Procs,
         \/ \E since \in Nat \cup {None}, backfill \in BOOLEAN :
              StartWith(p, since, backfill)
         \/ FetchPage(p)
         \/ \E i \in todo[p] : IngestTicket(p, i) \/ TicketFails(p, i)
         \/ FinishSync(p)
         \/ Interrupt(p)
  PROVE  \A q \in Procs \ {p} : Apart(q)
<1>1. ASSUME NEW since, NEW backfill, StartWith(p, since, backfill)
      PROVE  \A q \in Procs \ {p} : Apart(q)
  BY <1>1 DEF StartWith, Goto, Apart, TInv, TypeOK
<1>2. CASE FetchPage(p)
  <2>1. PICK page \in SUBSET Rest(p), last \in BOOLEAN :
          /\ found' = [found EXCEPT ![p] = @ \cup Items(page \ Seen(p))]
          /\ TurnPage(p, page, last)
    BY <1>2 DEF FetchPage
  <2>2. \A q \in Procs \ {p} : pc'[q] = pc[q] /\ cut'[q] = cut[q]
    <3>1. \/ UNCHANGED <<pc, cut>>
          \/ Goto(p, "tickets") /\ UNCHANGED cut
          \/ Goto(p, "tickets") /\ cut' = [cut EXCEPT ![p] = TRUE]
      BY <2>1, Zenon DEF TurnPage
    <3>. QED BY <3>1 DEF Goto, TInv, TypeOK
  <2>3. \A q \in Procs \ {p} : window'[q] = window[q] /\ given'[q] = given[q]
    <3>. DEFINE dated == Stamps(Items(page)) \ {None}
    <3>1. \/ UNCHANGED <<window, given>>
          \/ /\ window' = [window EXCEPT ![p] = Latest(dated)]
             /\ given' = [given EXCEPT ![p] = {}]
          \/ /\ given' = [given EXCEPT ![p] = @ \cup page]
             /\ UNCHANGED window
      BY <2>1, Zenon DEF TurnPage
    <3>. HIDE DEF dated
    <3>2. DOMAIN window = Procs /\ DOMAIN given = Procs
      BY DEF TInv, TypeOK
    <3>. QED BY <3>1, <3>2
  <2>4. \A q \in Procs \ {p} : found'[q] = found[q] /\ todo'[q] = todo[q]
    BY <1>2, <2>1 DEF FetchPage
  <2>. QED BY <1>2, <2>2, <2>3, <2>4 DEF FetchPage, Apart
<1>3. ASSUME NEW i \in todo[p], IngestTicket(p, i) \/ TicketFails(p, i)
      PROVE  \A q \in Procs \ {p} : Apart(q)
  <2>1. UNCHANGED <<pc, scope, stored, window, given, pages, found, cut>>
    BY <1>3 DEF IngestTicket, TicketFails, walk
  <2>2. \A q \in Procs \ {p} :
          todo'[q] = todo[q] /\ failed'[q] = failed[q] /\ streak'[q] = streak[q]
    BY <1>3 DEF IngestTicket, TicketFails, TInv, TypeOK
  <2>. QED BY <2>1, <2>2 DEF Apart
<1>4. CASE FinishSync(p) \/ Interrupt(p)
  BY <1>4 DEF FinishSync, Interrupt, Leave, Goto, Apart, TInv, TypeOK
<1>. QED BY <1>1, <1>2, <1>3, <1>4

(* So their runs stand as they did, while what was done with stays so.       *)
LEMMA ApartRuns ==
  ASSUME NEW q \in Procs, RunInv(q), TInv, Apart(q), updated' = updated,
         \A t \in Tickets : Caught(t) => Caught(t)'
  PROVE  RunInv(q)'
<1>1. CASE pc[q] \in Resting
  BY <1>1 DEF RunInv, Apart, Empty
<1>2. CASE pc[q] \notin Resting
  <2>1. WalkInv(q) /\ EndInv(q) /\ LoopInv(q)
    BY <1>2 DEF RunInv
  <2>2. WalkInv(q)' /\ EndInv(q)'
    BY <2>1 DEF WalkInv, EndInv, Seen, Rest, InWindow, Apart
  <2>3. \A i \in found[q] : i.ticket \in Tickets
    BY DEF TInv, TypeOK, Item
  <2>4. LoopInv(q)'
    BY <2>1, <2>3 DEF LoopInv, Apart
  <2>. QED BY <1>2, <2>2, <2>4 DEF RunInv, Apart
<1>. QED BY <1>1, <1>2

(* The initial state satisfies the invariant.                                *)
LEMMA InitRInv == Init => RInv
BY InitTInv DEF Init, RInv, KeptNotAhead, RunInv, Empty, Resting

(* A run starts with nothing seen and all of its window before it.           *)
LEMMA StartRInv ==
  ASSUME RInv, TInv', NEW p \in Procs, NEW since \in Nat \cup {None},
         NEW backfill \in BOOLEAN, StartWith(p, since, backfill)
  PROVE  RInv'
<1>1. Empty(p) /\ pc[p] \in Resting /\ TInv /\ KeptNotAhead
  BY DEF RInv, RunInv, StartWith
<1>3. /\ UNCHANGED <<updated, kept, reported, found, todo, failed, given, streak>>
      /\ scope'[p] = ResolveScope(since, backfill, cursor)
      /\ window'[p] = ResolveScope(since, backfill, cursor)
      /\ pc'[p] = "search"
  BY <1>1 DEF StartWith, Goto, server, store, TInv, TypeOK
<1>4. KeptNotAhead'
  BY <1>1, <1>3 DEF KeptNotAhead
<1>5. WalkInv(p)'
  BY <1>1, <1>3 DEF WalkInv, Empty, Rest, Seen, InWindow
<1>6. EndInv(p)' /\ LoopInv(p)'
  BY <1>1, <1>3 DEF EndInv, LoopInv, Empty
<1>7. RunInv(p)'
  BY <1>3, <1>5, <1>6 DEF RunInv, Resting
<1>8. \A t \in Tickets : Caught(t) => Caught(t)'
  BY <1>3 DEF Caught, Ingested
<1>9. \A q \in Procs \ {p} : RunInv(q)'
  BY <1>1, <1>3, <1>8, OthersApart, ApartRuns DEF RInv
<1>. QED BY <1>4, <1>7, <1>9 DEF RInv

(* A page takes the next tickets of the window, and the query still has the  *)
(* rest, wherever it stands; the last page leaves none.                      *)
LEMMA FetchRInv ==
  ASSUME RInv, TInv', NEW p \in Procs, FetchPage(p)
  PROVE  RInv'
<1>1. pc[p] = "search" /\ pc[p] \notin Resting
  BY DEF FetchPage, Resting
<1>2. TInv /\ KeptNotAhead /\ WalkInv(p) /\ LoopInv(p)
  BY <1>1 DEF RInv, RunInv
<1>3. PICK page \in SUBSET Rest(p), last \in BOOLEAN :
        /\ IsPage(p, page, last)
        /\ found' = [found EXCEPT ![p] = @ \cup Items(page \ Seen(p))]
        /\ TurnPage(p, page, last)
  BY DEF FetchPage
<1>4. UNCHANGED <<updated, kept, reported, scope, failed, streak>>
      /\ pages'[p] = pages[p] + 1
  BY <1>2 DEF FetchPage, server, store, TInv, TypeOK
<1>5. found'[p] = found[p] \cup Items(page \ Seen(p)) /\ todo'[p] = found'[p]
      /\ found'[p] \in SUBSET Item
  BY <1>2, <1>3 DEF FetchPage, TInv, TypeOK
<1>6. KeptNotAhead'
  BY <1>2, <1>4 DEF KeptNotAhead
<1>7. LoopInv(p)'
  BY <1>1, <1>2, <1>4, <1>5 DEF LoopInv, WalkInv
<1>8. \A i \in found'[p] : updated'[i.ticket] = i.at
  BY <1>2, <1>3, <1>4, <1>5, PageItems DEF WalkInv
<1>9. Seen(p)' = Seen(p) \cup page
  <2>1. {i.ticket : i \in Items(page \ Seen(p))} = page \ Seen(p)
    BY <1>2, PageItems
  <2>. QED BY <1>5, <2>1 DEF Seen
<1>10. ASSUME NEW t \in Tickets \ Seen(p)', InWindow(t, scope[p])
       PROVE  /\ t \in Rest(p) \ page
              /\ updated[t] \in Nat
              /\ \A u \in page : updated[u] \in Nat /\ updated[u] <= updated[t]
              /\ \A i \in found'[p] : i.at <= updated[t]
  <2>1. t \in Rest(p) /\ t \notin page
    BY <1>1, <1>2, <1>9, <1>10 DEF WalkInv
  <2>2. updated[t] \in Nat
    BY <1>2, <1>10 DEF InWindow, TInv, TypeOK, Instant
  <2>3. \A u \in page : updated[u] \in Nat /\ updated[u] <= updated[t]
    BY <1>2, <1>3, <2>1, PageItems DEF IsPage
  <2>4. \A i \in found[p] : i.at <= updated[t]
    BY <1>2, <1>9, <1>10 DEF WalkInv
  <2>5. \A i \in Items(page \ Seen(p)) : i.at <= updated[t]
    BY <1>2, <2>3, PageItems
  <2>. QED BY <1>5, <2>1, <2>2, <2>3, <2>4, <2>5
<1>11. \/ last \/ pages'[p] >= MaxPages
       \/ pc'[p] = "tickets" /\ cut'[p] = TRUE
       \/ /\ pc'[p] = "search"
          /\ \/ /\ Stamps(Items(page)) \ {None} # {}
                /\ window' = [window EXCEPT ![p] = Latest(Stamps(Items(page)) \ {None})]
                /\ given' = [given EXCEPT ![p] = {}]
             \/ /\ given' = [given EXCEPT ![p] = @ \cup page]
                /\ UNCHANGED window
  <2>. SUFFICES ASSUME ~(last \/ pages[p] + 1 >= MaxPages)
                PROVE  \/ pc'[p] = "tickets" /\ cut'[p] = TRUE
                       \/ /\ pc'[p] = "search"
                          /\ \/ /\ Stamps(Items(page)) \ {None} # {}
                                /\ window' = [window EXCEPT ![p] = Latest(Stamps(Items(page)) \ {None})]
                                /\ given' = [given EXCEPT ![p] = {}]
                             \/ /\ given' = [given EXCEPT ![p] = @ \cup page]
                                /\ UNCHANGED window
    BY <1>4
  <2>1. \/ Goto(p, "tickets") /\ cut' = [cut EXCEPT ![p] = TRUE]
        \/ UNCHANGED pc
    BY <1>3, Zenon DEF TurnPage
  <2>2. \/ /\ Stamps(Items(page)) \ {None} # {}
           /\ window' = [window EXCEPT ![p] = Latest(Stamps(Items(page)) \ {None})]
           /\ given' = [given EXCEPT ![p] = {}]
        \/ /\ given' = [given EXCEPT ![p] = @ \cup page]
           /\ UNCHANGED window
    BY <1>3, Zenon DEF TurnPage
  <2>3. Goto(p, "tickets") => pc'[p] = "tickets"
    BY <1>2 DEF Goto, TInv, TypeOK
  <2>4. cut' = [cut EXCEPT ![p] = TRUE] => cut'[p] = TRUE
    BY <1>2 DEF TInv, TypeOK
  <2>. QED BY <1>1, <2>1, <2>2, <2>3, <2>4, Zenon
<1>12. pc'[p] \in {"search", "tickets"} /\ (pc'[p] = "search" => pages'[p] < MaxPages)
  <2>1. Goto(p, "tickets") \/ UNCHANGED pc
    BY <1>3, Zenon DEF TurnPage
  <2>2. pc'[p] \in {"search", "tickets"}
    BY <1>1, <1>2, <2>1 DEF Goto, TInv, TypeOK
  <2>. QED BY <2>2 DEF TInv, TimesInv
<1>13. last => \A t \in Tickets : InWindow(t, scope[p]) => t \in Seen(p)'
  BY <1>3, <1>10 DEF IsPage
<1>14. ASSUME NEW t \in Tickets \ Seen(p)', InWindow(t, scope[p]), pc'[p] = "search"
       PROVE  t \in Rest(p)'
  <2>. DEFINE dated == Stamps(Items(page)) \ {None}
  <2>1. t \in Rest(p) \ page /\ updated[t] \in Nat
        /\ \A u \in page : updated[u] \in Nat /\ updated[u] <= updated[t]
    BY <1>10, <1>14
  <2>2. pages'[p] \in Nat /\ pages'[p] < MaxPages
    BY <1>12, <1>14 DEF TInv, TypeOK
  <2>3. \/ /\ dated # {}
           /\ window' = [window EXCEPT ![p] = Latest(dated)]
           /\ given' = [given EXCEPT ![p] = {}]
        \/ /\ given' = [given EXCEPT ![p] = @ \cup page]
           /\ UNCHANGED window
    <3>1. ~(pages'[p] >= MaxPages)
      BY <2>2, SomePage
    <3>. QED BY <1>11, <1>13, <1>14, <3>1
  <2>4. CASE /\ dated # {}
             /\ window' = [window EXCEPT ![p] = Latest(dated)]
             /\ given' = [given EXCEPT ![p] = {}]
    <3>1. Latest(dated) \in Nat /\ \E u \in page : updated[u] = Latest(dated)
      BY <1>2, <2>4, PageLatest
    <3>. HIDE DEF dated
    <3>2. InWindow(t, Latest(dated))
      BY <2>1, <3>1, LaterIsInWindow
    <3>3. window'[p] = Latest(dated) /\ given'[p] = {}
      BY <1>2, <2>4 DEF TInv, TypeOK
    <3>. QED BY <1>4, <3>2, <3>3 DEF Rest, InWindow
  <2>5. CASE given' = [given EXCEPT ![p] = @ \cup page] /\ UNCHANGED window
    <3>1. given'[p] = given[p] \cup page /\ window'[p] = window[p]
      BY <1>2, <2>5 DEF TInv, TypeOK
    <3>. QED BY <1>4, <2>1, <3>1 DEF Rest, InWindow
  <2>. QED BY <2>3, <2>4, <2>5
<1>15. WalkInv(p)'
  <2>1. \A t \in Tickets \ Seen(p)' :
          InWindow(t, scope[p])' => InWindow(t, scope[p])
    BY <1>4 DEF InWindow
  <2>2. \A t \in Tickets \ Seen(p)' :
          InWindow(t, scope[p])' => \A i \in found'[p] : i.at <= updated'[t]
    BY <1>4, <1>10, <2>1
  <2>3. \A t \in Tickets \ Seen(p)' :
          pc'[p] = "search" /\ InWindow(t, scope[p])' => t \in Rest(p)'
    BY <1>14, <2>1
  <2>4. failed'[p] = {} /\ todo'[p] = found'[p]
    BY <1>1, <1>2, <1>4, <1>5 DEF WalkInv
  <2>. QED BY <1>8, <2>2, <2>3, <2>4 DEF WalkInv
<1>16. EndInv(p)'
  <2>1. \A t \in Tickets : InWindow(t, scope[p])' => InWindow(t, scope[p])
    BY <1>4 DEF InWindow
  <2>. SUFFICES ASSUME pc'[p] = "tickets", ~cut'[p], pages'[p] < MaxPages
                PROVE  last
    BY <1>13, <2>1 DEF EndInv
  <2>2. pages'[p] \in Nat
    BY DEF TInv, TypeOK
  <2>. QED BY <1>11, <2>2, SomePage
<1>17. RunInv(p)'
  BY <1>7, <1>12, <1>15, <1>16 DEF RunInv, Resting
<1>18. \A t \in Tickets : Caught(t) => Caught(t)'
  BY <1>4 DEF Caught, Ingested
<1>19. \A q \in Procs \ {p} : RunInv(q)'
  BY <1>2, <1>4, <1>18, OthersApart, ApartRuns DEF RInv
<1>. QED BY <1>6, <1>17, <1>19 DEF RInv

(* What a loop ingests is done with, and nothing that was stops being so.    *)
LEMMA LoopCatches ==
  ASSUME RInv, NEW p \in Procs, NEW i \in todo[p],
         IngestTicket(p, i) \/ TicketFails(p, i)
  PROVE  /\ i \in found[p] /\ i.ticket \in Tickets
         /\ KeptNotAhead'
         /\ \A t \in Tickets : Caught(t) => Caught(t)'
         /\ \/ Caught(i.ticket)' /\ failed'[p] = failed[p] /\ streak'[p] = 0
            \/ failed'[p] = failed[p] \cup {i}
<1>1. pc[p] = "tickets" /\ pc[p] \notin Resting
  BY DEF IngestTicket, TicketFails, IsNext, Resting
<1>2. TInv /\ KeptNotAhead /\ WalkInv(p)
  BY <1>1 DEF RInv, RunInv
<1>3. i \in found[p] /\ i.ticket \in Tickets /\ updated[i.ticket] = i.at
      /\ i.at \in Nat /\ updated' = updated
  BY <1>2 DEF WalkInv, TInv, TypeOK, TimesInv, Item, IngestTicket, TicketFails, server
<1>4. CASE TicketFails(p, i)
  <2>1. kept' = kept /\ reported' = reported /\ failed'[p] = failed[p] \cup {i}
    BY <1>2, <1>4 DEF TicketFails, store, TInv, TypeOK
  <2>. QED BY <1>2, <1>3, <2>1 DEF KeptNotAhead, Caught, Ingested
<1>5. CASE IngestTicket(p, i)
  <2>1. kept' = [kept EXCEPT ![i.ticket] = Newer(@, i.at)]
    BY <1>3, <1>5 DEF IngestTicket
  <2>2. Newer(kept[i.ticket], i.at) = i.at
    BY <1>2, <1>3 DEF KeptNotAhead, Newer, TInv, TypeOK, Instant
  <2>3. reported' = reported \ {i.ticket} /\ failed'[p] = failed[p] /\ streak'[p] = 0
    BY <1>2, <1>5 DEF IngestTicket, TInv, TypeOK, walk
  <2>4. \A t \in Tickets : kept'[t] = IF t = i.ticket THEN updated[t] ELSE kept[t]
    BY <1>2, <1>3, <2>1, <2>2 DEF TInv, TypeOK
  <2>5. KeptNotAhead'
    <3>1. \A t \in Tickets : updated[t] \in Instant
      BY <1>2 DEF TInv, TypeOK
    <3>. QED BY <1>2, <1>3, <2>4, <3>1 DEF KeptNotAhead, Instant
  <2>6. \A t \in Tickets : Caught(t) => Caught(t)'
    BY <1>3, <2>3, <2>4 DEF Caught, Ingested
  <2>7. Caught(i.ticket)'
    BY <1>3, <2>3, <2>4 DEF Caught, Ingested
  <2>. QED BY <1>3, <2>3, <2>5, <2>6, <2>7
<1>. QED BY <1>4, <1>5

(* A ticket ingested or failed extends the prefix the loop is through with.  *)
LEMMA LoopRInv ==
  ASSUME RInv, TInv', NEW p \in Procs, NEW i \in todo[p],
         IngestTicket(p, i) \/ TicketFails(p, i)
  PROVE  RInv'
<1>1. pc[p] = "tickets" /\ pc[p] \notin Resting
  BY DEF IngestTicket, TicketFails, IsNext, Resting
<1>2. TInv /\ WalkInv(p) /\ EndInv(p) /\ LoopInv(p)
  BY <1>1 DEF RInv, RunInv
<1>3. /\ UNCHANGED <<updated, scope, found, pc, cut, pages>>
      /\ todo'[p] = todo[p] \ {i}
      /\ \A j \in todo[p] : i.at <= j.at
  BY <1>2 DEF IngestTicket, TicketFails, IsNext, server, walk, TInv, TypeOK
<1>4. WalkInv(p)' /\ EndInv(p)'
  BY <1>1, <1>2, <1>3 DEF WalkInv, EndInv, Seen, InWindow
<1>5. LoopInv(p)'
  <2>1. failed'[p] \cap todo'[p] = {}
    BY <1>2, <1>3, LoopCatches DEF LoopInv
  <2>2. ASSUME NEW j \in found[p] \ todo'[p]
        PROVE  j \in failed'[p] \/ Caught(j.ticket)'
    <3>1. j.ticket \in Tickets
      BY <1>2 DEF TInv, TypeOK, Item
    <3>2. CASE j = i
      BY <3>2, LoopCatches
    <3>3. CASE j # i
      <4>1. j \in failed[p] \/ Caught(j.ticket)
        BY <1>2, <1>3, <3>3 DEF LoopInv
      <4>. QED BY <3>1, <4>1, LoopCatches
    <3>. QED BY <3>2, <3>3
  <2>3. \A j \in found[p] \ todo'[p], k \in todo'[p] : j.at <= k.at
    BY <1>2, <1>3 DEF LoopInv
  <2>4. streak'[p] > 0 => failed'[p] # {}
    BY LoopCatches
  <2>. QED BY <1>3, <2>1, <2>2, <2>3, <2>4 DEF LoopInv
<1>6. RunInv(p)'
  BY <1>1, <1>3, <1>4, <1>5 DEF RunInv
<1>7. \A q \in Procs \ {p} : RunInv(q)'
  BY <1>2, <1>3, LoopCatches, OthersApart, ApartRuns DEF RInv
<1>. QED BY <1>6, <1>7, LoopCatches DEF RInv

(* A run that ends, of itself or not, takes its locals with it.              *)
LEMMA LeaveRInv ==
  ASSUME RInv, TInv', NEW p \in Procs, FinishSync(p) \/ Interrupt(p)
  PROVE  RInv'
<1>1. TInv /\ KeptNotAhead
  BY DEF RInv
<1>2. UNCHANGED <<updated, kept>>
  BY DEF FinishSync, Interrupt, server, store
<1>3. Empty(p)' /\ pc'[p] \in Resting
  BY <1>1 DEF FinishSync, Interrupt, Leave, Goto, Empty, Resting, TInv, TypeOK
<1>4. KeptNotAhead'
  BY <1>1, <1>2 DEF KeptNotAhead
<1>5. ASSUME NEW q \in Procs \ {p} PROVE RunInv(q)'
  <2>1. ~Followed
    BY <1>5 DEF Followed
  <2>2. \A t \in Tickets : Caught(t) => Caught(t)'
    BY <1>2, <2>1 DEF Caught, Ingested
  <2>. QED BY <1>1, <1>2, <2>2, OthersApart, ApartRuns DEF RInv
<1>. QED BY <1>3, <1>4, <1>5 DEF RInv, RunInv

(* An edit between runs moves its ticket to the end of the order.            *)
LEMMA EditRInv ==
  ASSUME ~EditsDuringRun, RInv, TInv', NEW t \in Tickets, Edit(t)
  PROVE  RInv'
<1>1. TInv /\ KeptNotAhead
  BY DEF RInv
<1>2. /\ \A p \in Procs : pc[p] \in Resting
      /\ updated' = [updated EXCEPT ![t] = clock]
      /\ UNCHANGED <<kept, pc, found, todo, failed, given, streak>>
      /\ updated[t] # None => updated[t] < clock
  BY DEF Edit, store, locals, walk
<1>3. clock \in Nat /\ updated \in [Tickets -> Instant] /\ kept \in [Tickets -> Instant]
  BY <1>1 DEF TInv, TypeOK
<1>4. KeptNotAhead'
  BY <1>1, <1>2, <1>3 DEF KeptNotAhead, Instant
<1>5. \A p \in Procs : RunInv(p)'
  BY <1>2 DEF RInv, RunInv, Empty
<1>. QED BY <1>4, <1>5 DEF RInv

(* Every step keeps the invariant.                                           *)
LEMMA NextRInv == ~EditsDuringRun /\ RInv /\ [Next]_vars => RInv'
<1>. SUFFICES ASSUME ~EditsDuringRun, RInv, [Next]_vars PROVE RInv'
  OBVIOUS
<1>1. TInv'
  BY NextTInv DEF RInv
<1>2. ASSUME NEW p \in Procs,
             StartIncremental(p) \/ StartBackfill(p)
               \/ \E since \in Sinces : StartSince(p, since)
      PROVE  RInv'
  BY <1>1, <1>2, StartRInv DEF StartIncremental, StartBackfill, StartSince
<1>3. ASSUME Tick \/ UNCHANGED vars PROVE RInv'
  <2>1. UNCHANGED <<updated, kept, reported, pc, scope, window, given, pages,
                    found, todo, failed, streak, cut>>
    BY <1>3 DEF Tick, vars, store, locals, walk
  <2>. QED BY <1>1, <2>1 DEF RInv, KeptNotAhead, Caught, Ingested, InWindow, Empty,
         RunInv, WalkInv, EndInv, LoopInv, Seen, Rest
<1>. QED BY <1>1, <1>2, <1>3, FetchRInv, LoopRInv, LeaveRInv, EditRInv DEF Next, Sync

(* Only FinishSync takes a run from its loop to a result.                    *)
LEMMA OnlyFinishEnds ==
  ASSUME TInv, [Next]_vars, NEW p \in Procs, pc[p] = "tickets", pc'[p] = "done"
  PROVE  FinishSync(p)
<1>1. pc \in [Procs -> Resting \cup {"search", "tickets"}]
  BY DEF TInv, TypeOK
<1>2. ASSUME NEW q \in Procs, NEW since, NEW backfill, StartWith(q, since, backfill)
      PROVE  FALSE
  BY <1>1, <1>2 DEF StartWith, Goto, Resting
<1>3. ASSUME NEW q \in Procs, FetchPage(q) PROVE FALSE
  <2>1. Goto(q, "tickets") \/ UNCHANGED pc
    BY <1>3, Zenon DEF FetchPage, TurnPage
  <2>. QED BY <1>1, <2>1 DEF Goto
<1>4. ASSUME NEW q \in Procs, NEW i \in todo[q], IngestTicket(q, i) \/ TicketFails(q, i)
      PROVE  FALSE
  BY <1>4 DEF IngestTicket, TicketFails
<1>5. ASSUME NEW q \in Procs, Interrupt(q) PROVE FALSE
  BY <1>1, <1>5 DEF Interrupt, Leave, Goto
<1>6. ASSUME NEW q \in Procs, FinishSync(q) PROVE q = p
  BY <1>1, <1>6 DEF FinishSync, Leave, Goto
<1>7. ASSUME Tick \/ (\E t \in Tickets : Edit(t)) \/ UNCHANGED vars PROVE FALSE
  BY <1>7 DEF Tick, Edit, vars
<1>. QED BY <1>2, <1>3, <1>4, <1>5, <1>6, <1>7
         DEF Next, Sync, StartIncremental, StartBackfill, StartSince

(* An Ok run is complete: when no ticket is edited while a run works, a run   *)
(* that was not truncated and returns Ok has ingested all of its window, in   *)
(* every behaviour in which no walk reaches its page cap, for any number of   *)
(* processes and faults, any page sizes and wherever `--since` points.        *)
BelowCap == \A p \in Procs : pages[p] < MaxPages

LEMMA FinishIsComplete ==
  ASSUME RInv, NEW p \in Procs, FinishSync(p), pc'[p] = "done", ~cut[p],
         pages[p] < MaxPages
  PROVE  \A t \in Tickets : InWindow(t, scope[p]) => Ingested(t)
<1>1. pc[p] = "tickets" /\ pc[p] \notin Resting
  BY DEF FinishSync, Resting
<1>2. TInv /\ EndInv(p) /\ LoopInv(p)
  BY <1>1 DEF RInv, RunInv
<1>3. failed[p] = {}
  BY <1>2 DEF FinishSync, Leave, Goto, TInv, TypeOK
<1>4. todo[p] = {}
  BY <1>2, <1>3 DEF FinishSync, LoopInv, TInv, TypeOK
<1>5. ASSUME NEW t \in Tickets, InWindow(t, scope[p]) PROVE Ingested(t)
  <2>1. PICK i \in found[p] : i.ticket = t
    BY <1>1, <1>2, <1>5 DEF EndInv, Seen
  <2>. QED BY <1>2, <1>3, <1>4, <2>1 DEF LoopInv, Caught
<1>. QED BY <1>5

THEOREM OkRunsAreComplete ==
  ASSUME ~EditsDuringRun PROVE Spec /\ []BelowCap => OkRunIsComplete
<1>. DEFINE Complete ==
       \A p \in Procs :
         pc[p] = "tickets" /\ pc'[p] = "done" /\ ~cut[p] =>
           \A t \in Tickets : InWindow(t, scope[p]) => Ingested(t)
<1>1. RInv /\ BelowCap /\ [Next]_vars => Complete
  <2>. SUFFICES ASSUME RInv, BelowCap, [Next]_vars, NEW p \in Procs,
                       pc[p] = "tickets", pc'[p] = "done", ~cut[p]
                PROVE  \A t \in Tickets : InWindow(t, scope[p]) => Ingested(t)
    OBVIOUS
  <2>1. FinishSync(p)
    BY OnlyFinishEnds DEF RInv
  <2>. QED BY <2>1, FinishIsComplete DEF BelowCap
<1>2. RInv /\ [Next]_vars => RInv'
  BY NextRInv
<1>. QED BY InitRInv, <1>1, <1>2, PTL DEF Spec, OkRunIsComplete

-----------------------------------------------------------------------------
(* What the cursor owes, when moreover `--since` does not skip ahead of it.  *)

Quiet == ~EditsDuringRun /\ ~SkipAhead

OwedStaysAhead == \A t \in Tickets : ~Caught(t) => InWindow(t, cursor)

\* A run's window, and the cursor it read, cover what is still owed, whatever
\* other runs have stored since it began.
CoversInv(p) ==
  \A t \in Tickets :
    ~Caught(t) => InWindow(t, scope[p]) /\ InWindow(t, stored[p])

SInv ==
  /\ RInv
  /\ OwedStaysAhead
  /\ \A p \in Procs : pc[p] \notin Resting => CoversInv(p)

(* The initial state satisfies the invariant.                                *)
LEMMA InitSInv == Init => SInv
BY InitRInv DEF Init, SInv, OwedStaysAhead, Caught, Ingested, Resting

(* What a step does not touch stays covered, while nothing more is owed.     *)
LEMMA StillCovers ==
  ASSUME SInv, NEW q \in Procs, updated' = updated, Apart(q),
         \A t \in Tickets : Caught(t) => Caught(t)'
  PROVE  pc'[q] \notin Resting => CoversInv(q)'
BY DEF SInv, CoversInv, Apart, InWindow

(* A run starts over what the cursor owes.                                   *)
LEMMA StartSInv ==
  ASSUME SInv, RInv', NEW p \in Procs, NEW since \in Nat \cup {None},
         NEW backfill \in BOOLEAN, StartWith(p, since, backfill),
         since # None => cursor # None /\ since <= cursor
  PROVE  SInv'
<1>1. TInv /\ OwedStaysAhead
  BY DEF SInv, RInv
<1>2. /\ UNCHANGED <<updated, kept, reported, cursor>>
      /\ stored'[p] = cursor
      /\ scope'[p] = ResolveScope(since, backfill, cursor)
  BY <1>1 DEF StartWith, server, store, TInv, TypeOK
<1>3. \A t \in Tickets : Caught(t) <=> Caught(t)'
  BY <1>2 DEF Caught, Ingested
<1>4. OwedStaysAhead'
  BY <1>1, <1>2, <1>3 DEF OwedStaysAhead, InWindow
<1>5. \A t \in Tickets :
        InWindow(t, cursor) => InWindow(t, ResolveScope(since, backfill, cursor))
  <2>. SUFFICES ASSUME NEW t \in Tickets, InWindow(t, cursor)
                PROVE  InWindow(t, ResolveScope(since, backfill, cursor))
    OBVIOUS
  <2>1. updated[t] \in Nat /\ cursor \in Instant
    BY <1>1 DEF InWindow, TInv, TypeOK, Instant
  <2>2. CASE since = None
    BY <2>1, <2>2 DEF ResolveScope, InWindow
  <2>3. CASE since # None
    <3>1. since \in Nat /\ cursor \in Nat /\ since <= cursor
      BY <2>1, <2>3 DEF Instant
    <3>2. Minute(since) <= Minute(cursor) /\ Minute(cursor) <= Minute(updated[t])
      BY <2>1, <3>1, MinuteMonotone DEF InWindow
    <3>3. Minute(since) \in Nat /\ Minute(cursor) \in Nat /\ Minute(updated[t]) \in Nat
      BY <2>1, <3>1, MinuteMonotone
    <3>. QED BY <2>1, <2>3, <3>2, <3>3 DEF ResolveScope, InWindow
  <2>. QED BY <2>2, <2>3
<1>6. CoversInv(p)'
  BY <1>1, <1>2, <1>3, <1>5 DEF CoversInv, OwedStaysAhead, InWindow
<1>7. \A q \in Procs \ {p} : pc'[q] \notin Resting => CoversInv(q)'
  BY <1>1, <1>2, <1>3, OthersApart, StillCovers
<1>. QED BY <1>4, <1>6, <1>7 DEF SInv

(* Reading pages and tickets leaves the cursor, and no run owes more for it. *)
LEMMA WorkSInv ==
  ASSUME SInv, RInv', NEW p \in Procs,
         FetchPage(p) \/ \E i \in todo[p] : IngestTicket(p, i) \/ TicketFails(p, i)
  PROVE  SInv'
<1>1. RInv /\ TInv /\ OwedStaysAhead
  BY DEF SInv, RInv
<1>2. UNCHANGED <<updated, cursor, scope, stored>>
  BY DEF FetchPage, IngestTicket, TicketFails, server, store
<1>3. \A t \in Tickets : Caught(t) => Caught(t)'
  <2>1. CASE FetchPage(p)
    BY <2>1 DEF FetchPage, server, store, Caught, Ingested
  <2>. QED BY <1>1, <2>1, LoopCatches
<1>4. OwedStaysAhead'
  BY <1>1, <1>2, <1>3 DEF OwedStaysAhead, InWindow
<1>5. pc[p] \notin Resting
  BY DEF FetchPage, IngestTicket, TicketFails, IsNext, Resting
<1>6. CoversInv(p)'
  BY <1>2, <1>3, <1>5 DEF SInv, CoversInv, InWindow
<1>7. \A q \in Procs \ {p} : pc'[q] \notin Resting => CoversInv(q)'
  BY <1>1, <1>2, <1>3, OthersApart, StillCovers
<1>. QED BY <1>4, <1>6, <1>7 DEF SInv

(* The cursor a run stores steps over no ticket that is not ingested.        *)
LEMMA FinishKeepsStale ==
  ASSUME SInv, NEW p \in Procs, pc[p] = "tickets", CoversInv(p), WalkInv(p),
         LoopInv(p), todo[p] = {} \/ streak[p] >= Breaker,
         NEW t \in Tickets, ~Caught(t)
  PROVE  InWindow(t, NextCursor(p))
<1>. DEFINE observed == Stamps(found[p] \ todo[p]) \ {None}
            late == Stamps(failed[p])
<1>1. TInv /\ InWindow(t, cursor) /\ InWindow(t, scope[p]) /\ InWindow(t, stored[p])
  BY DEF SInv, RInv, OwedStaysAhead, CoversInv
<1>2. updated[t] \in Nat /\ clock \in Nat
  BY <1>1 DEF InWindow, TInv, TypeOK, Instant
<1>3. /\ found[p] \in SUBSET Item /\ failed[p] \subseteq found[p] \ todo[p]
      /\ found[p] \ todo[p] \in SUBSET Item /\ failed[p] \in SUBSET Item
      /\ streak[p] \in Nat
  BY <1>1 DEF TInv, TypeOK, TimesInv, LoopInv
<1>4. observed \in SUBSET Nat /\ (\A y \in observed : y <= clock)
      /\ \A y \in observed : \E i \in found[p] \ todo[p] : y = i.at
  <2>1. observed \in SUBSET Nat /\ observed \subseteq {i.at : i \in found[p] \ todo[p]}
    BY <1>3, StampsAre
  <2>. QED BY <1>1, <2>1 DEF TInv, TimesInv
<1>5. late \in SUBSET Instant
      /\ \A y \in late \ {None} : \E i \in failed[p] : y = i.at
  BY <1>3, StampsAre
<1>6. \A i \in failed[p] : Stamp(i) \in late
  BY DEF Stamps
<1>7. \A i \in Item : Stamp(i) = None \/ Stamp(i) = i.at
  BY DEF Stamp
<1>8. CASE None \in late
  BY <1>1, <1>8 DEF NextCursor
<1>9. CASE None \notin late /\ late # {}
  <2>1. late \in SUBSET Nat
    BY <1>5, <1>9 DEF Instant
  <2>2. NextCursor(p) = Earliest(late)
    BY <1>9, <2>1 DEF NextCursor
  <2>3. Earliest(late) \in late /\ \A y \in late : Earliest(late) <= y
    BY <1>9, <2>1, EarliestIs
  <2>4. PICK f \in failed[p] : f.at = Earliest(late)
    BY <1>5, <1>9, <2>3
  <2>. HIDE DEF late
  <2>5. Earliest(late) <= updated[t]
    <3>1. CASE t \notin Seen(p)
      BY <1>1, <1>3, <2>4, <3>1 DEF WalkInv
    <3>2. CASE t \in Seen(p)
      <4>1. PICK i \in found[p] : i.ticket = t /\ i.at = updated[t]
        BY <3>2 DEF Seen, WalkInv
      <4>2. CASE i \in todo[p]
        BY <1>3, <2>4, <4>1, <4>2 DEF LoopInv
      <4>3. CASE i \notin todo[p]
        <5>1. i \in failed[p]
          BY <4>1, <4>3 DEF LoopInv
        <5>2. Stamp(i) = i.at
          BY <1>3, <1>6, <1>7, <1>9, <5>1
        <5>. QED BY <1>6, <2>3, <4>1, <5>1, <5>2
      <4>. QED BY <4>2, <4>3
    <3>. QED BY <3>1, <3>2
  <2>. QED BY <1>2, <2>1, <2>2, <2>3, <2>5, LaterIsInWindow
<1>10. CASE late = {}
  <2>1. failed[p] = {}
    BY <1>6, <1>10
  <2>2. todo[p] = {}
    BY <1>3, <2>1 DEF LoopInv
  <2>3. t \notin Seen(p)
    BY <2>1, <2>2 DEF Seen, LoopInv
  <2>4. CASE observed = {}
    BY <1>1, <1>10, <2>4 DEF NextCursor
  <2>5. CASE observed # {}
    <3>1. NextCursor(p) = Newer(stored[p], Latest(observed))
      BY <1>10, <2>5 DEF NextCursor
    <3>2. Latest(observed) \in observed
      BY <1>2, <1>4, <2>5, LatestIs
    <3>. HIDE DEF observed
    <3>5. PICK i \in found[p] \ todo[p] : Latest(observed) = i.at
      BY <1>4, <3>2
    <3>6. i.at <= updated[t]
      BY <1>1, <2>3, <3>5 DEF WalkInv
    <3>3. Latest(observed) \in Nat /\ Latest(observed) <= updated[t]
      BY <1>4, <3>2, <3>5, <3>6
    <3>4. InWindow(t, Latest(observed))
      BY <1>2, <3>3, LaterIsInWindow
    <3>. QED BY <1>1, <3>1, <3>4 DEF Newer
  <2>. QED BY <2>4, <2>5
<1>. QED BY <1>8, <1>9, <1>10

(* Nor does it step over a ticket that failed, if every ticket is dated.      *)
LEMMA FinishKeepsFailed ==
  ASSUME Undated = {}, RInv, NEW p \in Procs, WalkInv(p), LoopInv(p), NEW f \in failed[p]
  PROVE  InWindow(f.ticket, NextCursor(p))
<1>. DEFINE late == Stamps(failed[p])
<1>1. failed[p] \in SUBSET Item /\ failed[p] \subseteq found[p]
  BY DEF RInv, TInv, TypeOK, TimesInv, LoopInv
<1>2. \A i \in failed[p] : Stamp(i) = i.at /\ i.at \in Nat /\ i.ticket \in Tickets
  BY <1>1 DEF Stamp, Item
<1>3. late \in SUBSET Nat /\ f.at \in late
  BY <1>2 DEF Stamps
<1>4. late # {} /\ None \notin late
  BY <1>3
<1>5. NextCursor(p) = Earliest(late)
  BY <1>3, <1>4 DEF NextCursor
<1>6. Earliest(late) \in Nat /\ Earliest(late) <= f.at
  BY <1>3, <1>4, EarliestIs
<1>7. updated[f.ticket] = f.at /\ f.ticket \in Tickets /\ f.at \in Nat
  BY <1>1, <1>2 DEF WalkInv
<1>. QED BY <1>5, <1>6, <1>7, LaterIsInWindow

(* So a run may finish, as far as it came, whatever other runs have stored.  *)
LEMMA FinishSInv ==
  ASSUME SInv, RInv', NEW p \in Procs, FinishSync(p)
  PROVE  SInv'
<1>1. pc[p] = "tickets" /\ pc[p] \notin Resting
  BY DEF FinishSync, Resting
<1>2. RInv /\ TInv /\ WalkInv(p) /\ LoopInv(p) /\ CoversInv(p)
  BY <1>1 DEF SInv, RInv, RunInv
<1>3. cursor' = NextCursor(p) /\ UNCHANGED <<updated, kept>>
      /\ (todo[p] = {} \/ streak[p] >= Breaker)
      /\ reported' = reported \cup {f.ticket : f \in failed[p]}
  BY DEF FinishSync, server
<1>4. ASSUME NEW t \in Tickets, ~Caught(t)' PROVE InWindow(t, cursor)'
  <2>1. CASE ~Caught(t)
    BY <1>1, <1>2, <1>3, <2>1, FinishKeepsStale DEF InWindow
  <2>2. CASE Followed /\ \E f \in failed[p] : t = f.ticket
    BY <1>2, <1>3, <2>2, FinishKeepsFailed DEF InWindow, Followed
  <2>. QED BY <1>3, <1>4, <2>1, <2>2 DEF Caught, Ingested
<1>5. OwedStaysAhead'
  BY <1>4 DEF OwedStaysAhead
<1>6. pc'[p] \in Resting
  BY <1>2 DEF FinishSync, Leave, Goto, Resting, TInv, TypeOK
<1>7. ASSUME NEW q \in Procs \ {p} PROVE pc'[q] \notin Resting => CoversInv(q)'
  <2>1. \A t \in Tickets : Caught(t) => Caught(t)'
    BY <1>3, <1>7 DEF Caught, Ingested, Followed
  <2>. QED BY <1>2, <1>3, <2>1, OthersApart, StillCovers
<1>. QED BY <1>5, <1>6, <1>7 DEF SInv

(* A killed run leaves the cursor as it was.                                 *)
LEMMA InterruptSInv ==
  ASSUME SInv, RInv', NEW p \in Procs, Interrupt(p)
  PROVE  SInv'
<1>1. TInv /\ OwedStaysAhead /\ UNCHANGED <<updated, kept, cursor, reported>>
  BY DEF SInv, RInv, Interrupt, server, store
<1>2. \A t \in Tickets : Caught(t) => Caught(t)'
  BY <1>1 DEF Caught, Ingested
<1>3. OwedStaysAhead'
  BY <1>1, <1>2 DEF OwedStaysAhead, InWindow
<1>4. pc'[p] \in Resting
  BY <1>1 DEF Interrupt, Leave, Goto, Resting, TInv, TypeOK
<1>5. \A q \in Procs \ {p} : pc'[q] \notin Resting => CoversInv(q)'
  BY <1>1, <1>2, OthersApart, StillCovers
<1>. QED BY <1>3, <1>4, <1>5 DEF SInv

(* An edit between runs moves its ticket past the cursor.                    *)
LEMMA EditSInv ==
  ASSUME ~EditsDuringRun, SInv, RInv', NEW t \in Tickets, Edit(t)
  PROVE  SInv'
<1>1. TInv /\ OwedStaysAhead
  BY DEF SInv, RInv
<1>2. /\ \A p \in Procs : pc[p] \in Resting
      /\ updated' = [updated EXCEPT ![t] = clock]
      /\ UNCHANGED <<kept, cursor, reported, pc>>
  BY DEF Edit, store, locals
<1>3. clock \in Nat /\ cursor \in Instant /\ (cursor # None => cursor <= clock)
      /\ updated \in [Tickets -> Instant]
  BY <1>1 DEF TInv, TypeOK, TimesInv
<1>4. ASSUME NEW u \in Tickets, ~Caught(u)' PROVE InWindow(u, cursor)'
  <2>1. CASE u = t
    <3>1. updated'[u] = clock
      BY <1>2, <1>3, <2>1
    <3>2. cursor # None => Minute(cursor) <= Minute(clock)
      BY <1>3, MinuteMonotone DEF Instant
    <3>. QED BY <1>2, <1>3, <3>1, <3>2 DEF InWindow
  <2>2. CASE u # t
    BY <1>1, <1>2, <1>3, <1>4, <2>2 DEF OwedStaysAhead, Caught, Ingested, InWindow
  <2>. QED BY <2>1, <2>2
<1>. QED BY <1>2, <1>4 DEF SInv, OwedStaysAhead

(* Every step keeps the invariant.                                           *)
LEMMA NextSInv == Quiet /\ SInv /\ [Next]_vars => SInv'
<1>. SUFFICES ASSUME Quiet, SInv, [Next]_vars PROVE SInv'
  OBVIOUS
<1>1. RInv' /\ ~EditsDuringRun /\ ~SkipAhead
  BY NextRInv DEF SInv, Quiet
<1>2. cursor \in Instant /\ None \notin Sinces
  BY DEF SInv, RInv, TInv, TypeOK
<1>3. ASSUME NEW p \in Procs,
             StartIncremental(p) \/ StartBackfill(p)
               \/ \E since \in Sinces : StartSince(p, since)
      PROVE  SInv'
  BY <1>1, <1>2, <1>3, StartSInv DEF StartIncremental, StartBackfill, StartSince
<1>4. ASSUME Tick \/ UNCHANGED vars PROVE SInv'
  <2>1. UNCHANGED <<updated, kept, reported, cursor, pc, scope, stored>>
    BY <1>4 DEF Tick, vars, store, locals
  <2>. QED BY <1>1, <2>1 DEF SInv, OwedStaysAhead, CoversInv, Caught, Ingested, InWindow
<1>. QED BY <1>1, <1>3, <1>4, WorkSInv, FinishSInv, InterruptSInv, EditSInv DEF Next, Sync

(* No ticket is left behind: when nothing is edited while a run works and     *)
(* `--since` does not skip ahead, whatever was not ingested lies in the next  *)
(* run's window, through failures, kills, truncated walks and any number of   *)
(* processes that overwrite each other's cursor.                             *)
THEOREM NothingLeftBehind ==
  ASSUME Quiet PROVE Spec => []StaleStaysAhead
<1>1. SInv => StaleStaysAhead
  BY DEF SInv, OwedStaysAhead, StaleStaysAhead, Caught
<1>2. SInv /\ [Next]_vars => SInv'
  BY NextSInv
<1>. QED BY InitSInv, <1>1, <1>2, PTL DEF Spec

(* Where every ticket carries its time and one process syncs, whatever a     *)
(* failed run named stays in the next run's window until it is ingested,     *)
(* whichever mixture of backfills, `--since` and incremental runs follows.   *)
THEOREM ReportedIsReadAgain ==
  ASSUME Quiet, Followed PROVE Spec => []ReportedStaysAhead
<1>1. SInv => ReportedStaysAhead
  BY DEF SInv, RInv, TInv, TypeOK, OwedStaysAhead, ReportedStaysAhead, Caught
<1>2. SInv /\ [Next]_vars => SInv'
  BY NextSInv
<1>. QED BY InitSInv, <1>1, <1>2, PTL DEF Spec
=============================================================================
