------------------------ MODULE WeekCollection_proofs ------------------------
(***************************************************************************)
(* Theorems about the weekly collect path, for every calendar, every set of  *)
(* commits and processes: what a forced run stores, what a skipped week is   *)
(* worth, and that the path keeps the promise of CollectPromise.             *)
(***************************************************************************)
EXTENDS WeekCollection, TLAPS

USE CalendarAssumption, RangeAssumption

(* Division cuts the integers into blocks of d.                              *)
LEMMA DivBlock ==
  ASSUME NEW n \in Int, NEW d \in Nat \ {0}
  PROVE  /\ n \div d \in Int
         /\ (n \div d) * d <= n
         /\ n < (n \div d) * d + d
  OBVIOUS

(* A number not below the q-th block has a block not below q.                *)
LEMMA DivAbove ==
  ASSUME NEW n \in Int, NEW d \in Nat \ {0}, NEW q \in Int, q * d <= n
  PROVE  q <= n \div d
<1>. DEFINE k == n \div d
<1>1. k \in Int /\ n < k * d + d
  BY DivBlock
<1>. HIDE DEF k
<1>2. SUFFICES ASSUME k + 1 <= q PROVE FALSE
  BY <1>1
<1>3. (k + 1) * d <= q * d
  BY <1>1, <1>2
<1>4. (k + 1) * d = k * d + d
  BY <1>1
<1>. QED BY <1>1, <1>3, <1>4

(* Division keeps the order.                                                 *)
LEMMA DivMonotone ==
  ASSUME NEW m \in Int, NEW n \in Int, NEW d \in Nat \ {0}, m <= n
  PROVE  m \div d <= n \div d
<1>1. (m \div d) \in Int /\ (m \div d) * d <= m
  BY DivBlock
<1>2. (m \div d) * d <= n
  BY <1>1
<1>. QED BY <1>1, <1>2, DivAbove

(* The date on a commit's own clock is within a day of the UTC date, and the *)
(* walk has not stopped before a commit dated inside its window: the day of  *)
(* grace covers every timezone.                                              *)
LEMMA Dates ==
  ASSUME NEW c \in Commits
  PROVE  /\ LocalDate(c) \in Int /\ DateOf(c) \in Nat /\ Week(c) \in Int
         /\ DateOf(c) - 1 <= LocalDate(c)
         /\ \A first \in Int : first <= LocalDate(c) => ~BeyondSince(c, first)
<1>. DEFINE t == Time[c]
            o == Offset[c]
            date == DateOf(c)
            local == LocalDate(c)
<1>1. t \in Nat /\ o \in Int /\ 1 - DayLen <= o /\ o <= DayLen - 1
  OBVIOUS
<1>2. date \in Int /\ date * DayLen <= t
  <2>. HIDE DEF t
  <2>1. /\ t \div DayLen \in Int
        /\ (t \div DayLen) * DayLen <= t
    BY <1>1, DivBlock
  <2>. QED BY <2>1 DEF t, DateOf
<1>3. /\ local \in Int /\ local * DayLen <= t + o
      /\ t + o < local * DayLen + DayLen
  <2>. HIDE DEF t, o
  <2>1. t + o \in Int
    BY <1>1
  <2>2. /\ (t + o) \div DayLen \in Int
        /\ ((t + o) \div DayLen) * DayLen <= t + o
        /\ t + o < ((t + o) \div DayLen) * DayLen + DayLen
    BY <2>1, DivBlock
  <2>. QED BY <2>2 DEF t, o, LocalDate
<1>4. 0 <= date
  <2>1. 0 * DayLen <= t
    BY <1>1
  <2>2. \A n \in Int, d \in Nat \ {0} : 0 * d <= n => 0 <= n \div d
    BY DivAbove
  <2>3. t \in Int /\ DayLen \in Nat \ {0}
    BY <1>1
  <2>. HIDE DEF t, date
  <2>4. 0 <= t \div DayLen
    BY <2>1, <2>2, <2>3, Zenon
  <2>. QED BY <2>4 DEF date, t, DateOf
<1>5. (date - 1) * DayLen <= t + o
  <2>. HIDE DEF date, t, o
  <2>1. (date - 1) * DayLen = date * DayLen - DayLen
    BY <1>2
  <2>2. date * DayLen \in Int
    BY <1>2
  <2>. QED BY <1>1, <1>2, <2>1, <2>2
<1>6. date - 1 <= local
  <2>1. t + o \in Int /\ date - 1 \in Int
    BY <1>1, <1>2
  <2>. QED BY <1>5, <2>1, DivAbove DEF LocalDate
<1>7. ASSUME NEW first \in Int, first <= local
      PROVE  ~BeyondSince(c, first)
  <2>1. DayLen * first <= local * DayLen
    BY <1>3, <1>7
  <2>. QED BY <1>1, <1>3, <2>1 DEF BeyondSince
<1>8. Week(c) \in Int
  BY <1>3, DivBlock DEF Week, WeekOf
<1>. QED BY <1>2, <1>3, <1>4, <1>6, <1>7, <1>8

(* A day in week w lies between the first and the last day of w.             *)
LEMMA WeekDays ==
  ASSUME NEW d \in Int
  PROVE  /\ WeekOf(d) \in Int
         /\ WeekOf(d) * WeekLen <= d
         /\ d <= WeekOf(d) * WeekLen + WeekLen - 1
<1>1. /\ WeekOf(d) \in Int /\ WeekOf(d) * WeekLen <= d
      /\ d < WeekOf(d) * WeekLen + WeekLen
  BY DivBlock DEF WeekOf
<1>. QED BY <1>1

(* The window of week w holds every commit of that week the range asks for.  *)
LEMMA WindowHoldsWeek ==
  ASSUME NEW c \in Commits, NEW r, r.from \in Nat, r.to \in Nat, NEW S,
         c \in S, InRange(c, r), NEW w \in Nat, Week(c) = w
  PROVE  c \in Walked(S, Window(w, r)[1], Window(w, r)[2])
<1>1. LocalDate(c) \in Int
  BY Dates
<1>2. w * WeekLen <= LocalDate(c) /\ LocalDate(c) <= w * WeekLen + WeekLen - 1
  BY <1>1, WeekDays DEF Week
<1>3. r.from <= LocalDate(c) /\ LocalDate(c) <= r.to
  BY DEF InRange
<1>4. w * WeekLen \in Int
  OBVIOUS
<1>5. /\ Window(w, r)[1] \in Int
      /\ Window(w, r)[1] <= LocalDate(c) /\ LocalDate(c) <= Window(w, r)[2]
  BY <1>1, <1>2, <1>3, <1>4 DEF Window, Larger, Smaller
<1>. QED BY <1>5, Dates DEF Walked

-----------------------------------------------------------------------------
(* A day that is not before the first has a week that is not either.         *)
LEMMA NaturalWeek ==
  ASSUME NEW d \in Nat
  PROVE  WeekOf(d) \in Nat
<1>1. 0 * WeekLen <= d
  OBVIOUS
<1>2. 0 <= d \div WeekLen
  BY <1>1, DivAbove
<1>3. d \div WeekLen \in Int
  BY DivBlock
<1>. QED BY <1>2, <1>3 DEF WeekOf

(* No step leaves the types.                                                 *)
LEMMA TypeStep ==
  ASSUME TypeOK, [Next]_vars
  PROVE  TypeOK'
<1>. USE DEF TypeOK, Steps, Resting, Goto, world, run, history, Fail
<1>0. \A d \in Nat : WeekOf(d) \in Nat
  BY NaturalWeek
<1>a. ASSUME NEW p \in Procs, NextWeek(p)
      PROVE  week' \in [Procs -> Nat] /\ pc' \in [Procs -> Steps]
  BY <1>a DEF NextWeek
<1>1. ASSUME NEW p \in Procs, Start(p) PROVE TypeOK'
  <2>1. PICK r \in Ranges, scope \in Scopes, force \in BOOLEAN :
          Begin(p, RangeOf(r, scope, force))
    BY <1>1 DEF Start
  <2>. DEFINE range == RangeOf(r, scope, force)
  <2>2. range \in Range
    BY DEF RangeOf, Range, Bound
  <2>. HIDE DEF range
  <2>3. cfg' \in [Procs -> Range]
    BY <2>1, <2>2 DEF Begin, range
  <2>4. range.from # None => WeekOf(range.from) \in Nat
    BY <1>0, <2>2 DEF Range, Bound
  <2>5. week' = [week EXCEPT ![p] =
                   IF range.from = None THEN 0 ELSE WeekOf(range.from)]
    BY <2>1 DEF Begin, range
  <2>6. week' \in [Procs -> Nat]
    BY <2>4, <2>5
  <2>7. asked' \in [Procs -> SUBSET Commits]
    BY <2>1 DEF Begin
  <2>8. pc' \in [Procs -> Steps]
    BY <2>1 DEF Begin
  <2>9. waived' \in [Procs -> SUBSET Commits] /\ failed' \in [Procs -> BOOLEAN]
    BY <1>1 DEF Start
  <2>10. /\ today' = today /\ visible' = visible /\ stored' = stored
         /\ ledger' = ledger /\ exempt' = exempt /\ todo' = todo
         /\ spared' = spared
    BY <1>1 DEF Start
  <2>. QED BY ONLY TypeOK, <2>3, <2>6, <2>7, <2>8, <2>9, <2>10 DEF TypeOK
<1>2. ASSUME NEW p \in Procs, SkipWeek(p) PROVE TypeOK'
  BY <1>2, <1>a DEF SkipWeek
<1>3. ASSUME NEW p \in Procs, LookupFails(p) PROVE TypeOK'
  BY <1>3, <1>a DEF LookupFails
<1>4. ASSUME NEW p \in Procs, SeedWeek(p) PROVE TypeOK'
  BY <1>4 DEF SeedWeek, Walked, Spared
<1>5. ASSUME NEW p \in Procs, StoreWeek(p) PROVE TypeOK'
  BY <1>5 DEF StoreWeek
<1>6. ASSUME NEW p \in Procs, WeekFails(p) PROVE TypeOK'
  BY <1>6, <1>a DEF WeekFails
<1>7. ASSUME NEW p \in Procs, RecordWeek(p) PROVE TypeOK'
  <2>1. /\ ledger' \subseteq Nat /\ exempt' \subseteq Commits
        /\ failed' \in [Procs -> BOOLEAN]
    BY <1>7 DEF RecordWeek
  <2>2. /\ asked' \in [Procs -> SUBSET Commits]
        /\ spared' \in [Procs -> SUBSET Commits]
        /\ waived' \in [Procs -> SUBSET Commits]
    BY <1>7 DEF RecordWeek
  <2>3. /\ today' = today /\ visible' = visible /\ stored' = stored
        /\ cfg' = cfg /\ todo' = todo
    BY <1>7 DEF RecordWeek
  <2>4. week' \in [Procs -> Nat] /\ pc' \in [Procs -> Steps]
    BY <1>7, <1>a DEF RecordWeek
  <2>. QED BY ONLY TypeOK, <2>1, <2>2, <2>3, <2>4 DEF TypeOK
<1>8. ASSUME NEW p \in Procs, CollectUntil(p) PROVE TypeOK'
  BY <1>8 DEF CollectUntil, WalkedUntil
<1>9. ASSUME NEW p \in Procs, ReturnUntil(p) PROVE TypeOK'
  BY <1>9 DEF ReturnUntil
<1>10. ASSUME NEW p \in Procs, Interrupt(p) PROVE TypeOK'
  BY <1>10 DEF Interrupt
<1>11. ASSUME Dawn PROVE TypeOK'
  BY <1>11 DEF Dawn
<1>12. ASSUME NEW c \in Commits, Push(c) PROVE TypeOK'
  BY <1>12 DEF Push
<1>13. ASSUME UNCHANGED vars PROVE TypeOK'
  BY <1>13 DEF vars
<1>. QED
  BY <1>1, <1>2, <1>3, <1>4, <1>5, <1>6, <1>7, <1>8, <1>9, <1>10, <1>11,
     <1>12, <1>13
  DEF Next, Collect

-----------------------------------------------------------------------------
(* A process whose own run does not move keeps its part of the invariant     *)
(* while the table and the repository grow.                                  *)
LEMMA Bystander ==
  ASSUME NEW q \in Procs, RunOK(q),
         pc'[q] = pc[q], cfg'[q] = cfg[q], week'[q] = week[q],
         todo'[q] = todo[q], failed'[q] = failed[q], asked'[q] = asked[q],
         waived'[q] = waived[q],
         stored \subseteq stored', visible \subseteq visible'
  PROVE  RunOK(q)'
<1>. USE DEF RunOK, AtWork
<1>1. WeeksInRange(q)' /\ AskedInRange(q)'
  BY DEF WeeksInRange, AskedInRange, InRange
<1>2. WeekCovered(q)'
  BY DEF WeekCovered
<1>3. PastCovered(q)' /\ NothingWaived(q)'
  BY DEF PastCovered, NothingWaived
<1>. QED BY <1>1, <1>2, <1>3

(* The week loop keeps the invariant when the week it leaves is covered, and *)
(* leaves its last week with the whole range covered.                        *)
LEMMA LeaveWeek ==
  ASSUME TypeOK, NEW p \in Procs, RunOK(p), AtWork(p), NextWeek(p),
         cfg' = cfg, asked' = asked, visible' = visible,
         cfg[p].force => waived'[p] = {},
         ~failed'[p] => \A c \in asked[p] : Week(c) <= week[p] =>
                          c \in stored' \cup waived'[p]
  PROVE  RunOK(p)'
<1>1. /\ cfg[p].from \in Nat /\ cfg[p].to \in Nat /\ week[p] \in Nat
      /\ WeekOf(cfg[p].from) <= week[p] /\ week[p] <= WeekOf(cfg[p].to)
  BY DEF RunOK, WeeksInRange, TypeOK, Range, Bound
<1>2. WeekOf(cfg[p].to) \in Int /\ WeekOf(cfg[p].from) \in Int
  BY <1>1, WeekDays
<1>3. \A c \in asked[p] : Week(c) \in Int /\ Week(c) <= WeekOf(cfg[p].to)
  <2>. SUFFICES ASSUME NEW c \in asked[p]
                PROVE  Week(c) \in Int /\ Week(c) <= WeekOf(cfg[p].to)
    OBVIOUS
  <2>1. c \in Commits /\ LocalDate(c) <= cfg[p].to
    BY DEF RunOK, AskedInRange, InRange, TypeOK
  <2>2. LocalDate(c) \in Int /\ Week(c) \in Int
    BY <2>1, Dates
  <2>3. cfg[p].to \in Int /\ WeekLen \in Nat \ {0}
    BY <1>1
  <2>4. LocalDate(c) \div WeekLen <= cfg[p].to \div WeekLen
    BY <2>1, <2>2, <2>3, DivMonotone
  <2>. QED BY <2>2, <2>4 DEF Week, WeekOf
<1>4. AskedInRange(p)' /\ NothingWaived(p)'
  BY DEF RunOK, AskedInRange, InRange, NothingWaived
<1>5. CASE week[p] >= WeekOf(cfg[p].to)
  <2>1. pc'[p] = "done"
    BY <1>5 DEF NextWeek, Goto, TypeOK
  <2>2. \A c \in asked[p] : Week(c) <= week[p]
    BY <1>1, <1>2, <1>3, <1>5
  <2>3. WeeksInRange(p)' /\ WeekCovered(p)'
    BY <2>1 DEF WeeksInRange, WeekCovered, AtWork
  <2>4. PastCovered(p)'
    BY <2>1, <2>2 DEF PastCovered, AtWork
  <2>. QED BY <1>4, <2>3, <2>4 DEF RunOK
<1>6. CASE ~(week[p] >= WeekOf(cfg[p].to))
  <2>1. pc'[p] = "check" /\ week'[p] = week[p] + 1
    BY <1>6 DEF NextWeek, Goto, TypeOK
  <2>2. WeeksInRange(p)'
    BY <1>1, <1>2, <1>6, <2>1 DEF WeeksInRange
  <2>3. WeekCovered(p)'
    BY <2>1 DEF WeekCovered
  <2>4. \A c \in asked[p] : Week(c) < week'[p] => Week(c) <= week[p]
    BY <1>1, <1>3, <2>1
  <2>5. PastCovered(p)'
    BY <2>1, <2>4 DEF PastCovered
  <2>. QED BY <1>4, <2>2, <2>3, <2>5 DEF RunOK
<1>. QED BY <1>5, <1>6

(* A run begins with nothing behind it.                                      *)
LEMMA StartOK ==
  ASSUME TypeOK, NEW p \in Procs, Start(p)
  PROVE  RunOK(p)'
<1>1. PICK r \in Ranges, scope \in Scopes, force \in BOOLEAN :
        Begin(p, RangeOf(r, scope, force))
  BY DEF Start
<1>. DEFINE range == RangeOf(r, scope, force)
<1>2. range \in Range
  BY DEF RangeOf, Range, Bound, TypeOK
<1>. HIDE DEF range
<1>3. /\ cfg'[p] = range
      /\ asked'[p] = {c \in visible \cap range.scope : InRange(c, range)}
      /\ week'[p] = IF range.from = None THEN 0 ELSE WeekOf(range.from)
      /\ pc'[p] = IF range.from = None THEN "until"
                  ELSE IF range.to < range.from THEN "done" ELSE "check"
      /\ visible' = visible /\ waived'[p] = {}
  BY <1>1 DEF TypeOK, Goto, Start, Begin, world, range
<1>4. range.to \in Nat /\ (range.from # None => range.from \in Nat)
  BY <1>2 DEF Range, Bound
<1>5. AskedInRange(p)' /\ NothingWaived(p)'
  BY <1>3 DEF AskedInRange, InRange, NothingWaived
<1>6. WeekCovered(p)'
  BY <1>3 DEF WeekCovered
<1>7. WeeksInRange(p)'
  <2>. SUFFICES ASSUME range.from # None, ~(range.to < range.from)
                PROVE  WeeksInRange(p)'
    BY <1>3 DEF WeeksInRange, AtWork
  <2>1. range.from \in Int /\ range.to \in Int /\ range.from <= range.to
    BY <1>4
  <2>2. /\ WeekOf(range.from) \in Int
        /\ WeekOf(range.from) <= WeekOf(range.to)
    BY <2>1, DivMonotone, WeekDays DEF WeekOf
  <2>. QED BY <1>3, <2>2 DEF WeeksInRange
<1>8. PastCovered(p)'
  <2>1. ASSUME NEW c \in asked'[p], range.from # None
        PROVE  /\ LocalDate(c) \in Int /\ range.from <= LocalDate(c)
               /\ LocalDate(c) <= range.to
               /\ Week(c) \in Int /\ WeekOf(range.from) <= Week(c)
               /\ WeekOf(range.from) \in Int
    <3>1. c \in Commits
      BY <1>3 DEF TypeOK
    <3>2. range.from <= LocalDate(c) /\ LocalDate(c) <= range.to
      BY <1>3, <2>1 DEF InRange
    <3>3. LocalDate(c) \in Int /\ Week(c) \in Int
      BY <3>1, Dates
    <3>4. range.from \in Int
      BY <1>4, <2>1
    <3>. QED BY <3>2, <3>3, <3>4, DivMonotone, WeekDays DEF Week, WeekOf
  <2>2. CASE range.from = None
    BY <1>3, <2>2 DEF PastCovered, AtWork
  <2>3. CASE range.from # None /\ range.to < range.from
    <3>1. asked'[p] = {}
      BY <1>4, <2>1, <2>3
    <3>. QED BY <3>1 DEF PastCovered
  <2>4. CASE range.from # None /\ ~(range.to < range.from)
    BY <1>3, <2>1, <2>4 DEF PastCovered
  <2>. QED BY <2>2, <2>3, <2>4
<1>. QED BY <1>5, <1>6, <1>7, <1>8 DEF RunOK

(* Every step of a run keeps its part of the invariant; a skip leans on the  *)
(* ledger.                                                                   *)
LEMMA CollectOK ==
  ASSUME IInv, NEW p \in Procs, Collect(p)
  PROVE  RunOK(p)'
<1>. USE DEF world, history, Goto, Fail
<1>0. TypeOK /\ RunOK(p)
  BY DEF IInv
<1>a. \A c \in asked[p] : c \in Commits
  BY <1>0 DEF TypeOK
<1>b. \A c \in asked[p] : Week(c) \in Int
  BY <1>a, Dates
<1>c. week[p] \in Int
  BY <1>0 DEF TypeOK
<1>1. CASE Start(p)
  BY <1>0, <1>1, StartOK
<1>2. CASE SkipWeek(p)
  <2>1. AtWork(p) /\ ~cfg[p].force
    BY <1>2 DEF SkipWeek, AtWork
  <2>2. /\ NextWeek(p) /\ cfg' = cfg /\ asked' = asked /\ visible' = visible
        /\ stored' = stored /\ failed' = failed
        /\ waived'[p] = waived[p]
                         \cup {c \in asked[p] \cap exempt : Week(c) = week[p]}
    BY <1>0, <1>2 DEF SkipWeek, TypeOK
  <2>3. ASSUME ~failed[p], NEW c \in asked[p], Week(c) <= week[p]
        PROVE  c \in stored' \cup waived'[p]
    <3>1. CASE Week(c) < week[p]
      BY <1>0, <2>1, <2>2, <2>3, <3>1 DEF RunOK, PastCovered
    <3>2. CASE Week(c) = week[p]
      <4>1. c \in visible /\ Week(c) \in ledger
        BY <1>0, <1>2, <3>2 DEF RunOK, AskedInRange, SkipWeek
      <4>2. c \in stored \cup exempt
        BY <1>a, <4>1 DEF IInv, LedgerInv, IsLate
      <4>. QED BY <2>2, <3>2, <4>2
    <3>. QED BY <1>b, <1>c, <2>3, <3>1, <3>2
  <2>. QED BY <1>0, <2>1, <2>2, <2>3, LeaveWeek
<1>3. CASE LookupFails(p)
  <2>1. /\ AtWork(p) /\ NextWeek(p) /\ cfg' = cfg /\ asked' = asked
        /\ visible' = visible /\ failed'[p] /\ waived' = waived
    BY <1>0, <1>3 DEF LookupFails, AtWork, TypeOK
  <2>. QED BY <1>0, <2>1, LeaveWeek DEF RunOK, NothingWaived
<1>4. CASE SeedWeek(p)
  <2>1. /\ pc[p] = "check" /\ pc'[p] = "walking" /\ cfg' = cfg
        /\ week' = week /\ asked' = asked /\ stored' = stored
        /\ visible' = visible /\ failed' = failed /\ waived' = waived
    BY <1>0, <1>4 DEF SeedWeek, TypeOK
  <2>2. todo'[p] = Walked(visible \cap cfg[p].scope,
                          Window(week[p], cfg[p])[1],
                          Window(week[p], cfg[p])[2])
    BY <1>0, <1>4 DEF SeedWeek, TypeOK
  <2>3. cfg[p].from \in Nat /\ cfg[p].to \in Nat /\ week[p] \in Nat
    BY <1>0, <2>1 DEF RunOK, WeeksInRange, AtWork, TypeOK, Range, Bound
  <2>4. \A c \in asked[p] : Week(c) = week[p] => c \in todo'[p]
    <3>. SUFFICES ASSUME NEW c \in asked[p], Week(c) = week[p]
                  PROVE  c \in todo'[p]
      OBVIOUS
    <3>1. c \in visible \cap cfg[p].scope /\ InRange(c, cfg[p])
      BY <1>0 DEF RunOK, AskedInRange
    <3>2. c \in Commits
      BY <1>a
    <3>3. c \in Walked(visible \cap cfg[p].scope,
                      Window(week[p], cfg[p])[1], Window(week[p], cfg[p])[2])
      BY <2>3, <3>1, <3>2, WindowHoldsWeek
    <3>. QED BY <2>2, <3>3
  <2>5. WeekCovered(p)'
    BY <2>1, <2>4 DEF WeekCovered
  <2>6. WeeksInRange(p)' /\ AskedInRange(p)'
    BY <1>0, <2>1 DEF RunOK, WeeksInRange, AtWork, AskedInRange, InRange
  <2>7. PastCovered(p)' /\ NothingWaived(p)'
    BY <1>0, <2>1 DEF RunOK, PastCovered, AtWork, NothingWaived
  <2>. QED BY <2>5, <2>6, <2>7 DEF RunOK
<1>5. CASE StoreWeek(p)
  <2>1. /\ pc[p] = "walking" /\ pc'[p] = "record" /\ cfg' = cfg
        /\ week' = week /\ asked' = asked /\ stored' = stored \cup todo[p]
        /\ visible' = visible /\ failed' = failed /\ waived' = waived
    BY <1>0, <1>5 DEF StoreWeek, TypeOK
  <2>5. WeekCovered(p)'
    BY <1>0, <2>1 DEF RunOK, WeekCovered
  <2>6. WeeksInRange(p)' /\ AskedInRange(p)'
    BY <1>0, <2>1 DEF RunOK, WeeksInRange, AtWork, AskedInRange, InRange
  <2>7. PastCovered(p)' /\ NothingWaived(p)'
    BY <1>0, <2>1 DEF RunOK, PastCovered, AtWork, NothingWaived
  <2>. QED BY <2>5, <2>6, <2>7 DEF RunOK
<1>6. CASE WeekFails(p)
  <2>1. /\ AtWork(p) /\ NextWeek(p) /\ cfg' = cfg /\ asked' = asked
        /\ visible' = visible /\ failed'[p] /\ waived' = waived
    BY <1>0, <1>6 DEF WeekFails, AtWork, TypeOK
  <2>. QED BY <1>0, <2>1, LeaveWeek DEF RunOK, NothingWaived
<1>7. CASE RecordWeek(p)
  <2>1. /\ AtWork(p) /\ pc[p] = "record" /\ NextWeek(p) /\ cfg' = cfg
        /\ asked' = asked /\ visible' = visible /\ stored' = stored
        /\ failed[p] => failed'[p]
        /\ waived' = waived
    BY <1>0, <1>7 DEF RecordWeek, AtWork, TypeOK
  <2>2. ASSUME ~failed[p], NEW c \in asked[p], Week(c) <= week[p]
        PROVE  c \in stored \cup waived[p]
    <3>1. CASE Week(c) < week[p]
      BY <1>0, <2>1, <2>2, <3>1 DEF RunOK, PastCovered
    <3>2. CASE Week(c) = week[p]
      BY <1>0, <2>1, <3>2 DEF RunOK, WeekCovered
    <3>. QED BY <1>b, <1>c, <2>2, <3>1, <3>2
  <2>. QED BY <1>0, <2>1, <2>2, LeaveWeek DEF RunOK, NothingWaived
<1>8. CASE CollectUntil(p)
  <2>1. /\ pc[p] = "until" /\ pc'[p] = "return" /\ cfg' = cfg
        /\ asked' = asked /\ visible' = visible /\ waived' = waived
        /\ \/ /\ stored' = stored
                    \cup WalkedUntil(visible \cap cfg[p].scope, cfg[p].to)
              /\ failed' = failed
           \/ failed'[p]
    BY <1>0, <1>8 DEF CollectUntil, TypeOK
  <2>2. \A c \in asked[p] :
          c \in WalkedUntil(visible \cap cfg[p].scope, cfg[p].to)
    BY <1>0 DEF RunOK, AskedInRange, InRange, WalkedUntil
  <2>3. AskedInRange(p)' /\ NothingWaived(p)'
    BY <1>0, <2>1 DEF RunOK, AskedInRange, InRange, NothingWaived
  <2>4. WeeksInRange(p)' /\ WeekCovered(p)'
    BY <2>1 DEF WeeksInRange, AtWork, WeekCovered
  <2>5. PastCovered(p)'
    BY <2>1, <2>2 DEF PastCovered, AtWork
  <2>. QED BY <2>3, <2>4, <2>5 DEF RunOK
<1>9. CASE ReturnUntil(p)
  <2>1. /\ pc[p] = "return" /\ pc'[p] = "done" /\ cfg' = cfg
        /\ asked' = asked /\ visible' = visible /\ stored' = stored
        /\ failed' = failed /\ waived' = waived
    BY <1>0, <1>9 DEF ReturnUntil, TypeOK
  <2>. QED
    BY <1>0, <2>1
    DEF RunOK, WeeksInRange, AtWork, WeekCovered, AskedInRange, InRange,
        PastCovered, NothingWaived
<1>10. CASE Interrupt(p)
  <2>1. pc'[p] = "idle" /\ asked'[p] = {} /\ waived'[p] = {}
    BY <1>0, <1>10 DEF Interrupt, TypeOK
  <2>. QED
    BY <2>1
    DEF RunOK, WeeksInRange, AtWork, WeekCovered, AskedInRange, PastCovered,
        NothingWaived
<1>. QED
  BY <1>1, <1>2, <1>3, <1>4, <1>5, <1>6, <1>7, <1>8, <1>9, <1>10 DEF Collect

-----------------------------------------------------------------------------
(* A week has a first day.                                                   *)
LEMMA WeekStart ==
  ASSUME NEW n \in Int
  PROVE  n * WeekLen \in Int
<1>1. WeekLen \in Int
  OBVIOUS
<1>. QED BY <1>1

(* Once a week is over in every timezone, a commit of it that is not there   *)
(* yet can only come late.                                                   *)
LEMMA OverdueIsLate ==
  ASSUME TypeOK, NEW c \in Commits, c \notin visible, IsOver(Week(c))
  PROVE  IsLate(c)
<1>1. /\ LocalDate(c) \in Int /\ DateOf(c) \in Nat
      /\ DateOf(c) - 1 <= LocalDate(c)
      /\ LocalDate(c) <= Week(c) * WeekLen + WeekLen - 1
  BY Dates, WeekDays DEF Week
<1>2. Week(c) * WeekLen \in Int /\ today \in Int
  <2>1. Week(c) \in Int
    BY Dates
  <2>2. today \in Int
    BY DEF TypeOK
  <2>. QED BY <2>1, <2>2, WeekStart
<1>. QED BY <1>1, <1>2 DEF IsOver, IsLate

(* A seeded walk will write every commit of its week, but those that it is   *)
(* right to leave out and those that will be late.                           *)
LEMMA SeedCovers ==
  ASSUME TypeOK, NEW p \in Procs, RunOK(p), SeedWeek(p)
  PROVE  WholeWeekCovered(p)'
<1>1. /\ pc[p] = "check" /\ pc'[p] = "walking" /\ week'[p] = week[p]
      /\ visible' = visible /\ today' = today /\ spared'[p] = Spared(p)
      /\ todo'[p] = Walked(visible \cap cfg[p].scope,
                           Window(week[p], cfg[p])[1],
                           Window(week[p], cfg[p])[2])
  BY DEF SeedWeek, Goto, TypeOK, world
<1>2. cfg[p].from \in Nat /\ cfg[p].to \in Nat /\ week[p] \in Nat
  BY <1>1 DEF RunOK, WeeksInRange, AtWork, TypeOK, Range, Bound
<1>3. ASSUME NEW c \in Commits, Week(c) = week[p]
      PROVE  c \in todo'[p] \cup spared'[p] \/ IsLate(c)
  <2>1. CASE c \in visible \cap cfg[p].scope /\ InRange(c, cfg[p])
    <3>1. c \in Walked(visible \cap cfg[p].scope,
                      Window(week[p], cfg[p])[1], Window(week[p], cfg[p])[2])
      BY <1>2, <1>3, <2>1, WindowHoldsWeek
    <3>. QED BY <1>1, <3>1
  <2>2. CASE c \notin cfg[p].scope \/ ~InRange(c, cfg[p])
    BY <1>1, <1>3, <2>2 DEF Spared
  <2>3. CASE c \notin visible /\ ~IsOver(week[p])
    BY <1>1, <1>3, <2>3 DEF Spared
  <2>4. CASE c \notin visible /\ IsOver(week[p])
    BY <1>3, <2>4, OverdueIsLate
  <2>. QED BY <2>1, <2>2, <2>3, <2>4
<1>4. \A c \in Commits : IsLate(c)' = IsLate(c)
  BY <1>1 DEF IsLate, DateOf
<1>. QED BY <1>1, <1>3, <1>4 DEF WholeWeekCovered

(* The ledger part: each step of a run.                                      *)
LEMMA CollectLedger ==
  ASSUME IInv, NEW p \in Procs, Collect(p)
  PROVE  LedgerInv' /\ \A q \in Procs : WholeWeekCovered(q)'
<1>0. /\ TypeOK /\ LedgerInv
      /\ \A q \in Procs : RunOK(q) /\ WholeWeekCovered(q)
  BY DEF IInv
<1>1. /\ visible' = visible /\ today' = today
      /\ stored \subseteq stored' /\ exempt \subseteq exempt'
      /\ \A q \in Procs \ {p} :
           /\ pc'[q] = pc[q] /\ week'[q] = week[q]
           /\ todo'[q] = todo[q] /\ spared'[q] = spared[q]
  <2>. USE <1>0 DEF TypeOK, world, history, Goto, Collect
  <2>1. CASE Start(p)
    BY <2>1 DEF Start, Begin
  <2>2. CASE SkipWeek(p) \/ LookupFails(p) \/ WeekFails(p) \/ RecordWeek(p)
    BY <2>2 DEF SkipWeek, LookupFails, WeekFails, RecordWeek, NextWeek
  <2>3. CASE SeedWeek(p) \/ StoreWeek(p) \/ CollectUntil(p) \/ ReturnUntil(p)
               \/ Interrupt(p)
    BY <2>3 DEF SeedWeek, StoreWeek, CollectUntil, ReturnUntil, Interrupt
  <2>. QED BY <2>1, <2>2, <2>3
<1>2. \A c \in Commits : IsLate(c)' = IsLate(c)
  BY <1>1 DEF IsLate, DateOf
<1>3. \A q \in Procs \ {p} : WholeWeekCovered(q)'
  BY <1>0, <1>1, <1>2 DEF WholeWeekCovered
<1>4. WholeWeekCovered(p)'
  <2>1. CASE SeedWeek(p)
    BY <1>0, <2>1, SeedCovers
  <2>2. CASE StoreWeek(p)
    <3>1. /\ pc[p] = "walking" /\ pc'[p] = "record" /\ week'[p] = week[p]
          /\ stored' = stored \cup todo[p] /\ spared'[p] = spared[p]
      BY <1>0, <2>2 DEF StoreWeek, Goto, TypeOK, history
    <3>. QED BY <1>0, <1>2, <3>1 DEF WholeWeekCovered
  <2>3. CASE ~SeedWeek(p) /\ ~StoreWeek(p)
    <3>1. pc'[p] \notin {"walking", "record"}
      <4>. USE <1>0 DEF Goto, TypeOK
      <4>1. CASE Start(p)
        BY <4>1 DEF Start, Begin
      <4>2. CASE SkipWeek(p) \/ LookupFails(p) \/ WeekFails(p) \/ RecordWeek(p)
        BY <4>2 DEF SkipWeek, LookupFails, WeekFails, RecordWeek, NextWeek
      <4>3. CASE CollectUntil(p) \/ ReturnUntil(p) \/ Interrupt(p)
        BY <4>3 DEF CollectUntil, ReturnUntil, Interrupt
      <4>. QED BY <2>3, <4>1, <4>2, <4>3 DEF Collect
    <3>. QED BY <3>1 DEF WholeWeekCovered
  <2>. QED BY <2>1, <2>2, <2>3
<1>5. CASE RecordWeek(p) /\ ledger' = ledger \cup {week[p]}
  <2>1. pc[p] = "record" /\ stored' = stored
    BY <1>5 DEF RecordWeek
  <2>2. spared[p] \subseteq exempt' \/ week[p] \in ledger
    BY <1>5 DEF RecordWeek
  <2>3. LedgerInv'
    BY <1>0, <1>1, <1>2, <1>5, <2>1, <2>2 DEF LedgerInv, WholeWeekCovered
  <2>. QED BY <1>3, <1>4, <2>3
<1>6. CASE ledger' = ledger
  <2>1. LedgerInv'
    BY <1>0, <1>1, <1>2, <1>6 DEF LedgerInv
  <2>. QED BY <1>3, <1>4, <2>1
<1>7. ledger' = ledger \/ (RecordWeek(p) /\ ledger' = ledger \cup {week[p]})
  BY DEF Collect, Start, SkipWeek, LookupFails, SeedWeek, StoreWeek,
         WeekFails, RecordWeek, CollectUntil, ReturnUntil, Interrupt
<1>. QED BY <1>5, <1>6, <1>7

(* The ledger part: a commit appears. When it is late, the walk of its week  *)
(* or the ledger learns that it came too late for it.                        *)
LEMMA PushLedger ==
  ASSUME IInv, NEW c \in Commits, Push(c)
  PROVE  LedgerInv' /\ \A q \in Procs : WholeWeekCovered(q)'
<1>0. TypeOK /\ LedgerInv /\ \A q \in Procs : WholeWeekCovered(q)
  BY DEF IInv
<1>1. /\ today' = today /\ visible' = visible \cup {c} /\ stored' = stored
      /\ ledger' = ledger /\ pc' = pc /\ week' = week /\ todo' = todo
      /\ exempt \subseteq exempt'
      /\ \A q \in Procs : spared[q] \subseteq spared'[q]
  BY <1>0 DEF Push, TypeOK
<1>2. \A d \in Commits \ {c} : IsLate(d)' = IsLate(d)
  BY <1>1 DEF IsLate, DateOf
<1>3. IsLate(c) => DateOf(c) < today
  BY DEF IsLate
<1>4. IsLate(c) /\ Week(c) \in ledger => c \in exempt'
  BY <1>3 DEF Push
<1>5. \A q \in Procs : IsLate(c) /\ IsWalking(q, Week(c)) => c \in spared'[q]
  BY <1>3 DEF Push
<1>6. LedgerInv'
  BY <1>0, <1>1, <1>2, <1>4 DEF LedgerInv
<1>7. \A q \in Procs : WholeWeekCovered(q)'
  BY <1>0, <1>1, <1>2, <1>5 DEF WholeWeekCovered, IsWalking
<1>. QED BY <1>6, <1>7

-----------------------------------------------------------------------------
(* The invariant holds initially, and every step keeps it.                   *)
LEMMA InitIInv == Init => IInv
<1>. SUFFICES ASSUME Init PROVE IInv
  OBVIOUS
<1>1. TypeOK
  BY DEF Init, TypeOK, Steps, Resting, Range, NoRange, Bound
<1>2. \A p \in Procs : RunOK(p)
  BY DEF Init, RunOK, WeeksInRange, AtWork, AskedInRange, WeekCovered,
         PastCovered, NothingWaived
<1>3. LedgerInv /\ \A p \in Procs : WholeWeekCovered(p)
  BY DEF Init, LedgerInv, WholeWeekCovered
<1>. QED BY <1>1, <1>2, <1>3 DEF IInv

(* Step by step: a run's own step, a day, a push.                            *)
LEMMA NextIInv == IInv /\ [Next]_vars => IInv'
<1>. SUFFICES ASSUME IInv, [Next]_vars PROVE IInv'
  OBVIOUS
<1>0. TypeOK /\ TypeOK'
  BY TypeStep DEF IInv
<1>1. CASE \E p \in Procs : Collect(p)
  <2>1. PICK p \in Procs : Collect(p)
    BY <1>1
  <2>2. RunOK(p)'
    BY <2>1, CollectOK
  <2>3. ASSUME NEW q \in Procs \ {p} PROVE RunOK(q)'
    <3>1. /\ pc'[q] = pc[q] /\ cfg'[q] = cfg[q] /\ week'[q] = week[q]
          /\ todo'[q] = todo[q] /\ failed'[q] = failed[q]
          /\ asked'[q] = asked[q] /\ waived'[q] = waived[q]
          /\ stored \subseteq stored' /\ visible \subseteq visible'
      <4>. USE <1>0 DEF TypeOK, world, history, Goto, Fail
      <4>1. CASE Start(p)
        BY <4>1 DEF Start, Begin
      <4>2. CASE SkipWeek(p) \/ LookupFails(p) \/ WeekFails(p)
                   \/ RecordWeek(p)
        BY <4>2 DEF SkipWeek, LookupFails, WeekFails, RecordWeek, NextWeek
      <4>3. CASE SeedWeek(p) \/ StoreWeek(p) \/ CollectUntil(p)
                   \/ ReturnUntil(p) \/ Interrupt(p)
        BY <4>3 DEF SeedWeek, StoreWeek, CollectUntil, ReturnUntil, Interrupt
      <4>. QED BY <2>1, <4>1, <4>2, <4>3 DEF Collect
    <3>2. RunOK(q)
      BY DEF IInv
    <3>. QED BY <3>1, <3>2, Bystander
  <2>4. LedgerInv' /\ \A q \in Procs : WholeWeekCovered(q)'
    BY <2>1, CollectLedger
  <2>. QED BY <1>0, <2>2, <2>3, <2>4 DEF IInv
<1>2. CASE Dawn
  <2>1. \A q \in Procs : RunOK(q)'
    BY <1>2, Bystander DEF IInv, Dawn, run, history
  <2>2. /\ today' = today + 1 /\ visible' = visible /\ stored' = stored
        /\ ledger' = ledger /\ exempt' = exempt /\ pc' = pc /\ week' = week
        /\ todo' = todo /\ spared' = spared /\ today \in Int
    BY <1>0, <1>2 DEF Dawn, run, history, TypeOK
  <2>3. \A c \in Commits : IsLate(c) => IsLate(c)'
    <3>. SUFFICES ASSUME NEW c \in Commits, IsLate(c) PROVE IsLate(c)'
      OBVIOUS
    <3>1. DateOf(c) \in Int /\ DateOf(c)' = DateOf(c)
      BY Dates DEF DateOf
    <3>. QED BY <2>2, <3>1 DEF IsLate
  <2>4. LedgerInv' /\ \A q \in Procs : WholeWeekCovered(q)'
    BY <2>2, <2>3 DEF IInv, LedgerInv, WholeWeekCovered
  <2>. QED BY <1>0, <2>1, <2>4 DEF IInv
<1>3. CASE \E c \in Commits : Push(c)
  <2>1. PICK c \in Commits : Push(c)
    BY <1>3
  <2>2. /\ visible \subseteq visible' /\ stored' = stored
        /\ pc' = pc /\ cfg' = cfg /\ week' = week
        /\ todo' = todo /\ failed' = failed /\ asked' = asked
        /\ waived' = waived
    BY <2>1 DEF Push
  <2>3. \A q \in Procs : RunOK(q)'
    BY <2>2, Bystander DEF IInv
  <2>. QED BY <1>0, <2>1, <2>3, PushLedger DEF IInv
<1>4. CASE UNCHANGED vars
  <2>1. \A q \in Procs : RunOK(q)'
    BY <1>4, Bystander DEF IInv, vars, run, history
  <2>2. LedgerInv' /\ \A q \in Procs : WholeWeekCovered(q)'
    BY <1>4
    DEF IInv, vars, run, history, LedgerInv, WholeWeekCovered, IsLate
  <2>. QED BY <1>0, <2>1, <2>2 DEF IInv
<1>. QED BY <1>1, <1>2, <1>3, <1>4 DEF Next

(* Hence the invariant is one of the specification.                          *)
LEMMA Invariance == Spec => []IInv
  BY InitIInv, NextIInv, PTL DEF Spec

(* Every value the weekly path computes has its type.                        *)
THEOREM TypeCorrect == Spec => []TypeOK
<1>1. Init => TypeOK
  BY InitIInv DEF IInv
<1>. QED BY <1>1, TypeStep, PTL DEF Spec

(* `--force` stores all a run was asked for, whatever the ledger says and    *)
(* whatever left it so: no assumption on ranges, scopes or late commits.     *)
THEOREM ForceCollectsAll == Spec => []ForcedRunIsComplete
<1>1. IInv => ForcedRunIsComplete
  BY DEF IInv, RunOK, PastCovered, NothingWaived, ForcedRunIsComplete
<1>. QED BY <1>1, Invariance, PTL

(* Whatever was collected before, by runs that end today, in mid-week or     *)
(* with an error, for whatever branches, skipping a week of the ledger loses *)
(* only what the walk that recorded it was not asked for, what appeared      *)
(* after it while the week went on, and what appeared late.                  *)
THEOREM SkippingLosesNothing == Spec => []LedgerIsComplete
<1>1. IInv => LedgerIsComplete
  BY DEF IInv, TypeOK, LedgerInv, IsLate, LedgerIsComplete
<1>. QED BY <1>1, Invariance, PTL

(* A run without errors has stored all it was asked for but for such commits *)
(* in the weeks it skipped: of the weeks it walked it has them all.          *)
THEOREM CleanRunsCollectAll == Spec => []CleanRunIsComplete
<1>1. IInv => CleanRunIsComplete
  BY DEF IInv, RunOK, PastCovered, CleanRunIsComplete
<1>. QED BY <1>1, Invariance, PTL

-----------------------------------------------------------------------------
(* A step of a run adds to the table or moves its own claim, never both, and *)
(* a claim is of commits that are stored.                                    *)
LEMMA CollectKeepsPromise ==
  ASSUME IInv, IInv', NEW p \in Procs, Collect(p)
  PROVE  [Promise!Next]_(Promise!vars)
<1>. USE DEF Promise!vars, Promise!Next, Promise!Store, Promise!Report
<1>0. TypeOK /\ TypeOK'
  BY DEF IInv
<1>1. CASE StoreWeek(p) \/ WeekFails(p) \/ CollectUntil(p)
  <2>1. stored \subseteq stored' /\ stored' \subseteq Commits
    BY <1>0, <1>1 DEF TypeOK, StoreWeek, WeekFails, CollectUntil
  <2>2. asked' = asked /\ waived' = waived
    BY <1>1 DEF StoreWeek, WeekFails, CollectUntil, history
  <2>3. pc[p] # "done" /\ (pc'[p] # "done" \/ failed'[p])
    BY <1>0, <1>1
    DEF TypeOK, StoreWeek, WeekFails, CollectUntil, Goto, Fail
  <2>4. \A q \in Procs \ {p} : pc'[q] = pc[q] /\ failed'[q] = failed[q]
    BY <1>0, <1>1
    DEF TypeOK, StoreWeek, WeekFails, CollectUntil, Goto, Fail, NextWeek
  <2>5. Claimed' = Claimed
    BY <2>2, <2>3, <2>4 DEF Claimed
  <2>. QED BY <2>1, <2>5
<1>2. CASE ~(StoreWeek(p) \/ WeekFails(p) \/ CollectUntil(p))
  <2>. DEFINE S == IF pc'[p] = "done" /\ ~failed'[p]
                   THEN asked'[p] \ waived'[p] ELSE {}
  <2>1. stored' = stored
    BY <1>2
    DEF Collect, Start, SkipWeek, LookupFails, SeedWeek, RecordWeek,
        ReturnUntil, Interrupt
  <2>2. \A q \in Procs \ {p} :
          /\ pc'[q] = pc[q] /\ failed'[q] = failed[q]
          /\ asked'[q] = asked[q] /\ waived'[q] = waived[q]
    <3>. USE <1>0 DEF TypeOK, history, Goto, Fail
    <3>1. CASE Start(p)
      BY <3>1 DEF Start, Begin
    <3>2. CASE SkipWeek(p) \/ LookupFails(p) \/ RecordWeek(p)
      BY <3>2 DEF SkipWeek, LookupFails, RecordWeek, NextWeek
    <3>3. CASE SeedWeek(p) \/ ReturnUntil(p) \/ Interrupt(p)
      BY <3>3 DEF SeedWeek, ReturnUntil, Interrupt
    <3>. QED BY <1>2, <3>1, <3>2, <3>3 DEF Collect
  <2>3. Claimed' = [Claimed EXCEPT ![p] = S]
    BY <2>2 DEF Claimed
  <2>4. S \subseteq stored'
    BY DEF IInv, RunOK, PastCovered
  <2>5. S \in SUBSET Commits
    BY <1>0 DEF TypeOK
  <2>. QED BY <2>1, <2>3, <2>4, <2>5
<1>. QED BY <1>1, <1>2

(* Weekly collecting implements CollectPromise: the table only grows, and a  *)
(* run that ends without an error claims what it was asked for, less what it *)
(* skipped on the word of a record that does not vouch for it, and only      *)
(* commits that are in the table.                                            *)
THEOREM ImplementsPromise == Spec => KeepsPromise
<1>1. Init => Promise!Init
  BY DEF Init, Promise!Init, Claimed
<1>2. IInv /\ IInv' /\ [Next]_vars => [Promise!Next]_(Promise!vars)
  <2>. SUFFICES ASSUME IInv, IInv', [Next]_vars
                PROVE  [Promise!Next]_(Promise!vars)
    OBVIOUS
  <2>1. CASE \E p \in Procs : Collect(p)
    BY <2>1, CollectKeepsPromise
  <2>2. CASE Dawn \/ (\E c \in Commits : Push(c)) \/ UNCHANGED vars
    BY <2>2 DEF Dawn, Push, vars, run, history, Promise!vars, Claimed
  <2>. QED BY <2>1, <2>2 DEF Next
<1>. QED BY <1>1, <1>2, Invariance, PTL DEF Spec, KeepsPromise, Promise!Spec
=============================================================================
