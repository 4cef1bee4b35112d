---------------------------- MODULE WeekCollection ----------------------------
(***************************************************************************)
(* The bounded collect path: a run with a `since` date walks one window per *)
(* ISO week of its range, skips the weeks the collection_runs ledger names, *)
(* and adds a week to the ledger once its window was walked. Processes share *)
(* the database, commits appear while runs work, and every step may fail.   *)
(***************************************************************************)
EXTENDS Integers, FiniteSets

CONSTANTS
  Procs,        \* processes that run collect against one database
  Commits,      \* every commit the repository may ever hold
  Time,         \* Time[c]: its UTC instant, in ticks
  Offset,       \* Offset[c]: its recorded timezone offset, in ticks
  DayLen,       \* ticks in a day
  WeekLen,      \* days in a week
  Ranges,       \* [from, to] days a run may be asked for; None is an open side
  Scopes,       \* the commits a run's branch and merge flags let it see
  LastDay,      \* the clock stops here (bounds the model)
  LatePush,     \* whether a commit may appear after the day of its instant
  None

Bound == Nat \cup {None}

ASSUME CalendarAssumption ==
  /\ DayLen \in Nat \ {0}
  /\ WeekLen \in Nat \ {0}
  /\ LastDay \in Nat
  /\ Time \in [Commits -> Nat]
  /\ Offset \in [Commits -> (1 - DayLen) .. (DayLen - 1)]

ASSUME RangeAssumption ==
  /\ None \notin Nat
  /\ Ranges \subseteq [from : Bound, to : Bound]
  /\ \A r \in Ranges : r.from # None \/ r.to # None
  /\ Scopes \subseteq SUBSET Commits
  /\ LatePush \in BOOLEAN

VARIABLES
  today,    \* the UTC date
  visible,  \* the commits reachable from the repository's refs
  stored,   \* the commits table
  ledger,   \* the ISO weeks collection_runs names for the repository
  pc,       \* where each process stands in collect_repo_by_week
  cfg,      \* its run's range, scope and --force
  week,     \* the week it is at
  todo,     \* the commits the walk of that week will write
  failed,   \* whether the run has reported an error
  \* History, which no step reads: what the properties speak of.
  asked,    \* the commits the run was asked for that existed when it began
  spared,   \* those of its week that its walk was right to leave out
  waived,   \* those it was asked for in weeks it skipped, and are exempt
  exempt    \* the commits of recorded weeks the ledger does not vouch for

history == <<asked, spared, waived>>
run   == <<pc, cfg, week, todo, failed, history>>
vars  == <<today, visible, stored, ledger, exempt, run>>
world == <<today, visible>>

-----------------------------------------------------------------------------
(* Dates.                                                                   *)

WeekOf(d) == d \div WeekLen

DateOf(c) == Time[c] \div DayLen

\* commit_local_date: the date on the wall clock the commit was made by.
LocalDate(c) == (Time[c] + Offset[c]) \div DayLen

Week(c) == WeekOf(LocalDate(c))

Larger(a, b)  == IF a > b THEN a ELSE b
Smaller(a, b) == IF a < b THEN a ELSE b

\* clamp_week_to_range: the part of week w the range r asks for.
Window(w, r) == <<Larger(w * WeekLen, r.from),
                  Smaller(w * WeekLen + WeekLen - 1, r.to)>>

\* Faulty variant: no grace day for a commit made east of UTC.
BeyondSinceAtOnce(c, first) == Time[c] < DayLen * first

\* The walk goes newest first and stops a day before the window opens.
BeyondSince(c, first) == Time[c] < DayLen * first - DayLen

\* collect_window over S: what is walked before the stop and dated inside.
\* Sort::TIME orders the whole history by instant, so the stop is a threshold.
Walked(S, first, last) ==
  {c \in S : /\ ~BeyondSince(c, first)
             /\ first <= LocalDate(c) /\ LocalDate(c) <= last}

\* collect_window without a `since` walks everything.
WalkedUntil(S, last) == {c \in S : LocalDate(c) <= last}

InRange(c, r) == /\ r.from # None => r.from <= LocalDate(c)
                 /\ LocalDate(c) <= r.to

-----------------------------------------------------------------------------
Resting == {"idle", "done"}

Range == [from : Bound, to : Nat, scope : SUBSET Commits, force : BOOLEAN]

NoRange == [from |-> None, to |-> 0, scope |-> {}, force |-> FALSE]

Init ==
  /\ today = 0
  /\ visible = {}
  /\ stored = {}
  /\ ledger = {}
  /\ pc = [p \in Procs |-> "idle"]
  /\ cfg = [p \in Procs |-> NoRange]
  /\ week = [p \in Procs |-> 0]
  /\ todo = [p \in Procs |-> {}]
  /\ failed = [p \in Procs |-> FALSE]
  /\ asked = [p \in Procs |-> {}]
  /\ spared = [p \in Procs |-> {}]
  /\ waived = [p \in Procs |-> {}]
  /\ exempt = {}

Goto(p, at) == pc' = [pc EXCEPT ![p] = at]

\* The (since, until) of the run fix its range: an open end is today.
RangeOf(r, scope, force) ==
  [from |-> r.from, to |-> IF r.to = None THEN today ELSE r.to,
   scope |-> scope, force |-> force]

\* An open start has no weeks; a range that ends before it starts has none.
Begin(p, range) ==
  /\ cfg' = [cfg EXCEPT ![p] = range]
  /\ asked' = [asked EXCEPT ![p] =
                 {c \in visible \cap range.scope : InRange(c, range)}]
  /\ week' = [week EXCEPT ![p] =
                IF range.from = None THEN 0 ELSE WeekOf(range.from)]
  /\ Goto(p, IF range.from = None THEN "until"
             ELSE IF range.to < range.from THEN "done" ELSE "check")

Start(p) ==
  /\ pc[p] \in Resting
  /\ \E r \in Ranges, scope \in Scopes, force \in BOOLEAN :
       Begin(p, RangeOf(r, scope, force))
  /\ failed' = [failed EXCEPT ![p] = FALSE]
  /\ waived' = [waived EXCEPT ![p] = {}]
  /\ UNCHANGED <<world, stored, ledger, exempt, todo, spared>>

\* The week loop goes on, or ends after the week of the range's last day.
NextWeek(p) ==
  IF week[p] >= WeekOf(cfg[p].to)
  THEN Goto(p, "done") /\ UNCHANGED week
  ELSE Goto(p, "check") /\ week' = [week EXCEPT ![p] = @ + 1]

Fail(p) == failed' = [failed EXCEPT ![p] = TRUE]

\* Faulty variant: --force does not bypass the ledger.
SkipWeekForced(p) ==
  /\ pc[p] = "check"
  /\ week[p] \in ledger
  /\ NextWeek(p)
  /\ waived' = [waived EXCEPT ![p] =
                  @ \cup {c \in asked[p] \cap exempt : Week(c) = week[p]}]
  /\ UNCHANGED <<world, stored, ledger, exempt, cfg, todo, failed, asked, spared>>

\* A week in the ledger is skipped unless --force.
SkipWeek(p) ==
  /\ pc[p] = "check"
  /\ ~cfg[p].force
  /\ week[p] \in ledger
  /\ NextWeek(p)
  /\ waived' = [waived EXCEPT ![p] =
                  @ \cup {c \in asked[p] \cap exempt : Week(c) = week[p]}]
  /\ UNCHANGED <<world, stored, ledger, exempt, cfg, todo, failed, asked, spared>>

\* The lookup failed: the week is given up, not the run.
LookupFails(p) ==
  /\ pc[p] = "check"
  /\ ~cfg[p].force
  /\ Fail(p)
  /\ NextWeek(p)
  /\ UNCHANGED <<world, stored, ledger, exempt, cfg, todo, history>>

\* The days of week w are over in every timezone.
IsOver(w) == w * WeekLen + WeekLen < today

\* What a walk of week[p] cannot take: the commits its run did not ask for,
\* and those of a week that goes on which are still to appear.
Spared(p) ==
  {c \in Commits :
     /\ Week(c) = week[p]
     /\ \/ c \notin cfg[p].scope \/ ~InRange(c, cfg[p])
        \/ c \notin visible /\ ~IsOver(week[p])}

\* The revwalk of the week's window is seeded from the refs of now.
SeedWeek(p) ==
  /\ pc[p] = "check"
  /\ cfg[p].force \/ week[p] \notin ledger
  /\ LET w == Window(week[p], cfg[p])
     IN  todo' = [todo EXCEPT ![p] =
                    Walked(visible \cap cfg[p].scope, w[1], w[2])]
  /\ spared' = [spared EXCEPT ![p] = Spared(p)]
  /\ Goto(p, "walking")
  /\ UNCHANGED <<world, stored, ledger, exempt, cfg, week, failed, asked, waived>>

\* The window's transaction commits.
StoreWeek(p) ==
  /\ pc[p] = "walking"
  /\ stored' = stored \cup todo[p]
  /\ todo' = [todo EXCEPT ![p] = {}]
  /\ Goto(p, "record")
  /\ UNCHANGED <<world, ledger, exempt, cfg, week, failed, history>>

\* Faulty variant: a week whose walk failed is recorded like any other.
WeekFailsRecorded(p) ==
  /\ pc[p] = "walking"
  /\ \E part \in SUBSET todo[p] : stored' = stored \cup part
  /\ todo' = [todo EXCEPT ![p] = {}]
  /\ Goto(p, "record")
  /\ UNCHANGED <<world, ledger, exempt, cfg, week, failed, history>>

\* The walk failed, before or after part of it was written: not recorded.
WeekFails(p) ==
  /\ pc[p] = "walking"
  /\ \E part \in SUBSET todo[p] : stored' = stored \cup part
  /\ todo' = [todo EXCEPT ![p] = {}]
  /\ Fail(p)
  /\ spared' = [spared EXCEPT ![p] = {}]
  /\ NextWeek(p)
  /\ UNCHANGED <<world, ledger, exempt, cfg, asked, waived>>

\* Faulty variant: the week is recorded under a number counted from zero.
RecordWeekBefore(p) ==
  /\ pc[p] = "record"
  /\ \/ /\ ledger' = ledger \cup {week[p] - 1}
        /\ exempt' = exempt \cup spared[p]
        /\ UNCHANGED failed
     \/ UNCHANGED <<ledger, exempt>> /\ Fail(p)
  /\ spared' = [spared EXCEPT ![p] = {}]
  /\ NextWeek(p)
  /\ UNCHANGED <<world, stored, cfg, todo, asked, waived>>

\* record_collection_run names the whole week; a failed write is an error of
\* the run, whose commits stay.
RecordWeek(p) ==
  /\ pc[p] = "record"
  /\ \/ /\ ledger' = ledger \cup {week[p]}
        /\ exempt' = exempt \cup spared[p]
        /\ UNCHANGED failed
     \/ UNCHANGED <<ledger, exempt>> /\ Fail(p)
  /\ spared' = [spared EXCEPT ![p] = {}]
  /\ NextWeek(p)
  /\ UNCHANGED <<world, stored, cfg, todo, asked, waived>>

\* `until` without `since`: one walk, and nothing recorded. When the walk
\* fails, part of what it found may be stored.
CollectUntil(p) ==
  /\ pc[p] = "until"
  /\ LET found == WalkedUntil(visible \cap cfg[p].scope, cfg[p].to)
     IN  \/ stored' = stored \cup found /\ UNCHANGED failed
         \/ (\E part \in SUBSET found : stored' = stored \cup part) /\ Fail(p)
  /\ Goto(p, "return")
  /\ UNCHANGED <<world, ledger, exempt, cfg, week, todo, history>>

ReturnUntil(p) ==
  /\ pc[p] = "return"
  /\ Goto(p, "done")
  /\ UNCHANGED <<world, stored, ledger, exempt, cfg, week, todo, failed, history>>

\* A kill or a crash, between any two steps.
Interrupt(p) ==
  /\ pc[p] \notin Resting
  /\ Goto(p, "idle")
  /\ todo' = [todo EXCEPT ![p] = {}]
  /\ asked' = [asked EXCEPT ![p] = {}]
  /\ spared' = [spared EXCEPT ![p] = {}]
  /\ waived' = [waived EXCEPT ![p] = {}]
  /\ UNCHANGED <<world, stored, ledger, exempt, cfg, week, failed>>

-----------------------------------------------------------------------------
(* The world: days pass, and commits appear on the day of their instant or,  *)
(* when LatePush, later.                                                     *)

Dawn ==
  /\ today < LastDay
  /\ today' = today + 1
  /\ UNCHANGED <<visible, stored, ledger, exempt, run>>

\* The run has seeded the walk of week w.
IsWalking(p, w) == pc[p] \in {"walking", "record"} /\ week[p] = w

\* A commit that comes a day or more after it was made may come too late for
\* the walk or the record of its week.
Push(c) ==
  /\ c \notin visible
  /\ IF LatePush THEN DateOf(c) <= today ELSE DateOf(c) = today
  /\ visible' = visible \cup {c}
  /\ LET late == DateOf(c) < today
     IN  /\ exempt' = IF late /\ Week(c) \in ledger
                      THEN exempt \cup {c} ELSE exempt
         /\ spared' = [p \in Procs |-> IF late /\ IsWalking(p, Week(c))
                                      THEN spared[p] \cup {c} ELSE spared[p]]
  /\ UNCHANGED <<today, stored, ledger, pc, cfg, week, todo, failed, asked, waived>>

Collect(p) ==
  \/ Start(p) \/ SkipWeek(p) \/ LookupFails(p) \/ SeedWeek(p) \/ StoreWeek(p)
  \/ WeekFails(p) \/ RecordWeek(p)
  \/ CollectUntil(p) \/ ReturnUntil(p) \/ Interrupt(p)

Next ==
  \/ \E p \in Procs : Collect(p)
  \/ Dawn
  \/ \E c \in Commits : Push(c)

Spec == Init /\ [][Next]_vars

-----------------------------------------------------------------------------
(* Properties.                                                              *)

Steps == Resting \cup {"check", "walking", "record", "until", "return"}

\* Every variable holds a value of the type the code gives it.
TypeOK ==
  /\ today \in Nat
  /\ visible \subseteq Commits
  /\ stored \subseteq Commits
  /\ ledger \subseteq Nat
  /\ pc \in [Procs -> Steps]
  /\ cfg \in [Procs -> Range]
  /\ week \in [Procs -> Nat]
  /\ todo \in [Procs -> SUBSET Commits]
  /\ failed \in [Procs -> BOOLEAN]
  /\ asked \in [Procs -> SUBSET Commits]
  /\ spared \in [Procs -> SUBSET Commits]
  /\ waived \in [Procs -> SUBSET Commits]
  /\ exempt \subseteq Commits

\* A week in the ledger has been collected, whatever ranges and branches runs
\* were given and whichever of them failed: a commit of that week is stored,
\* unless the walk that recorded the week was not asked for it, or ran while
\* the week went on and the commit was still to appear, or unless the commit
\* appeared late, a day or more after it was made.
LedgerIsComplete ==
  \A c \in visible : Week(c) \in ledger => c \in stored \cup exempt

\* A run that ends without an error has stored every commit it was asked for
\* that existed when it began, wherever those commits stand to UTC midnight,
\* except commits of weeks it skipped that were exempt by then.
CleanRunIsComplete ==
  \A p \in Procs :
    pc[p] = "done" /\ ~failed[p] => asked[p] \subseteq stored \cup waived[p]

\* `--force` bypasses the ledger: a forced run that ends without an error has
\* stored all it was asked for, whatever narrower, earlier or partial runs have
\* left in the ledger and however late the commits appeared.
ForcedRunIsComplete ==
  \A p \in Procs :
    pc[p] = "done" /\ cfg[p].force /\ ~failed[p] => asked[p] \subseteq stored

\* What a process has reported collected: what its run was asked for but for
\* what it skipped on the word of a record that does not vouch for it.
Claimed ==
  [p \in Procs |-> IF pc[p] = "done" /\ ~failed[p]
                   THEN asked[p] \ waived[p] ELSE {}]

Promise == INSTANCE CollectPromise WITH claimed <- Claimed

\* Weekly collecting keeps the promise of CollectPromise.
KeepsPromise == Promise!Spec

-----------------------------------------------------------------------------
(* The inductive invariant.                                                  *)

AtWork(p) == pc[p] \in {"check", "walking", "record"}

\* The weeks a run has still to deal with lie in its range.
WeeksInRange(p) ==
  AtWork(p) => /\ cfg[p].from # None
               /\ WeekOf(cfg[p].from) <= week[p]
               /\ week[p] <= WeekOf(cfg[p].to)

AskedInRange(p) ==
  \A c \in asked[p] : c \in visible \cap cfg[p].scope /\ InRange(c, cfg[p])

\* What was asked of the current week is stored or about to be.
WeekCovered(p) ==
  \A c \in asked[p] : Week(c) = week[p] =>
    /\ pc[p] = "walking" => c \in stored \cup todo[p]
    /\ pc[p] = "record"  => c \in stored

\* The weeks before the current one are done, unless one failed.
PastCovered(p) ==
  ~failed[p] =>
    /\ AtWork(p) =>
         \A c \in asked[p] : Week(c) < week[p] => c \in stored \cup waived[p]
    /\ pc[p] \in {"return", "done"} => asked[p] \subseteq stored \cup waived[p]

\* Only a skip waives anything, and a forced run skips nothing.
NothingWaived(p) == cfg[p].force => waived[p] = {}

RunOK(p) ==
  /\ WeeksInRange(p)
  /\ AskedInRange(p)
  /\ WeekCovered(p)
  /\ PastCovered(p)
  /\ NothingWaived(p)

\* The commit is not there yet, and will be late when it comes.
IsLate(c) == c \notin visible /\ DateOf(c) < today

\* Every commit of the week a run walks is stored or about to be, or has a
\* reason not to be.
WholeWeekCovered(p) ==
  \A c \in Commits : Week(c) = week[p] =>
    /\ pc[p] = "walking" => c \in stored \cup todo[p] \cup spared[p] \/ IsLate(c)
    /\ pc[p] = "record" => c \in stored \cup spared[p] \/ IsLate(c)

LedgerInv ==
  \A c \in Commits : Week(c) \in ledger => c \in stored \cup exempt \/ IsLate(c)

IInv ==
  /\ TypeOK
  /\ \A p \in Procs : RunOK(p) /\ WholeWeekCovered(p)
  /\ LedgerInv

=============================================================================
