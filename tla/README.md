# A verification project for trusty-git-analytics

`tga` collects the commits of git repositories into a SQLite database, classifies them, enriches
them with tickets and pull requests, and reports on them. `trusty-audit` drives it over many
repositories. This directory holds TLA+ models of the parts whose correctness depends on the order
of steps: what an interrupted, repeated, narrowed or concurrent run leaves behind for the next
one. TLC checks the models on small instances; TLAPS proves the results listed below for every
value of the constants.

Paths below are relative to the repository, whose main crate is `src/` (so the collector is
`src/src/collect/collector.rs` in `PROJECT.json`).

## 1. Inventory

| Component | State it keeps | Operations | Interacts with | What makes it hard |
|---|---|---|---|---|
| **Unbounded collection** (`collect/collector.rs`, `collect/git/walk_state.rs`, `collect/git/extractor.rs`) | the commits table, one `repo_walk_state` row per repository | plan, mark in flight, walk, record | the repository's refs, other processes on the database | refs move between reading the tips, seeding the walk and recording; walks abort half way; two processes overwrite one row |
| **Weekly collection** (`collect_repo_by_week`, `collect/weeks.rs`, `core/db/collection_runs.rs`) | the commits table, the ledger of collected weeks | check, walk, record per ISO week | as above, the calendar | commit-local dates against a walk ordered by UTC; weeks recorded by partial runs; `--force` |
| **Jev budget** (`classify/tiers/jev_budget.rs`, `jev.rs`, `classify/pipeline_llm.rs`) | spent, reserved and reported tokens, a latch | reserve, send, retry, settle | a paid service | concurrent calls; attempts billed though they timed out |
| **JIRA facts sync** (`commands/jira/`, `collect/jira/`, `core/db/jira_facts.rs`) | `jira_sync_cursor`, ticket transitions and comments | search walk, per-ticket ingestion, cursor plan | a server whose tickets are being edited, other runs | keyset paging in minutes, failures, limits, breaker, kills |
| Linear sync (`collect/linear/`) | issues, a cursor | bulk pages, per-issue store | server | page guard, caps |
| **GitHub client and budget** (`collect/github/`) | run-wide sleep allowance, breaker | requests, waits, org discovery | concurrent fetches, server | one allowance charged by many sleepers |
| **Pull-request pipeline** (`collect/github_pipeline.rs`, `pr_pipeline.rs`, `collector.rs`) | pull requests, reviewer rows, what the run reports | list, store, fetch reviews, ingest | the GitHub client, the database | pages and reviews lost to limits; passes resumed by later runs |
| Bitbucket and Azure DevOps clients (`collect/bitbucket/`, `collect/azdo/`) | none | paging, decoding | servers | foreign formats |
| Work items, correlation (`work_item_pipeline.rs`, `correlate.rs`, `pm_adapter/`) | work items, links | fetch, match | clients, commits | several sources claim a commit |
| Identity and aliases (`collect/identity/`, `commands/aliases/`) | alias partition | merge, resolve | config, commits | merge order |
| **External signal resolver** (`classify/sources/`, `classify/pipeline_external.rs`) | signal cache | warm, resolve | JIRA, GitHub and other services, the fetch budget | a lock dropped around a fetch; refusals next to answers |
| **Classification pipeline** (`classify/pipeline*.rs`) | verdicts, `llm_usage` | overrides, rules, tickets, LLM, bill, chunked write | resolver, Jev, database | what an interrupted run leaves |
| Rule cascade and tiers (`classify/classifier.rs`, `classify/tiers/`) | none | match | taxonomy | pure |
| **Progress bus and TUI** (`core/progress/`, `commands/tui/`) | bounded queue, folded rows, results window | emit, drain, fold, poll, reload | a worker thread that runs the pipeline | the oldest event is dropped; commit, report and reload on two threads; a panic |
| Database and migrations, configuration (`core/db/`, `core/config/`) | schema, settings | open, migrate, validate | everything | run once, sequential |
| Metrics and reports (`core/effort.rs`, `core/quality.rs`, `report/`) | none | compute, format | rows | pure |
| Audit stages of `tga audit` (`audit/`) | stage outcomes | nine stages | everything | a daemon around stages |
| **trusty-audit** (`crates/trusty-audit/`: `run.rs`, `run/`, `chain.rs`, `clone.rs`, `package.rs`) | selection, progress record, output directories with a manifest and a marker | acquire, sweep, resume, package | `tga audit` as a child process | killed between any two writes; directories that the record outlives |

What makes the components correct, in one line each:

* Unbounded collection: a skip or a finished run never leaves out a commit of its scope.
* Weekly collection: a recorded week is complete, and a clean run stored all it was asked for, but
  for what the walk that recorded a week was right to leave out; `--force` gets past any record.
* Jev budget: the total never passes the cap, covers what is billed, and every reservation returns.
* JIRA sync: what was not ingested, for whatever reason, is in the next run's window; an Ok run is
  complete or says how it is not; repeated runs catch up.
* GitHub and pull requests: a run waits no longer than its allowance and sends next to nothing
  once it is spent; what it could not fetch it reports; later runs fetch it.
* Resolver and classification: a verdict does not depend on which concurrent lookup came first; a
  refusal is not taken for an answer; no LLM verdict is stored unbilled; an interrupted
  classification is finished by the next.
* Progress and TUI: what the display says of a finished run is what happened, or it says that it
  does not know.
* trusty-audit: what a sweep carries over, and what the chain ships, was finished by every writer;
  nothing registered goes unmentioned; repeated sweeps audit everything.

`PROJECT.json` lists all components with their status, and the hazards at their lines.

## 2. The modules

| Module | What it is |
|---|---|
| `CollectPromise` | the abstract specification of both collectors: a table that only grows, and reports that claim only what it holds |
| `WalkState` | the unbounded path; implements `CollectPromise` |
| `WeekCollection` | the weekly path; implements `CollectPromise` |
| `JevBudget` | the spend cap under concurrent calls |
| `JiraSync` | `tga jira sync` against a live server |
| `AuditSweep` | `taudit`: acquire, sweep, checkpoint, resume, package |
| `FetchBudget` | `retry_send` and the sleep allowance of a run; used by the next two |
| `PullRequests` | a collection run's GitHub pull requests and reviewers; extends `FetchBudget` |
| `TicketSignals` | the resolver's warm pass and lookups; extends `FetchBudget` |
| `Classification` | runs of `tga classify`; extends `TicketSignals` |
| `TuiSession` | a worker thread, the progress bus and the drawing loop |
| `MC...` | instances of these for TLC |
| `..._proofs` | theorems about each |

### WalkState

Variables: `refs` and `head` (the repository), `stored` (table `commits`), `row`
(`repo_walk_state`), and per process where it stands in `collect_unbounded` with its locals
(`tips`, `hide`, `todo`). A step of a process is one read or write that another process or a ref
update can fall between: `ReadTips` (`current_walk_tips`), `Plan` (load row, `base_is_reachable`,
`plan`), `MarkInFlight`, `SeedWalk` (the revwalk takes its seeds and hides), `FinishWalk`,
`AbortWalk` (the walk fails and the transaction commits what it wrote), `GiveUp` (nothing commits),
`RecordComplete`. `Interrupt` is a crash anywhere. `Advance`, `Rewrite` and `Checkout` are the
repository moving. History is a set of commits with their ancestors; a commit's content is left
out.

### WeekCollection

Time is in ticks, `DayLen` ticks a day and `WeekLen` days a week; a commit has an instant and a
recorded offset, so its local date may differ from the UTC date by one. A run loops over the weeks
of its range: `SkipWeek`, `LookupFails`, `SeedWeek`, `StoreWeek`, `WeekFails`, `RecordWeek`; a run
with only an upper bound is one walk without ledger (`CollectUntil`). The walk takes commits in
falling order of instant and stops a day below the lower bound (`BeyondSince`), as the extractor
does, and keeps those whose local date is in the window. `Dawn` and `Push` let days pass and
commits appear, on their day or later.

A ledger row names a repository and a week, and not the branch, the days or the moment it was
collected for; a run whose open end is today, the common case, records a week that goes on. So a
record cannot vouch for every commit of its week, and the model says which ones. When a walk of a
week begins, `spared` takes the commits its run was not asked for (another branch, days outside the
range) and, if the week is not over in every timezone, those still to appear. A commit that appears
a day or more after it was made joins them while a walk of its week goes on, or goes to `exempt` if
the week is recorded already. `RecordWeek` moves `spared` to `exempt`, and a skip moves the exempt
commits its run was asked for to `waived`. These variables only observe: no step of the code's
reads them. `LedgerIsComplete` and `CleanRunIsComplete` say that nothing else is ever lost, for
default runs too: no failed walk, crash, second process or midnight costs a commit that the walk
recorded for its week should have taken.

### JevBudget

Each call is `ready`, `sending`, `replied`, `settled` or `skipped`. `Reserve` takes the bound of
one attempt times `MAX_ATTEMPTS`, or refuses and latches; `SendAttempt` may be billed or not;
`Retry`, `Fail` and `Answer` end an attempt; `Settle` gives the reservation back and counts
what `Billed` computes. `bill` is what the service has charged in truth, which the code cannot see.

### JiraSync

Variables: the server (`clock`, `updated`), the database (`kept`: newest version of a ticket
ingested in full; `cursor`), what a failed run told its operator (`reported`), and each run's
locals. `StartIncremental`, `StartBackfill` and `StartSince` read the cursor and resolve the
window. `FetchPage` is one request of the search walk with all that `record_page` does: tickets are
taken in the order of `updated`, pages may be short, or empty, and still carry a token (at most
`BlankPages` empty ones, a bound of the model), a known key is not returned again, and the
walk ends at the page without a token, at its page cap or at `--max-tickets` (`cut`), moves its window up to
the page's latest minute, or follows the page token (`noted`). `IngestTicket` and `TicketFails`
are the loop over tickets, which the breaker ends; `FinishSync` is `plan_cursor` and `set_cursor`.
`Interrupt` is a kill, a failed page request or a failed write. `Edit` moves a ticket to the end of
the order.

Two abstractions: a bound rendered in the account's timezone may lie lower than asked for, never
higher, so the model renders it exactly; and a page token resumes after what was returned under it
(the vendor documents no more than that, so a page may otherwise be anything a prefix of the rest
allows). The retries of one request are inside one read, which succeeds or fails.

### AuditSweep

Variables that are files: `selection`, `record` (`state/run-progress.toml`: a `complete` flag and
one entry per settled repository), and for every output directory what its `manifest` is (gone,
bare, unusable, usable) and whether it has the completion `marker`. `whole` is what the code cannot
see: the slots every writer has finished since a child last began in their directory. An entry is
matched on index and repository, which is a slot; a directory is named by the index and what
`sanitize` leaves of the name (`Stem`), so two repositories may share one in successive selections. The process goes
`begin` (`checkpoint::plan`) → `decide` → `child` → `ground` → `mark` → `checkpoint` per
repository, then `finish`, then `package` when it is the chain. `Carry` is `skip_one`, `Refuse` a
missing checkout or a refused approval, `ChildExits` any exit of `tga audit` with whatever it left,
`Ground` the grounding, inference stamp and OSV lookup, `Mark` `mark_complete`, `Checkpoint` the
write of the record. `Clone` and `Materialize` replace the selection by the usable checkouts in
the order asked for; `Package` and `ChainPackage` are the two callers of `from_checkpoint`. `Stop`
is a kill or a failed write anywhere, `Lose` an operator deleting a directory.

### FetchBudget and PullRequests

`FetchBudget` is `retry_send` per call: `Enter` asks once whether the breaker has latched;
`RateLimited` and `Transient` reserve their wait, or latch, or end the call on its last attempt;
`Wake` sends again without asking. Any number of calls interleave on one `slept`. `late` counts
what each slot sent after the latch.

`PullRequests` is a run over it: `Discover`, the page walk (`NextRepo`, `List` with `TakePage` and
`LosePage`), `Store`, `Query`, then `Fetch` and `Fetched` for several pull requests together,
`Ingest` and `Finish`. `told` is what the run reports: repositories with a notice or a fault, pull
requests whose reviewers were not (all) stored, and the failed store. `Die` ends a run anywhere and
may leave part of the rows it was writing.

### TicketSignals and Classification

A resolver keeps one cache per source; tickets belong to one source, so the model has one function
from tickets to what is known of them. The warm pass asks for every ticket of a source, several at
a time (`WarmTake`, `Ask`, `Service`, `Receive`), and then fills the cache (`WarmNext`). The apply
pass looks each message up in the cache, source by source (`Consult`), and asks for what `Wanted`
says when the cache has no signal: JIRA for what is not cached, the others for all the message
names, which is what the code does even after warming. `Settle` writes what was seen and moves on.
A failed request reads as a ticket that says nothing (`None`), a refused GitHub request as nothing
at all (`Unknown`). `misread`, `refused` and `heard` only observe. `Service` is the other side's
reply, which may never come; everything else a lookup does is `OwnStep`.

`Classification` wraps this in a run: `Start` reads the candidates and gives rule verdicts,
`ApplySignals`, `CallLlm` and `Adopt`, `RecordUsage` in one transaction, `WriteChunk` in one
transaction per chunk, `Die` anywhere. A verdict is who gave it and, for tickets, the category.
What the LLM may revisit is `llm_eligible`: weak rule verdicts, and tickets' verdicts of no more
confidence than `llm_threshold` (`WeakSignals`, empty under the default threshold). A call that was
not sent gets its `llm_usage` row too.

### TuiSession

The worker's steps are the emits, commits and its report, in the order `run_work` makes them; a
repository is told of when its walk begins, possibly in between, and when it ends. The loop's turn
is `Drain` and `Count` (`pump_progress`: fold the queue, then read the counter), `Poll`
(`poll_finished` and the reload it causes) and one key. The bus drops its oldest event when full
and counts it. `fate` and `linked` are what really happened.

## 3. What the runs check

Every run is listed in `PROJECT.json` with its properties; every property of a passing run has a
mutant of the code that breaks it under the same bounds.

| Run | Bounds, and why they suffice | Shows |
|---|---|---|
| `walk_one_process` | one process, a merge history of 3 commits, 2 branches, 4 configurations | skips and hidden bases lose nothing, across configurations that share the row |
| `walk_two_processes` | two processes, a fork of 3 commits named by a local and an origin ref | the same under interleaved reads and row writes; a third process adds no new kind of overlap, since each pair already overlaps at every step |
| `week_ledger` | two processes, 4 days in weeks of 2 days of 2 ticks, open end, two scopes, late pushes, 2 commits on either side of a midnight between weeks | what a week in the ledger or a clean run may lack is exactly what is exempt, and `CollectPromise` holds |
| `week_forced` | one process, partial ranges, branch scopes, late pushes | `--force` stores what it was asked for whatever the ledger says |
| `jev_budget` | 3 calls, 2 in flight, 3 attempts, a cap of 9 | the cap, the bill, the reservations; every call settles |
| `jira_windows` | 3 tickets (one undated), minutes of 2 ticks, page and limit 2, the first page possibly empty, 2 faults | nothing not ingested falls behind the cursor; an Ok run that was not cut covered its window |
| `jira_catch_up` | 3 tickets, one per minute, limit 2, breaker 1, 2 faults | tickets an error named stay ahead; scheduled runs ingest everything in the end |
| `audit_sweep` | 2 repositories selected in either order and a third that shares a directory with one of them, 2 acquisitions, 2 faults | what is carried over or shipped by the chain is whole unless its directory is shared, the deliverable names every target, saved work is kept, and sweeps end up auditing everything |
| `pull_requests` | a configured and a discovered repository, 3 pull requests, page cap 1, 2 calls in flight, 1 retry, an allowance of 2, 4 faults | waits and traffic are bounded, a short run says so, every stored pull request gets its reviewers |
| `classification` | 5 commits with 4 messages over 3 sources, 2 calls in flight, 1 retry, an allowance of 1, one signal below the LLM threshold, chunks of 4, 2 faults | concurrent lookups agree with the tickets, refusals are not cached, bills precede verdicts, everything is classified in the end unless a request hangs |
| `tui_session` | 2 repositories, a bus of 3, 2 runs, 1 fault | the panes show how every walk ended once all events are folded, or that events were lost; a finished run's links are shown; a run that dies is seen to end unless a request hangs |

Two faults are what it takes to break a sweep twice (a failure, then a kill, or two kills of the
run that resumes), and two acquisitions to change the selection between them. In `pull_requests` a
call must be rate-limited to its last attempt while another sleeps, and a run cut short must be
followed by another cut elsewhere, hence four faults. The messages of `classification` share
tickets across sources in both orders, so that two lookups of one ticket overlap. A bus of three
is overrun before two walks are told of in full. `tui_session` has no deadlock check because a session ends
when the operator quits.

Three tickets with pages and a limit of two are the least that make a walk re-anchor, follow a
token, be cut and resume; two ticks to a minute are the least that put two versions in one minute.
Symmetry is used where nothing tells the exchanged values apart: processes, the two roots of the
merge history, the two children of the fork. Bounds that exist only for the model (`LastTick`, `LastDay`, `MaxFaults`, `MaxReported`,
`Crowd`, `BlankPages`)
are constants named so.

**Where the code and what is said of it differ.** One run checks a statement of a comment and TLC
shows how it fails:

* `jira_edit_lost`: a ticket edited during a walk reappears, is discarded as already seen, and the
  cursor passes its edit without a note (`collect/jira/paging.rs:18`).

The models show more places of this kind, which have no run of their own; each lists the instance
that makes TLC produce the counterexample.

* `collect/git/extractor.rs:476` ("everything reachable from the previously walked tip is already
  recorded"): after a `--branch` walk the recorded HEAD is hidden by the next walk of that scope
  although it was never visited. `WalkState` on the fork history with a configuration whose
  explicit branches are `{"side"}`: `HiddenIsRecorded` fails.
* `collect/git/walk_state.rs:56` ("makes a narrower or wider run a different walk"):
  `--branch main` and a configured `branch: main` share one scope key but seed different refs.
  `WalkState` with these two configurations and a local and an origin ref: `SkipIsSound` fails.
* `docs/requirements/database-schema.md:322` ("this tuple has already been collected"): a run up to
  today records the whole week it only began to see, and later runs skip it. In `week_ledger` this
  happens: with `stored` in place of `stored \cup exempt`, `LedgerIsComplete` fails.
* `commands/jira/mod.rs:449` ("Re-run to continue from the recorded cursor."): more tickets in a
  minute than `--max-tickets` stop all progress. `JiraSync`, `MinuteLen = 2`, `LastTick = 1`,
  `Crowd = 3`, `MaxFaults = 0`: `EventuallyIngested` fails.
* `collect/jira/sync.rs`, on `plan_cursor` ("A ticket whose ingestion did not fully succeed always
  remains inside the next run's query window"): a failed ticket without a date only holds the cursor, and
  after a backfill the cursor on record may lie past that ticket already. This is why
  `ReportedIsReadAgain` assumes dates.
* `crates/trusty-audit/src/run/verify.rs:131` (the marker is "Written LAST", "so its presence means
  every writer of this directory has run"): no sweep removes a marker. A `--fresh` sweep killed in
  its first child leaves the old marker, and the old record with its success, over a directory
  half written again, and the next sweep carries it over. `AuditSweep`, `MayStopForced = TRUE`:
  `CarriedIsWhole` fails.
* `crates/trusty-audit/src/session.rs:956` (an incomplete record is refused, for it "would send a
  partial engagement as a whole one"): the record of the last complete sweep stays until the first
  checkpoint of the next, so `taudit package` after a sweep killed in its first repository ships a
  directory that sweep had begun again. `ChainParcelIsWhole` is stated of the chain only for this
  reason.
* `crates/trusty-audit/src/run/checkpoint.rs`, on `plan` (an entry left from another selection
  "describes a different `out/<stem>/`"): `acme/api` and `acme-api` at the same index of successive
  selections have the same one. When the child of the second is killed, the first one's record and
  marker still vouch for the directory, and selecting the first again carries it over. `audit_sweep`
  without `HasOwnDir` in `CarriedIsWhole`: TLC finds it. Hence the exception in the properties about
  directories.
* `collect/github/retry.rs:60`: a call that is asleep when another latches the breaker sends once
  more, which is what `LatchStopsTraffic` bounds.
* `classify/pipeline_external.rs:112` ("each `resolve` call below performs no network I/O"): a
  message whose cached tickets say nothing is asked about again by every source but JIRA, and so is
  every ticket whose warm request was refused. `BroughtOnce` therefore speaks of tickets that do
  have a signal.

Behaviours that no text contradicts but a reader should know: an org whose discovery fails only
logs a warning; a pull request whose reviewer rows were stored in part is not looked at again
without `--force`; `MAX_REFERENCE_LOOKUPS` bounds one message's batch, never a run; a failed JIRA
(or Linear, Shortcut, Confluence) request counts as a ticket that says nothing, and the verdict
stored then stays; in the TUI a second run of a repository keeps its row's old outcome until the
new one arrives, a "run" row stays failed after a later success, and the row of a correlation pass
that fails stays running.

**Where the assumptions bite.** The constants that name an assumption can be turned off to see what
it carries. These are not among the listed runs, but each gives TLC a short counterexample:

* `WalkState`, `RewriteDuringRun = TRUE` on the fork history: a ref rewritten and restored around a
  walk yields tips the walk never reached, and `SkipIsSound` fails.
* `JevBudget`, `Honest = FALSE` and `MaxReported = 4`: a reply above its attempt's bound passes the
  cap before the latch closes, and `TotalWithinCap` fails.
* `JiraSync`: a `--since` ahead of the cursor (`SkipAhead = TRUE`, `Sinces = {2}`), a second process
  that stores an older run's cursor, or an undated ticket under a backfill each leave a ticket that
  an error named behind the cursor, and `ReportedStaysAhead` fails. `PageSlack = 0` with short pages
  lets the page cap end a walk that then returns Ok, and `OkRunIsComplete` fails.
* `AuditSweep`, `MayStopForced = TRUE`: see the marker above; `ChainParcelIsWhole` and `WorkIsKept`
  fail with `CarriedIsWhole`.

**Fairness.** Weak fairness on each Jev call: `buffer_unordered` polls every call in flight, each
request has a timeout, and attempts are counted, so a call that can step does. Weak fairness on
the loops of a JIRA run, which are plain loops over requests whose client gives up after 30 s
(`collect/jira/client.rs:173`), and strong fairness on starting an incremental run, which is the
cron schedule the command's docs assume (a run may be in progress when the schedule fires, hence
strong). In `AuditSweep` and `PullRequests`, weak fairness on the steps of a run as a whole:
`supervise` kills a child past its budget, and the GitHub client gives up a request after 30 s.

`Classification` and `TuiSession` have no such timeouts. The resolver's and the LLM's clients are
built without one, and `fetch_timeout_secs` is "logged but not yet enforced"
(`collect/git/extractor.rs:236`). So weak fairness is assumed there only of what the program does
by itself (`OwnRunStep`, `OwnThread` and the TUI's loop, which polls the keyboard with a timeout),
never of a reply of a service or the LLM, of a repository's fetch and walk, or of the stages that
ask services. `EventuallyClassified` and `EventuallyFinished` say that a run comes to its end
unless one of these hangs for ever (`Hangs`), and TLC shows that this is the only way: no wait for
a call slot, for GitHub's allowance, for another message's tickets, or for a thread that has
panicked lasts for ever.

Where a property is about repeated runs, weak fairness of the operator starting a run when none is
in progress: nobody's run achieves anything if nobody runs it. No fairness is assumed of edits,
faults, kills or keys.

## 4. What is proved

All proofs are for every value of the constants that the modules' `ASSUME`s allow: any sets of
processes, commits, refs, tickets and calls, any history, calendar, page size, limit and cap.

* **`WalkState_proofs`**: `TypeCorrect`; `NoCommitIsMissed`, `HidingLosesNothing`,
  `BasesStayGood` and `ImplementsPromise` under `CoveringAssumption` (every configuration walks what
  HEAD names, HEAD is on a branch, refs only grow during a run). The first two divergences and the
  first item of the list above show what happens without it. The inductive invariant `IInv` adds to
  the properties what relates them: a complete row is sound for every configuration of its scope
  (`RowIsSound`), the tips a run read only fall behind the refs until its walk is seeded
  (`TipsOnlyAge`), the head it read is among its seeds (`HeadOnBranch`), and what the walk hides
  together with what it will write covers its tips (`WalkCovers`). Hiding is sound because
  reachability is monotone: older tips reach less.
* **`WeekCollection_proofs`**: `TypeCorrect`, `ForceCollectsAll`, `SkippingLosesNothing`,
  `CleanRunsCollectAll` and `ImplementsPromise`, all with no assumption on ranges, open ends,
  scopes, processes, failures or late pushes. The invariant says of each run that the weeks before
  the current one are stored or waived unless one failed (`PastCovered`) and that what was asked of
  the current one is stored or about to be (`WeekCovered`); of each walk, that every commit of its
  week is stored, about to be, spared, or will be late when it comes (`WholeWeekCovered`); and of
  the ledger, that every commit of a recorded week is stored, exempt, or will be late (`LedgerInv`).
  The last two also speak of commits not yet made, which is why a skip at any later time is covered.
  The arithmetic core is `Dates`: a commit whose local date is in a window has an instant the walk
  has not yet stopped at.
* **`JevBudget_proofs`**: `SpendWithinCap`, `TotalCoversBill` and `TypeCorrect` when replies are
  honest. Reservations and bills are counted as cardinalities of sets of tokens: `reserved` is
  exactly the tokens calls in flight hold, and what may have been sent is contained in what is
  spent or held.
* **`JiraSync_proofs`**: `TypeCorrect`; `NothingLeftBehind` under `Quiet` (no edits during a run,
  `--since` not ahead of the cursor), for any number of processes, faults, short pages, limits,
  breakers and undated tickets; `ReportedIsReadAgain` under `Quiet` when moreover one process syncs
  and every ticket has a date (`Followed`); `OkRunsAreComplete` when nothing is edited during a run
  and no walk reaches its page cap (`BelowCap`), for any number of processes and any `--since`.
  `RInv` needs only that nothing is edited during a run, and is about each run by itself: what a
  walk found is a prefix of its window in the order of updates and the current query still has the
  rest (`WalkInv`), a walk that ended of itself left nothing (`EndInv`), and the loop is through
  with a prefix of what was found (`LoopInv`); what other processes ingest meanwhile only helps. So
  the earliest failure, or the last ticket seen, is no later than anything left out. `SInv` adds the
  cursor: every running process's scope, and the cursor it read when it began, cover what is still
  owed (`CoversInv`), although another run may have stored a cursor since. That is why overwriting
  each other's cursor is harmless here: whichever value is stored last was safe when its run
  planned it, and what is owed only shrinks while runs work. (TLC agrees on `JiraSync` with two
  processes, two tickets, a limit of one and `LastTick = 2`, which is not a listed run.)
* **`AuditSweep_proofs`**: `TypeCorrect` and `AccountsForAll` with no assumption;
  `OnlyWholeIsCarried`, `ParcelsAreWhole` and `SavedIsKept` when no `--fresh` sweep dies
  (`~MayStopForced`). `BookInv` says where the sweep stands in its
  selection, that the settled entries are exactly those up to there, and that the chain's targets
  are the selected and the gaps. `DiskInv` says that every recorded success with a marker lies in a
  whole directory if no other name leads there, except while a `--fresh` sweep runs, that the running sweep's own successes are
  whole or lost since, and that a sweep without `--fresh` has taken over all it could.
* **`PullRequests_proofs`**: `WaitsAreBounded`, `LatchHolds`, `TypeCorrect` and `ShortfallsAreTold`,
  all with no assumption. The first two follow from `FetchInv`: a call that has sent since the latch
  cannot be asleep again, because a reservation is refused then. `Accounted` relates the phases of a
  run: what a repository's walk has kept and told covers the pages it is past, what is stored or
  told covers what was listed, and each pull request to review is answered, told, or its rows are
  complete.
* **`Classification_proofs`**: `TypeCorrect`, `LlmVerdictsAreBilled`, `RefusalsAreNotCached`,
  `TicketsBroughtOnce`, `TicketsHaveTheSay` and `ResolverKeepsAllowance`, all with no assumption.
  `CacheInv` covers both passes: whatever stands in the cache, among the answers of the warm pass
  or in a batch being read is Unknown, the ticket's own signal, or nothing for a ticket whose failed
  request was misread. `WarmInv` says that the warm pass deals with one source after the other and
  that a ticket still awaited has not been heard of, hence `BroughtOnce`. `ApplyInv` says that each
  slot asks only for tickets of its message that were silent when last looked up, and that its
  message is silent up to the source it is at; so the lookup stops at the first ticket that speaks,
  whatever other slots wrote to the cache meanwhile. `VerdictInv` carries that from the signals to
  the verdicts past the LLM, which may displace weak ones only. `ResolverKeepsAllowance` states `SleepWithinAllowance` and
  `LatchStopsTraffic` of the resolver's requests, which the runs check for pull requests.
* **`TuiSession_proofs`**: `TypeCorrect`, `FinishedRunsAreShown` and `NoSilentGap`, all with no
  assumption, for every capacity of the bus and number of repositories. `SessionInv` relates the
  worker, its channel and the status line, and says that links are committed before a run can
  report. `PaneInv` says that, unless an event was dropped, the outcome of a walk is in its
  repository's row with nothing said since, or is the last outcome about it in the queue
  (`Reaches`), and that the loop has read the counter's last value when it sees an empty queue.
  `NoSilentGap` therefore holds in the middle of a run as well as at its end.

What the proofs need of sequences is stated by positions rather than by recursion: `Wanted` lists a
message's uncached tickets by their rank (`Nth`), and `Folded` reads a row off the last event about
it.

Only model-checked: the liveness properties (`AllSettle`, `EventuallyIngested`,
`EventuallyAudited`, `EventuallyReviewed`, `EventuallyClassified`, `EventuallyFinished`), since
liveness is outside the prover's reach, as is `ENABLED`. Every other property of the passing runs is
a theorem, with these reservations. `OkRunsAreComplete` takes `BelowCap` as a hypothesis on the
behaviour: the page cap (`collect/jira/client.rs`) is a number of pages, pages may be short, so no
bound on the constants that the code justifies keeps every walk below it, and a walk the cap ends
can return Ok with tickets unread (see `PageSlack = 0` above); that such a walk does not occur in
`jira_windows` is for TLC to say. And the results under `Quiet`, `CoveringAssumption`,
honest replies or `~MayStopForced` hold under these, which section 3 shows to
be needed. Nothing in the models is a `RECURSIVE` operator and no proof needs induction over data:
minima come from the well-foundedness of the natural numbers, cardinalities from the library's
theorems about finite sets.

## 5. Not modelled, and the plan

Left out for good: HTTP clients and decoders, SQL schema, configuration, regular expressions of
the rule cascade, metrics, reports, documents, signing and rerendering (pure functions or pure
I/O), the desktop shell and the website (generated or static). They are most of the code by lines,
and their correctness is a matter of data, which a model of control would only restate.

Left out of the modelled components:

* Collection: several repositories over the one key `commits.sha`; diff statistics.
* Pull requests: Bitbucket and Azure DevOps as further providers beside GitHub; issues and the
  commits of pull requests; the text of a notice.
* Classification: the repo map's floor mode, Datadog's low-confidence signals, the complexity
  backfill, and what the Jev tier does beyond its budget.
* TUI: views, cursors, filters, help, offline mode, log capture, the relay to a parent process.
* trusty-audit: staging directories, disk budget and stall watchdog of a clone; approval of
  trusty-search; the stages inside `tga audit`; signing and the zip.

What a further extension would take up first: the clone's staging and watchdog (a promotion that
is retried), the Linear sync against the cursor argument of `JiraSync`, and two repositories
over one key.
