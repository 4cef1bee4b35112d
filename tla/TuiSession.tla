----------------------------- MODULE TuiSession -----------------------------
(***************************************************************************)
(* A `tga tui` session: a loop that draws, and a worker thread that runs    *)
(* the pipeline and tells the loop how it goes over the ProgressBus, which  *)
(* drops its oldest event when it is full, and that it is over by a channel.*)
(***************************************************************************)
EXTENDS Naturals, Sequences, FiniteSetsExt

CONSTANTS
  Repos,      \* the repositories of the configuration
  Capacity,   \* of the ProgressBus
  MaxRuns,    \* runs in a session (bounds the model)
  MaxFaults,  \* errors and panics (bounds the model)
  None

ASSUME SessionAssumption ==
  /\ Capacity \in Nat \ {0}
  /\ MaxRuns \in Nat
  /\ MaxFaults \in Nat
  /\ {None, "collect", "correlate", "run"} \intersect Repos = {}

VARIABLES
  bus,      \* the queued events
  dropped,  \* whether it has dropped any
  step,     \* where the worker stands
  todo,     \* the repositories it has still to walk
  at,       \* the one it walks
  fate,     \* how the last walk of each repository went
  linked,   \* the correlation passes committed
  done,     \* what the completion channel holds
  turn,     \* where the loop stands in its tick
  rows,     \* the progress pane's row of each target
  warned,   \* whether the status line says that lines were dropped
  status,   \* WorkStatus
  shown,    \* the correlation pass the results window shows
  unread,   \* whether the last read for it failed
  armed,    \* whether a quit was refused by the last key
  quit,
  runs,     \* runs so far
  faults    \* errors and panics so far

worker == <<step, todo, at, fate, linked>>
pane == <<rows, warned>>
results == <<shown, unread>>
keys == <<armed, quit, runs>>
vars == <<bus, dropped, worker, done, turn, pane, status, results, keys, faults>>

(* The pane has a row for each repository, for the pipeline's own remarks,   *)
(* for the correlation pass, and for a run that failed as a whole.           *)
Targets == Repos \union {"collect", "correlate", "run"}
Outcomes == {"none", "completed", "failed"}

Init ==
  /\ bus = <<>>
  /\ dropped = FALSE
  /\ step = "off"
  /\ todo = {}
  /\ at = None
  /\ fate = [r \in Repos |-> "none"]
  /\ linked = 0
  /\ done = "nothing"
  /\ turn = "drain"
  /\ rows = [t \in Targets |-> "unseen"]
  /\ warned = FALSE
  /\ status = "idle"
  /\ shown = 0
  /\ unread = FALSE
  /\ armed = FALSE
  /\ quit = FALSE
  /\ runs = 0
  /\ faults = 0

Fault == faults < MaxFaults /\ faults' = faults + 1

-----------------------------------------------------------------------------
(* The worker. *)

\* Faulty variant: an event that is dropped is not counted.
FaultyEmit(target, outcome) ==
  /\ bus' = Append(IF Len(bus) = Capacity THEN Tail(bus) ELSE bus,
                   [target |-> target, outcome |-> outcome])
  /\ UNCHANGED dropped

(* emit: a full bus drops its oldest event and counts it. *)
Emit(target, outcome) ==
  /\ bus' = Append(IF Len(bus) = Capacity THEN Tail(bus) ELSE bus,
                   [target |-> target, outcome |-> outcome])
  /\ dropped' = (dropped \/ Len(bus) = Capacity)

Silent == UNCHANGED <<bus, dropped>>

(* The database is opened; an error here, or at the places below, ends the   *)
(* run as failed.                                                            *)
OpenDb ==
  /\ step = "open"
  /\ \/ step' = (IF todo = {} THEN "link" ELSE "collect") /\ UNCHANGED faults
     \/ step' = "fail" /\ Fault
  /\ Silent
  /\ UNCHANGED <<todo, at, fate, linked>>

(* CollectionPipeline::run walks the repositories, telling of each that it   *)
(* starts, remarks meanwhile, and how it ended.                              *)
BeginRepo ==
  /\ step = "collect"
  /\ \E r \in todo :
       /\ todo' = todo \ {r}
       /\ at' = r
       /\ fate' = [fate EXCEPT ![r] = "working"]
       /\ Emit(r, "none")
  /\ step' = "walk"
  /\ UNCHANGED <<linked, faults>>

RemarkOnRepo ==
  /\ step = "walk"
  /\ step' = "remarked"
  /\ Emit(at, "none")
  /\ UNCHANGED <<todo, at, fate, linked, faults>>

EndRepo ==
  /\ step \in {"walk", "remarked"}
  /\ \/ fate' = [fate EXCEPT ![at] = "completed"] /\ Emit(at, "completed") /\ UNCHANGED faults
     \/ fate' = [fate EXCEPT ![at] = "failed"] /\ Emit(at, "failed") /\ Fault
  /\ at' = None
  /\ step' = IF todo = {} THEN "after" ELSE "collect"
  /\ UNCHANGED <<todo, linked>>

(* The stages after the walks may have a warning of the run as a whole. *)
AfterWalks ==
  /\ step = "after"
  /\ \/ Emit("collect", "none") /\ step' = "link" /\ UNCHANGED faults
     \/ Silent /\ step' = "link" /\ UNCHANGED faults
     \/ Silent /\ step' = "fail" /\ Fault
  /\ UNCHANGED <<todo, at, fate, linked>>

BeginLink ==
  /\ step = "link"
  /\ Emit("correlate", "none")
  /\ step' = "linking"
  /\ UNCHANGED <<todo, at, fate, linked, faults>>

(* correlate_commits commits its one transaction, or fails. *)
CommitLinks ==
  /\ step = "linking"
  /\ \/ step' = "linked" /\ linked' = linked + 1 /\ UNCHANGED faults
     \/ step' = "fail" /\ Fault /\ UNCHANGED linked
  /\ Silent
  /\ UNCHANGED <<todo, at, fate>>

EndLink ==
  /\ step = "linked"
  /\ Emit("correlate", "completed")
  /\ step' = "report"
  /\ UNCHANGED <<todo, at, fate, linked, faults>>

FailRun ==
  /\ step = "fail"
  /\ Emit("run", "failed")
  /\ step' = "report"
  /\ UNCHANGED <<todo, at, fate, linked, faults>>

Work ==
  /\ \/ OpenDb \/ BeginRepo \/ RemarkOnRepo \/ EndRepo \/ AfterWalks
     \/ BeginLink \/ CommitLinks \/ EndLink \/ FailRun
  /\ UNCHANGED done

\* Faulty variant: says that the run is over before its links are committed.
FaultyReport ==
  /\ step \in {"linking", "report"}
  /\ done = "open"
  /\ done' = "summary"
  /\ step' = IF step = "report" THEN "off" ELSE step
  /\ UNCHANGED <<bus, dropped, todo, at, fate, linked, faults>>

Report ==
  /\ step = "report"
  /\ done' = "summary"
  /\ step' = "off"
  /\ UNCHANGED <<bus, dropped, todo, at, fate, linked, faults>>

(* A panic drops the sending half of the channel. *)
Panic ==
  /\ step # "off"
  /\ Fault
  /\ step' = "off"
  /\ done' = "closed"
  /\ UNCHANGED <<bus, dropped, todo, at, fate, linked>>

Thread ==
  /\ ~quit
  /\ Work \/ Report
  /\ UNCHANGED <<turn, pane, status, results, keys>>

(* What the thread does without waiting for anybody else: not the walk, which *)
(* fetches first, nor the stages after it, which ask the services.           *)
OwnThread ==
  /\ ~quit
  /\ \/ /\ OpenDb \/ BeginRepo \/ BeginLink \/ CommitLinks \/ EndLink \/ FailRun
        /\ UNCHANGED done
     \/ Report
  /\ UNCHANGED <<turn, pane, status, results, keys>>

Crash ==
  /\ ~quit
  /\ Panic
  /\ UNCHANGED <<turn, pane, status, results, keys>>

-----------------------------------------------------------------------------
(* The loop. *)

(* apply: a row keeps the last outcome it was told, and a target without a   *)
(* row gets one.                                                             *)
Folded(t) ==
  LET told == {i \in DOMAIN bus : bus[i].target = t}
      ends == {i \in told : bus[i].outcome # "none"}
  IN  CASE ends # {} -> bus[Max(ends)].outcome
        [] ends = {} /\ rows[t] = "unseen" /\ told # {} -> "running"
        [] OTHER -> rows[t]

(* pump_progress folds the queue first and reads the counter then. *)
Drain ==
  /\ turn = "drain"
  /\ rows' = [t \in Targets |-> Folded(t)]
  /\ bus' = <<>>
  /\ turn' = "count"
  /\ UNCHANGED <<dropped, warned, status, done, results, keys, faults>>

Count ==
  /\ turn = "count"
  /\ warned' = dropped
  /\ turn' = "poll"
  /\ UNCHANGED <<bus, dropped, rows, status, done, results, keys, faults>>

(* reload_results: a query that fails leaves the window as it was. *)
Reload ==
  \/ shown' = linked /\ unread' = FALSE /\ UNCHANGED faults
  \/ unread' = TRUE /\ Fault /\ UNCHANGED shown

\* Faulty variant: only a summary ends a run.
FaultyPoll ==
  /\ turn = "poll"
  /\ IF done = "summary"
     THEN done' = "nothing" /\ status' = "finished" /\ Reload
     ELSE UNCHANGED <<done, status, results, faults>>
  /\ turn' = "key"
  /\ UNCHANGED <<bus, dropped, pane, keys>>

(* poll_finished: a run is over when its summary came or its thread is gone. *)
Poll ==
  /\ turn = "poll"
  /\ IF done \in {"summary", "closed"}
     THEN done' = "nothing" /\ status' = "finished" /\ Reload
     ELSE UNCHANGED <<done, status, results, faults>>
  /\ turn' = "key"
  /\ UNCHANGED <<bus, dropped, pane, keys>>

(* The key after which nothing happens, or none in time. *)
OtherKey ==
  /\ armed' \in {armed, FALSE}
  /\ UNCHANGED <<worker, done, status, results, quit, runs, faults>>

(* [q] during a run has to be pressed twice in a row. *)
QuitKey ==
  /\ IF status = "running" /\ ~armed
     THEN armed' = TRUE /\ UNCHANGED quit
     ELSE quit' = TRUE /\ UNCHANGED armed
  /\ UNCHANGED <<worker, done, status, results, runs, faults>>

ReloadKey ==
  /\ armed' = FALSE
  /\ Reload
  /\ UNCHANGED <<worker, done, status, quit, runs>>

(* [r] with the ticked repositories, or [c] with none. *)
RunKey(ticked) ==
  /\ status # "running"
  /\ runs < MaxRuns
  /\ status' = "running"
  /\ step' = "open"
  /\ todo' = ticked
  /\ at' = None
  /\ fate' = [r \in Repos |-> IF r \in ticked THEN "none" ELSE fate[r]]
  /\ done' = "open"
  /\ armed' = FALSE
  /\ runs' = runs + 1
  /\ UNCHANGED <<linked, results, quit, faults>>

Key ==
  /\ turn = "key"
  /\ OtherKey \/ QuitKey \/ ReloadKey \/ \E ticked \in SUBSET Repos : RunKey(ticked)
  /\ turn' = "drain"
  /\ UNCHANGED <<bus, dropped, pane>>

Loop ==
  /\ ~quit
  /\ \/ (Drain \/ Count \/ Poll) /\ UNCHANGED worker
     \/ Key

Next == Thread \/ Crash \/ Loop

Spec == Init /\ [][Next]_vars

(* Both threads are scheduled, and the loop polls the keyboard with a        *)
(* timeout. A fetch may never end: fetch_timeout_secs is not enforced.       *)
FairSpec == Spec /\ WF_vars(OwnThread) /\ WF_vars(Loop)

-----------------------------------------------------------------------------
(* The types of the variables; the bus never holds more than its capacity. *)
TypeOK ==
  /\ bus \in Seq([target : Targets, outcome : Outcomes])
  /\ Len(bus) <= Capacity
  /\ dropped \in BOOLEAN
  /\ step \in {"off", "open", "collect", "walk", "remarked", "after", "link",
               "linking", "linked", "fail", "report"}
  /\ todo \subseteq Repos
  /\ at \in Repos \union {None}
  /\ fate \in [Repos -> Outcomes \union {"working"}]
  /\ linked \in 0..runs
  /\ done \in {"nothing", "open", "summary", "closed"}
  /\ turn \in {"drain", "count", "poll", "key"}
  /\ rows \in [Targets -> {"unseen", "running", "completed", "failed"}]
  /\ warned \in BOOLEAN
  /\ status \in {"idle", "running", "finished"}
  /\ step # "off" => status = "running"
  /\ shown \in 0..linked
  /\ unread \in BOOLEAN
  /\ armed \in BOOLEAN
  /\ quit \in BOOLEAN
  /\ runs \in 0..MaxRuns
  /\ faults \in 0..MaxFaults

(* Whenever all that was told has been folded and read, the pane shows how   *)
(* the last walk of every repository ended, or the status line says that     *)
(* lines were dropped (bus.rs: "so a consumer can say so rather than silently *)
(* rendering a gap"; #5197: "a repo that never opens must still reach a      *)
(* terminal state, or its row spins forever in the TUI").                    *)
OutcomesShown ==
  turn = "key" /\ bus = <<>> /\ ~warned =>
    \A r \in Repos : fate[r] \in {"completed", "failed"} => rows[r] = fate[r]

(* The results window of a finished run shows the links that run committed,  *)
(* however the thread's commit, its report and the loop's read interleave,   *)
(* unless the read itself failed.                                            *)
ResultsAreFresh == status = "finished" => shown = linked \/ unread

(* The thread waits for ever for a remote or a service. *)
Hangs == <>[](step \in {"walk", "remarked", "after"})

(* A run that was started is seen to end, also when its thread panics, as    *)
(* long as no request of it hangs for ever.                                  *)
EventuallyFinished ==
  Hangs \/ (status = "running" ~> (status = "finished" \/ quit))

=============================================================================
