-------------------------- MODULE TuiSession_proofs --------------------------
(***************************************************************************)
(* Theorems about a TUI session, for any repositories, capacity of the bus, *)
(* number of runs and of faults: its types, that the results window of a    *)
(* finished run is fresh, and that the pane shows how each walk ended.      *)
(***************************************************************************)
EXTENDS TuiSession, WellFoundedInduction, TLAPS

USE SessionAssumption

-----------------------------------------------------------------------------
(* Numbers and queues.                                                       *)

(* A set of positions that is not empty has a last one.                      *)
LEMMA MaxIsLast ==
  ASSUME NEW n \in Nat, NEW S \in SUBSET (1..n), S # {}
  PROVE  Max(S) \in S /\ \A i \in S : i <= Max(S)
<1>. DEFINE T == {k \in Nat : n - k \in S}
<1>1. T # {}
  <2>1. PICK i \in S : TRUE
    OBVIOUS
  <2>2. n - i \in T
    BY <2>1
  <2>. QED BY <2>2
<1>2. PICK k \in T : \A j \in T : <<j, k>> \notin OpToRel(<, Nat)
  BY <1>1, NatLessThanWellFounded, WFMin, Zenon
<1>3. ASSUME NEW i \in S PROVE i <= n - k
  <2>1. n - i \in T
    OBVIOUS
  <2>2. ~(n - i < k)
    BY <1>2, <2>1 DEF OpToRel
  <2>. QED BY <2>2
<1>4. \E m \in S : \A i \in S : m >= i
  BY <1>3
<1>. QED BY <1>4 DEF Max

Events == [target : Targets, outcome : Outcomes]

(* A queue that got another event at its end, with or without losing its     *)
(* first one.                                                                *)
LEMMA AppendIs ==
  ASSUME NEW E, NEW q \in Seq(E), NEW e \in E
  PROVE  /\ Append(q, e) \in Seq(E)
         /\ Len(Append(q, e)) = Len(q) + 1
         /\ Append(q, e)[Len(q) + 1] = e
         /\ \A i \in 1..Len(q) : Append(q, e)[i] = q[i]
OBVIOUS

LEMMA ShiftIs ==
  ASSUME NEW E, NEW q \in Seq(E), NEW e \in E, q # <<>>
  PROVE  /\ Append(Tail(q), e) \in Seq(E)
         /\ Len(Append(Tail(q), e)) = Len(q)
         /\ Append(Tail(q), e)[Len(q)] = e
         /\ \A i \in 1..(Len(q) - 1) : Append(Tail(q), e)[i] = q[i + 1]
<1>1. /\ Tail(q) \in Seq(E) /\ Len(Tail(q)) = Len(q) - 1
      /\ \A i \in 1..(Len(q) - 1) : Tail(q)[i] = q[i + 1]
  OBVIOUS
<1>2. Len(q) \in Nat \ {0}
  OBVIOUS
<1>. QED BY <1>1, <1>2, AppendIs

(* What the bus holds when it is given another event.                        *)
LEMMA EmitIs ==
  ASSUME bus \in Seq(Events), Len(bus) <= Capacity, dropped \in BOOLEAN,
         NEW t \in Targets, NEW o \in Outcomes, Emit(t, o)
  PROVE  /\ bus' \in Seq(Events) /\ Len(bus') \in 1..Capacity
         /\ dropped' \in BOOLEAN /\ (dropped => dropped')
         /\ bus'[Len(bus')] = [target |-> t, outcome |-> o]
         /\ \/ /\ Len(bus') = Len(bus) + 1
               /\ \A i \in 1..Len(bus) : bus'[i] = bus[i]
            \/ /\ Len(bus') = Len(bus)
               /\ \A i \in 1..(Len(bus) - 1) : bus'[i] = bus[i + 1]
               /\ dropped'
<1>. DEFINE e == [target |-> t, outcome |-> o]
<1>1. e \in Events /\ Len(bus) \in Nat
  BY DEF Events
<1>2. CASE Len(bus) < Capacity
  <2>1. bus' = Append(bus, e) /\ dropped' = dropped
    BY <1>2 DEF Emit
  <2>. QED BY <1>1, <1>2, <2>1, AppendIs
<1>3. CASE Len(bus) = Capacity
  <2>1. bus' = Append(Tail(bus), e) /\ dropped'
    BY <1>3 DEF Emit
  <2>2. bus # <<>>
    BY <1>3
  <2>. QED BY <1>1, <1>3, <2>1, <2>2, ShiftIs
<1>. QED BY <1>1, <1>2, <1>3

-----------------------------------------------------------------------------
(* Types, and how the worker, the channel and the status line stand to each  *)
(* other: the channel is open while the worker works, a run has ended once   *)
(* the channel is spent, and a run that has not committed its links yet has  *)
(* been counted.                                                             *)
Ahead == {"open", "collect", "walk", "remarked", "after", "link", "linking"}

SessionInv ==
  /\ TypeOK
  /\ step \in {"walk", "remarked"} => at \in Repos
  /\ done = "open" <=> step # "off"
  /\ done # "nothing" => status = "running"
  /\ step \in Ahead => linked < runs

LEMMA EventIs == TypeOK => bus \in Seq(Events)
  BY DEF TypeOK, Events

(* A step of the worker that tells the pane something.                       *)
LEMMA TellKeepsBus ==
  ASSUME SessionInv, NEW t \in Targets, NEW o \in Outcomes, Emit(t, o)
  PROVE  /\ bus' \in Seq([target : Targets, outcome : Outcomes])
         /\ Len(bus') <= Capacity
         /\ dropped' \in BOOLEAN
<1>1. bus' \in Seq(Events) /\ Len(bus') \in 1..Capacity /\ dropped' \in BOOLEAN
  BY EventIs, EmitIs DEF SessionInv, TypeOK
<1>. QED BY <1>1 DEF Events

LEMMA TargetsAre ==
  /\ \A r \in Repos : r \in Targets
  /\ {"collect", "correlate", "run"} \subseteq Targets
  /\ {"none", "completed", "failed"} = Outcomes
BY DEF Targets, Outcomes

(* What a step of the thread leaves alone.                                   *)
LoopStays == UNCHANGED <<turn, rows, warned, status, shown, unread, armed, quit, runs>>

(* A step of the worker, in what the invariant asks of it.                   *)
LEMMA WorkerStep ==
  ASSUME SessionInv, LoopStays,
         bus' \in Seq([target : Targets, outcome : Outcomes]),
         Len(bus') <= Capacity,
         dropped' \in BOOLEAN,
         todo' \subseteq Repos,
         at' \in Repos \union {None},
         fate' \in [Repos -> Outcomes \union {"working"}],
         faults' \in 0..MaxFaults,
         step' \in Ahead \union {"off", "linked", "fail", "report"},
         step' \in {"walk", "remarked"} => at' \in Repos,
         linked' \in linked..runs,
         step' \in Ahead => linked' < runs,
         step # "off",
         done' = (IF step' = "off" THEN done' ELSE "open"),
         done' \in {"open", "summary", "closed"},
         done' = "open" => step' # "off"
  PROVE  SessionInv'
BY DEF LoopStays, SessionInv, TypeOK, Ahead

LEMMA WorkKeeps == ASSUME SessionInv, Work, LoopStays PROVE SessionInv'
<1>. USE DEF SessionInv, TypeOK, Ahead
<1>1. done' = done /\ linked \in Nat /\ linked <= runs
  BY DEF Work
<1>2. CASE OpenDb
  BY <1>1, <1>2, WorkerStep DEF OpenDb, Silent, Fault
<1>3. CASE BeginRepo
  <2>1. PICK r \in todo : /\ Emit(r, "none") /\ todo' = todo \ {r} /\ at' = r
                          /\ fate' = [fate EXCEPT ![r] = "working"]
    BY <1>3 DEF BeginRepo
  <2>2. r \in Repos
    OBVIOUS
  <2>3. /\ bus' \in Seq([target : Targets, outcome : Outcomes])
        /\ Len(bus') <= Capacity
        /\ dropped' \in BOOLEAN
    BY <2>1, <2>2, TargetsAre, TellKeepsBus
  <2>. QED BY <1>1, <1>3, <2>1, <2>2, <2>3, WorkerStep DEF BeginRepo
<1>4. CASE RemarkOnRepo
  <2>1. at \in Repos /\ Emit(at, "none")
    BY <1>4 DEF RemarkOnRepo
  <2>2. /\ bus' \in Seq([target : Targets, outcome : Outcomes])
        /\ Len(bus') <= Capacity
        /\ dropped' \in BOOLEAN
    BY <2>1, TargetsAre, TellKeepsBus
  <2>. QED BY <1>1, <1>4, <2>2, WorkerStep DEF RemarkOnRepo
<1>5. CASE EndRepo
  <2>1. PICK o \in {"completed", "failed"} :
          fate' = [fate EXCEPT ![at] = o] /\ Emit(at, o) /\ (Fault \/ UNCHANGED faults)
    BY <1>5 DEF EndRepo
  <2>2. at \in Repos
    BY <1>5 DEF EndRepo
  <2>3. /\ bus' \in Seq([target : Targets, outcome : Outcomes])
        /\ Len(bus') <= Capacity
        /\ dropped' \in BOOLEAN
    BY <2>1, <2>2, TargetsAre, TellKeepsBus
  <2>4. fate' \in [Repos -> Outcomes \union {"working"}]
    BY <2>1, <2>2, TargetsAre
  <2>. QED BY <1>1, <1>5, <2>1, <2>3, <2>4, WorkerStep DEF EndRepo, Fault
<1>6. CASE AfterWalks
  <2>1. /\ bus' \in Seq([target : Targets, outcome : Outcomes])
        /\ Len(bus') <= Capacity
        /\ dropped' \in BOOLEAN
    BY <1>6, TargetsAre, TellKeepsBus DEF AfterWalks, Silent
  <2>. QED BY <1>1, <1>6, <2>1, WorkerStep DEF AfterWalks, Fault
<1>7. CASE BeginLink
  <2>1. /\ bus' \in Seq([target : Targets, outcome : Outcomes])
        /\ Len(bus') <= Capacity
        /\ dropped' \in BOOLEAN
    BY <1>7, TargetsAre, TellKeepsBus DEF BeginLink
  <2>. QED BY <1>1, <1>7, <2>1, WorkerStep DEF BeginLink
<1>8. CASE CommitLinks
  <2>1. UNCHANGED <<bus, dropped, todo, at, fate>>
    BY <1>8 DEF CommitLinks, Silent
  <2>2. linked < runs /\ step = "linking"
    BY <1>8 DEF CommitLinks
  <2>3. /\ step' \in {"linked", "fail"} /\ linked' \in {linked, linked + 1}
        /\ faults' \in 0..MaxFaults
    BY <1>8 DEF CommitLinks, Fault
  <2>. QED BY <1>1, <2>1, <2>2, <2>3, WorkerStep
<1>9. CASE EndLink \/ FailRun
  <2>1. /\ bus' \in Seq([target : Targets, outcome : Outcomes])
        /\ Len(bus') <= Capacity
        /\ dropped' \in BOOLEAN
    BY <1>9, TargetsAre, TellKeepsBus DEF EndLink, FailRun
  <2>. QED BY <1>1, <1>9, <2>1, WorkerStep DEF EndLink, FailRun
<1>. QED BY <1>2, <1>3, <1>4, <1>5, <1>6, <1>7, <1>8, <1>9 DEF Work

LEMMA EndKeeps == ASSUME SessionInv, Report \/ Panic, LoopStays PROVE SessionInv'
BY DEF Report, Panic, Fault, LoopStays, SessionInv, TypeOK, Ahead

(* What a row becomes.                                                       *)
LEMMA FoldedType ==
  ASSUME TypeOK, NEW t \in Targets
  PROVE  Folded(t) \in {"unseen", "running", "completed", "failed"}
<1>. DEFINE told == {i \in DOMAIN bus : bus[i].target = t}
            ends == {i \in told : bus[i].outcome # "none"}
<1>1. ends # {} => Max(ends) \in ends
  <2>1. Len(bus) \in Nat /\ DOMAIN bus = 1..Len(bus)
    BY DEF TypeOK
  <2>2. ends \in SUBSET (1..Len(bus))
    BY <2>1
  <2>. HIDE DEF ends
  <2>. QED BY <2>1, <2>2, MaxIsLast
<1>2. ASSUME NEW i \in ends PROVE bus[i].outcome \in {"completed", "failed"}
  <2>1. bus[i] \in Events
    BY EventIs
  <2>. QED BY <2>1 DEF Events, Outcomes
<1>3. rows[t] \in {"unseen", "running", "completed", "failed"}
  BY DEF TypeOK
<1>. HIDE DEF ends, told
<1>4. Folded(t) = CASE ends # {} -> bus[Max(ends)].outcome
                    [] ends = {} /\ rows[t] = "unseen" /\ told # {} -> "running"
                    [] OTHER -> rows[t]
  BY DEF Folded, ends, told
<1>. QED BY <1>1, <1>2, <1>3, <1>4

(* What a read for the results window leaves it showing.                     *)
LEMMA ReloadIs ==
  ASSUME TypeOK, Reload
  PROVE  /\ shown' \in 0..linked /\ unread' \in BOOLEAN /\ faults' \in 0..MaxFaults
         /\ shown' = linked \/ unread'
<1>1. linked \in Nat /\ faults \in 0..MaxFaults /\ shown \in 0..linked /\ unread \in BOOLEAN
  BY DEF TypeOK
<1>2. CASE shown' = linked /\ unread' = FALSE /\ UNCHANGED faults
  <2>1. linked \in 0..linked
    BY <1>1
  <2>. QED BY <1>1, <1>2, <2>1, Zenon
<1>3. CASE unread' = TRUE /\ Fault /\ UNCHANGED shown
  BY <1>1, <1>3 DEF Fault
<1>. QED BY <1>2, <1>3 DEF Reload

LEMMA PollKeeps == ASSUME SessionInv, Poll, UNCHANGED worker PROVE SessionInv'
<1>. USE DEF Poll, worker, pane, results, keys
<1>1. CASE done \in {"summary", "closed"}
  <2>1. /\ shown' \in 0..linked' /\ unread' \in BOOLEAN /\ faults' \in 0..MaxFaults
        /\ done' = "nothing" /\ status' = "finished"
    BY <1>1, ReloadIs DEF SessionInv
  <2>2. step = "off"
    BY <1>1 DEF SessionInv
  <2>. QED BY <2>1, <2>2 DEF SessionInv, TypeOK, Ahead
<1>2. CASE done \notin {"summary", "closed"}
  BY <1>2 DEF SessionInv, TypeOK, Ahead
<1>. QED BY <1>1, <1>2

LEMMA RunKeyKeeps ==
  ASSUME SessionInv, NEW ticked \in SUBSET Repos, RunKey(ticked), turn' = "drain",
         UNCHANGED <<bus, dropped, pane>>
  PROVE  SessionInv'
<1>1. fate' \in [Repos -> Outcomes \union {"working"}]
  BY DEF RunKey, SessionInv, TypeOK, Outcomes
<1>2. /\ runs \in Nat /\ linked \in Nat /\ linked <= runs
      /\ runs' = runs + 1 /\ runs < MaxRuns /\ linked' = linked
  BY DEF RunKey, SessionInv, TypeOK
<1>3. linked' \in 0..runs' /\ linked' < runs' /\ runs' \in 0..MaxRuns
  BY <1>2
<1>. QED BY <1>1, <1>3 DEF RunKey, pane, results, SessionInv, TypeOK, Ahead

LEMMA LoopKeeps == ASSUME SessionInv, Loop PROVE SessionInv'
<1>1. CASE Drain /\ UNCHANGED worker
  <2>1. rows' \in [Targets -> {"unseen", "running", "completed", "failed"}]
    BY <1>1, FoldedType DEF Drain, SessionInv
  <2>2. bus' \in Seq([target : Targets, outcome : Outcomes]) /\ Len(bus') = 0
    BY <1>1 DEF Drain
  <2>. QED BY <1>1, <2>1, <2>2 DEF Drain, worker, results, keys, SessionInv, TypeOK, Ahead
<1>2. CASE Count /\ UNCHANGED worker
  BY <1>2 DEF Count, worker, results, keys, SessionInv, TypeOK, Ahead
<1>3. CASE Poll /\ UNCHANGED worker
  BY <1>3, PollKeeps
<1>4. CASE Key
  <2>1. ASSUME NEW ticked \in SUBSET Repos, RunKey(ticked) PROVE SessionInv'
    BY <1>4, <2>1, RunKeyKeeps DEF Key
  <2>2. CASE OtherKey
    <3>1. UNCHANGED <<bus, dropped, step, todo, at, fate, linked, rows, warned, done,
                      status, shown, unread, quit, runs, faults>>
          /\ armed' \in {armed, FALSE} /\ turn' = "drain"
      BY <1>4, <2>2 DEF Key, OtherKey, worker, pane, results
    <3>2. armed' \in BOOLEAN /\ quit' \in BOOLEAN
      BY <3>1 DEF SessionInv, TypeOK
    <3>3. TypeOK'
      BY <3>1, <3>2, Zenon DEF SessionInv, TypeOK
    <3>. QED BY <3>1, <3>3, Zenon DEF SessionInv, Ahead
  <2>3. CASE QuitKey
    <3>1. UNCHANGED <<bus, dropped, step, todo, at, fate, linked, rows, warned, done,
                      status, shown, unread, runs, faults>>
          /\ armed' \in {armed, TRUE} /\ quit' \in {quit, TRUE} /\ turn' = "drain"
      BY <1>4, <2>3 DEF Key, QuitKey, worker, pane, results
    <3>2. armed' \in BOOLEAN /\ quit' \in BOOLEAN
      BY <3>1 DEF SessionInv, TypeOK
    <3>3. TypeOK'
      BY <3>1, <3>2, Zenon DEF SessionInv, TypeOK
    <3>. QED BY <3>1, <3>3, Zenon DEF SessionInv, Ahead
  <2>4. CASE ReloadKey
    <3>1. UNCHANGED <<step, todo, at, fate, linked, bus, dropped, rows, warned, done,
                      status, quit, runs>> /\ armed' = FALSE /\ turn' = "drain"
      BY <1>4, <2>4 DEF Key, ReloadKey, worker, pane
    <3>2. shown' \in 0..linked /\ unread' \in BOOLEAN /\ faults' \in 0..MaxFaults
      BY <2>4, ReloadIs DEF ReloadKey, SessionInv
    <3>3. TypeOK'
      BY <3>1, <3>2, Zenon DEF SessionInv, TypeOK
    <3>. QED BY <3>1, <3>3, Zenon DEF SessionInv, Ahead
  <2>. QED BY <1>4, <2>1, <2>2, <2>3, <2>4 DEF Key
<1>. QED BY <1>1, <1>2, <1>3, <1>4 DEF Loop

LEMMA SessionKept == ASSUME SessionInv, [Next]_vars PROVE SessionInv'
<1>1. CASE UNCHANGED vars
  BY <1>1 DEF vars, worker, pane, results, keys, SessionInv, TypeOK, Ahead
<1>2. CASE Thread
  BY <1>2, WorkKeeps, EndKeeps DEF Thread, LoopStays, pane, results, keys
<1>3. CASE Crash
  BY <1>3, EndKeeps DEF Crash, LoopStays, pane, results, keys
<1>4. CASE Loop
  BY <1>4, LoopKeeps
<1>. QED BY <1>1, <1>2, <1>3, <1>4 DEF Next

LEMMA SessionStarts == Init => SessionInv
<1>. SUFFICES ASSUME Init PROVE SessionInv
  OBVIOUS
<1>1. bus \in Seq([target : Targets, outcome : Outcomes]) /\ Len(bus) = 0
  BY DEF Init
<1>2. /\ fate \in [Repos -> Outcomes \union {"working"}]
      /\ rows \in [Targets -> {"unseen", "running", "completed", "failed"}]
  BY DEF Init, Outcomes
<1>3. linked \in 0..runs /\ shown \in 0..linked /\ runs \in 0..MaxRuns /\ faults \in 0..MaxFaults
  BY DEF Init
<1>4. Len(bus) <= Capacity
  BY <1>1
<1>5. TypeOK
  BY <1>1, <1>2, <1>3, <1>4 DEF Init, TypeOK
<1>. QED BY <1>5 DEF Init, SessionInv, Ahead

(* The variables of a session have their types, and the bus never holds more *)
(* than its capacity.                                                        *)
THEOREM TypeCorrect == Spec => []TypeOK
<1>1. SessionInv => TypeOK
  BY DEF SessionInv
<1>. QED BY <1>1, SessionStarts, SessionKept, PTL DEF Spec

LEMMA SessionAlways == Spec => []SessionInv
BY SessionStarts, SessionKept, PTL DEF Spec

-----------------------------------------------------------------------------
(* The results window. Nothing commits links once a run is over: what ends a *)
(* run for the loop is on the channel only when the worker is off.           *)
LEMMA FreshKept ==
  ASSUME SessionInv, ResultsAreFresh, [Next]_vars
  PROVE  ResultsAreFresh'
<1>1. CASE UNCHANGED vars
  BY <1>1 DEF vars, worker, results, ResultsAreFresh
<1>2. CASE Thread \/ Crash
  <2>1. UNCHANGED <<status, shown, unread>>
    BY <1>2 DEF Thread, Crash, results
  <2>2. status = "finished" => step = "off"
    BY DEF SessionInv, TypeOK
  <2>3. step = "off" => FALSE
    BY <1>2 DEF Thread, Crash, Work, Report, Panic, OpenDb, BeginRepo, RemarkOnRepo, EndRepo,
                AfterWalks, BeginLink, CommitLinks, EndLink, FailRun
  <2>. QED BY <2>1, <2>2, <2>3 DEF ResultsAreFresh
<1>3. CASE Loop
  <2>1. linked' = linked
    BY <1>3 DEF Loop, Key, OtherKey, QuitKey, ReloadKey, RunKey, worker
  <2>2. CASE status' = status /\ UNCHANGED results
    BY <2>1, <2>2 DEF results, ResultsAreFresh
  <2>3. CASE Reload
    BY <2>1, <2>3, ReloadIs DEF SessionInv, ResultsAreFresh
  <2>4. CASE status' = "running"
    BY <2>4 DEF ResultsAreFresh
  <2>. QED BY <1>3, <2>2, <2>3, <2>4
         DEF Loop, Drain, Count, Poll, Key, OtherKey, QuitKey, ReloadKey, RunKey
<1>. QED BY <1>1, <1>2, <1>3 DEF Next

(* However the worker's commit, its report and the loop's read interleave,   *)
(* the results window of a finished run shows the links it committed.        *)
THEOREM FinishedRunsAreShown == Spec => []ResultsAreFresh
<1>1. Init => ResultsAreFresh
  BY DEF Init, ResultsAreFresh
<1>. QED BY <1>1, FreshKept, SessionAlways, PTL DEF Spec

-----------------------------------------------------------------------------
(* The pane. As long as nothing was dropped, the outcome of a walk is in the *)
(* row of its repository or is the last outcome about it that is queued; and *)
(* once the loop has read the counter, it has read the last drop, unless the *)
(* bus has been given something since.                                       *)
LastWord(r, i) ==
  /\ bus[i] = [target |-> r, outcome |-> fate[r]]
  /\ \A j \in DOMAIN bus : j > i /\ bus[j].target = r => bus[j].outcome = "none"

Silence(r) == \A j \in DOMAIN bus : bus[j].target = r => bus[j].outcome = "none"

Reaches(r) ==
  fate[r] \in {"completed", "failed"} /\ ~dropped =>
    \/ \E i \in DOMAIN bus : LastWord(r, i)
    \/ rows[r] = fate[r] /\ Silence(r)

PaneInv ==
  /\ \A r \in Repos : Reaches(r)
  /\ turn \in {"poll", "key"} /\ bus = <<>> => warned = dropped

(* A remark, or the end of something else, leaves the last word.             *)
LEMMA TellReaches ==
  ASSUME SessionInv, NEW t \in Targets, NEW o \in Outcomes, Emit(t, o),
         NEW r \in Repos, Reaches(r), t # r \/ o = "none",
         fate'[r] = fate[r], rows' = rows
  PROVE  Reaches(r)'
<1>. SUFFICES ASSUME fate[r] \in {"completed", "failed"}, ~dropped'
              PROVE  \/ \E i \in DOMAIN bus' : LastWord(r, i)'
                     \/ rows[r] = fate[r] /\ Silence(r)'
  BY DEF Reaches
<1>1. bus \in Seq(Events) /\ Len(bus) \in Nat /\ DOMAIN bus = 1..Len(bus)
  BY EventIs DEF SessionInv
<1>2. /\ ~dropped
      /\ bus' \in Seq(Events) /\ Len(bus') = Len(bus) + 1
      /\ bus'[Len(bus')] = [target |-> t, outcome |-> o]
      /\ \A i \in 1..Len(bus) : bus'[i] = bus[i]
  BY <1>1, EmitIs DEF SessionInv, TypeOK
<1>3. DOMAIN bus' = 1..(Len(bus) + 1)
  BY <1>2
<1>4. ASSUME NEW j \in DOMAIN bus', j = Len(bus) + 1, bus'[j].target = r
      PROVE  bus'[j].outcome = "none"
  BY <1>2, <1>4
<1>5. ASSUME NEW i \in DOMAIN bus, LastWord(r, i) PROVE \E k \in DOMAIN bus' : LastWord(r, k)'
  <2>1. i \in DOMAIN bus' /\ bus'[i] = [target |-> r, outcome |-> fate'[r]]
    BY <1>1, <1>2, <1>3, <1>5 DEF LastWord
  <2>2. ASSUME NEW j \in DOMAIN bus', j > i, bus'[j].target = r PROVE bus'[j].outcome = "none"
    <3>1. CASE j \in 1..Len(bus)
      BY <1>1, <1>2, <1>5, <2>2, <3>1 DEF LastWord
    <3>2. CASE j = Len(bus) + 1
      BY <1>4, <2>2, <3>2
    <3>. QED BY <1>1, <1>3, <3>1, <3>2
  <2>. QED BY <2>1, <2>2 DEF LastWord
<1>6. ASSUME Silence(r) PROVE Silence(r)'
  <2>1. ASSUME NEW j \in DOMAIN bus', bus'[j].target = r PROVE bus'[j].outcome = "none"
    <3>1. CASE j \in 1..Len(bus)
      BY <1>1, <1>2, <1>6, <2>1, <3>1 DEF Silence
    <3>2. CASE j = Len(bus) + 1
      BY <1>4, <2>1, <3>2
    <3>. QED BY <1>1, <1>3, <3>1, <3>2
  <2>. QED BY <2>1 DEF Silence
<1>. QED BY <1>2, <1>5, <1>6 DEF Reaches

(* The end of a walk is the last word about its repository.                  *)
LEMMA EndReaches ==
  ASSUME SessionInv, NEW r \in Repos, NEW o \in Outcomes, Emit(r, o), fate'[r] = o
  PROVE  Reaches(r)'
<1>1. r \in Targets
  BY TargetsAre
<1>2. /\ bus' \in Seq(Events) /\ Len(bus') \in 1..Capacity
      /\ bus'[Len(bus')] = [target |-> r, outcome |-> o]
  BY <1>1, EventIs, EmitIs DEF SessionInv, TypeOK
<1>3. DOMAIN bus' = 1..Len(bus')
  BY <1>2
<1>4. Len(bus') \in DOMAIN bus' /\ \A j \in DOMAIN bus' : ~(j > Len(bus'))
  BY <1>2, <1>3
<1>5. LastWord(r, Len(bus))'
  BY <1>2, <1>4 DEF LastWord
<1>. QED BY <1>4, <1>5 DEF Reaches

(* Folding the queue puts the last word in the row.                          *)
LEMMA DrainReaches == ASSUME SessionInv, Drain, NEW r \in Repos, Reaches(r), fate' = fate PROVE Reaches(r)'
<1>. DEFINE told == {i \in DOMAIN bus : bus[i].target = r}
            ends == {i \in told : bus[i].outcome # "none"}
<1>. SUFFICES ASSUME fate[r] \in {"completed", "failed"}, ~dropped
              PROVE  rows'[r] = fate[r] /\ Silence(r)'
  BY DEF Reaches, Drain
<1>1. bus \in Seq(Events) /\ Len(bus) \in Nat /\ DOMAIN bus = 1..Len(bus)
  BY EventIs DEF SessionInv
<1>2. bus' = <<>> /\ rows'[r] = Folded(r)
  BY TargetsAre DEF Drain
<1>3. Silence(r)'
  BY <1>2 DEF Silence
<1>4. CASE \E i \in DOMAIN bus : LastWord(r, i)
  <2>1. PICK i \in DOMAIN bus : LastWord(r, i)
    BY <1>4
  <2>2. i \in ends /\ bus[i].outcome = fate[r]
    BY <2>1 DEF LastWord
  <2>3. \A j \in ends : ~(j > i)
    BY <2>1 DEF LastWord
  <2>4. ends \in SUBSET (1..Len(bus))
    BY <1>1
  <2>5. Max(ends) \in ends /\ i <= Max(ends)
    <3>. HIDE DEF ends
    <3>. QED BY <1>1, <2>2, <2>4, MaxIsLast
  <2>6. Max(ends) = i
    <3>1. Max(ends) \in 1..Len(bus) /\ i \in 1..Len(bus) /\ ~(Max(ends) > i)
      BY <1>1, <2>3, <2>4, <2>5
    <3>. QED BY <2>5, <3>1
  <2>7. Folded(r) = bus[Max(ends)].outcome
    BY <2>2 DEF Folded
  <2>. QED BY <1>2, <1>3, <2>2, <2>6, <2>7
<1>5. CASE rows[r] = fate[r] /\ Silence(r)
  <2>1. ends = {}
    BY <1>5 DEF Silence
  <2>2. rows[r] # "unseen"
    BY <1>5
  <2>3. Folded(r) = rows[r]
    BY <2>1, <2>2 DEF Folded
  <2>. QED BY <1>2, <1>3, <1>5, <2>3
<1>. QED BY <1>4, <1>5 DEF Reaches

(* What is neither told nor folded changes nothing.                          *)
LEMMA StillReaches ==
  ASSUME UNCHANGED <<bus, dropped, rows>>, NEW r \in Repos, Reaches(r),
         fate'[r] = fate[r] \/ fate'[r] \notin {"completed", "failed"}
  PROVE  Reaches(r)'
BY DEF Reaches, LastWord, Silence

LEMMA WorkReaches ==
  ASSUME SessionInv, PaneInv, Work, rows' = rows, NEW r \in Repos
  PROVE  Reaches(r)'
<1>. Reaches(r)
  BY DEF PaneInv
<1>1. CASE Silent /\ fate' = fate
  BY <1>1, StillReaches DEF Silent
<1>2. ASSUME NEW t \in {"correlate", "run", "collect"}, NEW o \in Outcomes, Emit(t, o), fate' = fate
      PROVE  Reaches(r)'
  <2>1. t \in Targets /\ t # r
    BY TargetsAre
  <2>. QED BY <1>2, <2>1, TellReaches
<1>3. CASE BeginRepo
  <2>1. PICK s \in Repos : Emit(s, "none") /\ fate' = [fate EXCEPT ![s] = "working"]
    BY <1>3 DEF BeginRepo, SessionInv, TypeOK
  <2>2. CASE s = r
    <3>1. fate'[r] = "working"
      BY <2>1, <2>2 DEF SessionInv, TypeOK
    <3>. QED BY <3>1 DEF Reaches
  <2>3. CASE s # r
    BY <2>1, <2>3, TellReaches, TargetsAre DEF SessionInv, TypeOK
  <2>. QED BY <2>2, <2>3
<1>4. CASE RemarkOnRepo
  <2>1. at \in Repos /\ Emit(at, "none") /\ fate' = fate
    BY <1>4 DEF RemarkOnRepo, SessionInv
  <2>. QED BY <2>1, TellReaches, TargetsAre
<1>5. CASE EndRepo
  <2>1. PICK o \in {"completed", "failed"} : fate' = [fate EXCEPT ![at] = o] /\ Emit(at, o)
    BY <1>5 DEF EndRepo
  <2>2. at \in Repos /\ fate \in [Repos -> Outcomes \union {"working"}]
    BY <1>5 DEF EndRepo, SessionInv, TypeOK
  <2>3. CASE at = r
    BY <2>1, <2>2, <2>3, EndReaches, TargetsAre
  <2>4. CASE at # r
    BY <2>1, <2>2, <2>4, TellReaches, TargetsAre
  <2>. QED BY <2>3, <2>4
<1>. QED BY <1>1, <1>2, <1>3, <1>4, <1>5, TargetsAre
       DEF Work, OpenDb, AfterWalks, BeginLink, CommitLinks, EndLink, FailRun

(* Whoever tells the bus something leaves it with something.                 *)
LEMMA CounterKept ==
  ASSUME SessionInv, PaneInv, Thread \/ Crash
  PROVE  turn' \in {"poll", "key"} /\ bus' = <<>> => warned' = dropped'
<1>1. turn' = turn /\ warned' = warned
  BY DEF Thread, Crash, pane
<1>2. ASSUME NEW t, NEW o, Emit(t, o) PROVE bus' # <<>>
  BY <1>2, EventIs DEF Emit, SessionInv
<1>3. Silent \/ bus' # <<>>
  BY <1>2 DEF Thread, Crash, Work, Report, Panic, OpenDb, BeginRepo, RemarkOnRepo, EndRepo,
              AfterWalks, BeginLink, CommitLinks, EndLink, FailRun, Silent
<1>. QED BY <1>1, <1>3 DEF Silent, PaneInv

LEMMA PaneKept == ASSUME SessionInv, PaneInv, [Next]_vars PROVE PaneInv'
<1>1. CASE UNCHANGED vars
  <2>1. UNCHANGED <<bus, dropped, rows, fate, turn, warned>>
    BY <1>1 DEF vars, worker, pane
  <2>2. ASSUME NEW r \in Repos PROVE Reaches(r)'
    BY <2>1, StillReaches DEF PaneInv
  <2>. QED BY <2>1, <2>2 DEF PaneInv
<1>2. CASE Thread \/ Crash
  <2>1. ASSUME NEW r \in Repos PROVE Reaches(r)'
    <3>1. CASE Work
      BY <1>2, <3>1, WorkReaches DEF Thread, Crash, pane
    <3>2. CASE Report \/ Panic
      BY <1>2, <3>2, StillReaches DEF Thread, Crash, Report, Panic, pane, PaneInv
    <3>. QED BY <1>2, <3>1, <3>2 DEF Thread, Crash
  <2>. QED BY <1>2, <2>1, CounterKept DEF PaneInv
<1>3. CASE Drain /\ UNCHANGED worker
  BY <1>3, DrainReaches DEF Drain, worker, PaneInv
<1>4. CASE (Count \/ Poll) /\ UNCHANGED worker
  <2>1. UNCHANGED <<bus, dropped, rows, fate>>
    BY <1>4 DEF Count, Poll, worker, pane
  <2>2. ASSUME NEW r \in Repos PROVE Reaches(r)'
    BY <2>1, StillReaches DEF PaneInv
  <2>3. turn' \in {"poll", "key"} /\ bus' = <<>> => warned' = dropped'
    BY <1>4 DEF Count, Poll, pane, PaneInv
  <2>. QED BY <2>2, <2>3 DEF PaneInv
<1>5. CASE Key
  <2>1. turn' = "drain" /\ UNCHANGED <<bus, dropped, rows>>
    BY <1>5 DEF Key, pane
  <2>2. ASSUME NEW r \in Repos PROVE fate'[r] = fate[r] \/ fate'[r] = "none"
    BY <1>5 DEF Key, OtherKey, QuitKey, ReloadKey, RunKey, worker
  <2>3. ASSUME NEW r \in Repos PROVE Reaches(r)'
    BY <2>1, <2>2, StillReaches DEF PaneInv
  <2>. QED BY <2>1, <2>3 DEF PaneInv
<1>. QED BY <1>1, <1>2, <1>3, <1>4, <1>5 DEF Next, Loop

(* Whatever is dropped, when, and however the two threads interleave: when   *)
(* the queue is read out, either the rows show how every walk ended or the   *)
(* status line admits that they may not.                                     *)
THEOREM NoSilentGap == Spec => []OutcomesShown
<1>1. Init => PaneInv
  BY DEF Init, PaneInv, Reaches
<1>2. SessionInv /\ PaneInv => OutcomesShown
  <2>. SUFFICES ASSUME PaneInv, turn = "key", bus = <<>>, ~warned,
                       NEW r \in Repos, fate[r] \in {"completed", "failed"}
                PROVE  rows[r] = fate[r]
    BY DEF OutcomesShown
  <2>1. ~dropped /\ DOMAIN bus = {}
    BY DEF PaneInv
  <2>. QED BY <2>1 DEF PaneInv, Reaches
<1>. QED BY <1>1, <1>2, PaneKept, SessionAlways, PTL DEF Spec
=============================================================================
