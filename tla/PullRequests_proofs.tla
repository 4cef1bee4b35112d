------------------------- MODULE PullRequests_proofs -------------------------
(***************************************************************************)
(* Theorems about the GitHub stage, for any repositories, pull requests,    *)
(* pages, calls in flight, attempts, waits, faults and deaths: the sleep    *)
(* allowance, what is sent after it latched, and that no shortfall is       *)
(* silent.                                                                  *)
(***************************************************************************)
EXTENDS PullRequests, TLAPS

LEMMA BudgetFacts ==
  /\ MaxRetries \in Nat
  /\ SleepBudget \in Nat
  /\ Delays \subseteq Nat
  /\ Backoff \in [0..MaxRetries -> Nat]
  BY BudgetAssumption DEF BudgetAssumption

USE BudgetFacts

-----------------------------------------------------------------------------
(* The allowance and the calls. A call that sent a request after the latch   *)
(* does not wait again, and one that waits has attempts left.                *)
FetchInv ==
  /\ FetchType
  /\ SleepWithinAllowance
  /\ late \in [Calls -> 0..1]
  /\ \A w \in Calls :
       /\ late[w] = 1 => tripped /\ phase[w] # "asleep"
       /\ phase[w] = "asleep" => attempt[w] < MaxRetries

(* What a step of the stage does to them. *)
FetchNext ==
  \/ UNCHANGED fetchVars
  \/ FetchReset
  \/ \E c \in Calls :
       Enter(c) \/ Take(c) \/ Answer(c, "answered") \/ Trouble(c) \/ Wake(c)

LEMMA MainIsCall == Main \in Calls
  BY PullAssumption DEF Main

LEMMA NextFetches == ASSUME Next PROVE FetchNext
<1>1. ASSUME NEW c \in Calls, GitHub(c) PROVE FetchNext
  BY <1>1 DEF GitHub, FetchNext
<1>2. ASSUME NEW c \in Calls, Fetch(c) \/ Fetched(c) PROVE FetchNext
  BY <1>2 DEF Fetch, Fetched, FetchNext
<1>3. ASSUME Discover \/ List PROVE FetchNext
  BY <1>3, MainIsCall DEF Discover, List, FetchNext
<1>4. ASSUME NextRepo \/ Store \/ Query \/ StartIngest \/ Finish PROVE FetchNext
  BY <1>4 DEF NextRepo, Store, Query, StartIngest, Finish, FetchNext
<1>5. ASSUME NEW p \in PRs, NEW kept \in 0..Reviews[p], Ingest(p, kept) PROVE FetchNext
  BY <1>5 DEF Ingest, FetchNext
<1>6. ASSUME NEW force \in BOOLEAN, NEW discover \in BOOLEAN, Start(force, discover)
      PROVE  FetchNext
  BY <1>6 DEF Start, FetchNext
<1>7. ASSUME Die PROVE FetchNext
  BY <1>7 DEF Die, FetchNext
<1>. QED BY <1>1, <1>2, <1>3, <1>4, <1>5, <1>6, <1>7 DEF Next, RunStep

(* A wait is committed only if it fits, and only by a call with attempts     *)
(* left.                                                                     *)
LEMMA ReserveKeeps ==
  ASSUME FetchInv, NEW c \in Calls, NEW delay \in Nat,
         phase[c] = "sent", attempt[c] # MaxRetries, Reserve(c, delay),
         UNCHANGED <<attempt, late>>
  PROVE  FetchInv'
<1>1. phase' = [phase EXCEPT ![c] = phase'[c]] /\ phase'[c] \in {"throttled", "asleep"}
  BY DEF FetchInv, FetchType, Reserve, Become
<1>2. phase' \in [Calls -> {"free", "sent", "asleep"} \union Over]
  BY <1>1 DEF FetchInv, FetchType, Over
<1>5. slept' \in Nat /\ slept' <= SleepBudget /\ tripped' \in BOOLEAN
  <2>1. slept' \in Nat /\ slept' <= SleepBudget
    BY DEF FetchInv, FetchType, SleepWithinAllowance, Reserve
  <2>2. tripped' \in BOOLEAN
    BY DEF FetchInv, FetchType, Reserve
  <2>. QED BY <2>1, <2>2
<1>6. FetchType' /\ SleepWithinAllowance'
  BY <1>2, <1>5 DEF FetchInv, FetchType, SleepWithinAllowance
<1>3. late[c] = 1 => phase'[c] # "asleep"
  BY DEF FetchInv, FetchType, Reserve, Become
<1>4. tripped => tripped'
  BY DEF Reserve
<1>. QED BY <1>1, <1>6, <1>3, <1>4 DEF FetchInv, FetchType

LEMMA FetchKeeps == ASSUME FetchInv, FetchNext PROVE FetchInv'
<1>1. ASSUME UNCHANGED fetchVars PROVE FetchInv'
  BY <1>1 DEF FetchInv, FetchType, SleepWithinAllowance, fetchVars, budget, call
<1>2. ASSUME FetchReset PROVE FetchInv'
  <2>1. FetchType' /\ SleepWithinAllowance' /\ (late \in [Calls -> 0..1])'
    <3>1. FetchType'
      <4>1. tripped' \in BOOLEAN
        BY <1>2 DEF FetchReset
      <4>2. slept' \in Nat /\ late' \in [Calls -> Nat]
        BY <1>2 DEF FetchReset
      <4>3. phase' \in [Calls -> {"free", "sent", "asleep"} \union Over]
        BY <1>2 DEF FetchReset
      <4>4. attempt' \in [Calls -> 0..MaxRetries]
        BY <1>2 DEF FetchReset
      <4>. QED BY <4>1, <4>2, <4>3, <4>4 DEF FetchType
    <3>. QED BY <1>2, <3>1 DEF FetchReset, SleepWithinAllowance
  <2>2. \A w \in Calls : late'[w] = 0 /\ phase'[w] = "free"
    BY <1>2 DEF FetchReset
  <2>. QED BY <2>1, <2>2 DEF FetchInv
<1>3. ASSUME NEW c \in Calls, Enter(c) PROVE FetchInv'
  <2>1. FetchType' /\ SleepWithinAllowance' /\ (late \in [Calls -> 0..1])'
    BY <1>3 DEF Enter, Become, FetchInv, FetchType, SleepWithinAllowance, budget, Over
  <2>2. phase' = [phase EXCEPT ![c] = phase'[c]] /\ phase'[c] # "asleep"
    BY <1>3 DEF Enter, Become, FetchInv, FetchType
  <2>3. \A w \in Calls : phase'[w] = "asleep" => phase[w] = "asleep" /\ w # c
    BY <2>2 DEF FetchInv, FetchType
  <2>4. \A w \in Calls \ {c} : attempt'[w] = attempt[w]
    BY <1>3 DEF Enter, FetchInv, FetchType
  <2>. QED BY <1>3, <2>1, <2>3, <2>4 DEF FetchInv, Enter, budget
<1>4. ASSUME NEW c \in Calls, Take(c) PROVE FetchInv'
  BY <1>4 DEF Take, Become, FetchInv, FetchType, SleepWithinAllowance, budget
<1>5. ASSUME NEW c \in Calls, NEW p, Answer(c, p) PROVE FetchInv'
  BY <1>5 DEF Answer, Become, FetchInv, FetchType, SleepWithinAllowance, budget, Over
<1>6. ASSUME NEW c \in Calls, NEW delay \in Delays, RateLimited(c, delay) PROVE FetchInv'
  <2>1. CASE attempt[c] = MaxRetries
    BY <1>6, <2>1 DEF RateLimited, Become, FetchInv, FetchType, SleepWithinAllowance, Over
  <2>2. CASE attempt[c] # MaxRetries
    BY <1>6, <2>2, ReserveKeeps DEF RateLimited
  <2>. QED BY <2>1, <2>2
<1>7. ASSUME NEW c \in Calls, Transient(c) PROVE FetchInv'
  <2>1. CASE attempt[c] = MaxRetries
    BY <1>7, <2>1 DEF Transient, Become, FetchInv, FetchType, SleepWithinAllowance, Over, budget
  <2>2. CASE attempt[c] # MaxRetries
    <3>1. Backoff[attempt[c]] \in Nat
      BY DEF FetchInv, FetchType
    <3>. QED BY <1>7, <2>2, <3>1, ReserveKeeps DEF Transient
  <2>. QED BY <2>1, <2>2
<1>8. ASSUME NEW c \in Calls, Wake(c) PROVE FetchInv'
  <2>1. late[c] = 0 /\ attempt[c] + 1 \in 0..MaxRetries
    BY <1>8 DEF Wake, FetchInv, FetchType
  <2>. QED BY <1>8, <2>1 DEF Wake, Become, FetchInv, FetchType, SleepWithinAllowance, budget
<1>. QED BY <1>1, <1>2, <1>3, <1>4, <1>5, <1>6, <1>7, <1>8 DEF FetchNext, Trouble

LEMMA FetchInvariant == Spec => []FetchInv
<1>1. Init => FetchInv
  <2>. SUFFICES ASSUME Init PROVE FetchInv
    OBVIOUS
  <2>1. FetchType /\ SleepWithinAllowance /\ late \in [Calls -> 0..1]
    <3>1. FetchType
      <4>1. tripped \in BOOLEAN
        BY DEF Init, FetchInit
      <4>2. slept \in Nat /\ late \in [Calls -> Nat]
        BY DEF Init, FetchInit
      <4>3. phase \in [Calls -> {"free", "sent", "asleep"} \union Over]
        BY DEF Init, FetchInit
      <4>4. attempt \in [Calls -> 0..MaxRetries]
        BY DEF Init, FetchInit
      <4>. QED BY <4>1, <4>2, <4>3, <4>4 DEF FetchType
    <3>. QED BY <3>1 DEF Init, FetchInit, SleepWithinAllowance
  <2>2. \A w \in Calls : late[w] = 0 /\ phase[w] = "free"
    BY DEF Init, FetchInit
  <2>. QED BY <2>1, <2>2 DEF FetchInv
<1>2. FetchInv /\ [Next]_vars => FetchInv'
  <2>1. ASSUME UNCHANGED vars PROVE FetchNext
    BY <2>1 DEF vars, FetchNext
  <2>. QED BY <2>1, NextFetches, FetchKeeps
<1>. QED BY <1>1, <1>2, PTL DEF Spec

(* The waits of a run never add up to more than its allowance. *)
THEOREM WaitsAreBounded == Spec => []SleepWithinAllowance
<1>1. FetchInv => SleepWithinAllowance
  BY DEF FetchInv
<1>. QED BY <1>1, FetchInvariant, PTL

(* After the latch each call slot sends at most one more request. *)
THEOREM LatchHolds == Spec => []LatchStopsTraffic
<1>1. FetchInv => LatchStopsTraffic
  BY DEF FetchInv, LatchStopsTraffic
<1>. QED BY <1>1, FetchInvariant, PTL

-----------------------------------------------------------------------------
(* The other variables, group by group. *)
DataType ==
  /\ listing \in Listings
  /\ stored \subseteq PRs
  /\ rows \in [PRs -> Nat]
  /\ \A p \in PRs : rows[p] <= Reviews[p]

RunType ==
  /\ pc \in {"idle", "discover", "list", "store", "query", "review", "ingest", "done"}
  /\ forced \in BOOLEAN
  /\ told \subseteq Repos \union PRs \union {"store"}

WalkType ==
  /\ left \subseteq Repos
  /\ repo \in Repos \union {None}
  /\ page \in Nat \ {0}
  /\ got \subseteq PRs

ReviewType ==
  /\ todo \subseteq PRs
  /\ outcome \in [PRs -> {"none"} \union Over]
  /\ working \in [Calls -> PRs \union {None}]

FaultType == faults \in 0..MaxFaults

Types == DataType /\ RunType /\ WalkType /\ ReviewType /\ FaultType

LEMMA TypesAreTypes == TypeOK <=> FetchType /\ Types
  BY DEF TypeOK, Types, DataType, RunType, WalkType, ReviewType, FaultType

LEMMA PullFacts ==
  /\ Listings \subseteq [Repos -> Seq(SUBSET PRs)]
  /\ Reviews \in [PRs -> Nat]
  /\ MaxFaults \in Nat
  /\ None \notin PRs
  /\ None \notin Repos
  /\ Own \subseteq Repos
  BY PullAssumption DEF Repos

LEMMA FaultIsCounted == ASSUME FaultType, Fault \/ UNCHANGED faults PROVE FaultType'
  BY PullFacts DEF FaultType, Fault

(* What a page adds is pull requests. *)
LEMMA PageIsPRs ==
  ASSUME Types, repo # None, page \in DOMAIN listing[repo]
  PROVE  listing[repo][page] \in SUBSET PRs
<1>1. listing[repo] \in Seq(SUBSET PRs)
  BY PullFacts DEF Types, DataType, WalkType
<1>. QED BY <1>1

(* Rows only ever reach the reviews there are. *)
LEMMA RowsStayBounded ==
  ASSUME DataType, NEW p \in PRs, NEW kept \in 0..Reviews[p],
         rows' = [rows EXCEPT ![p] = IF @ > kept THEN @ ELSE kept]
  PROVE  /\ rows' \in [PRs -> Nat]
         /\ \A q \in PRs : rows'[q] <= Reviews[q]
         /\ \A q \in PRs \ {p} : rows'[q] = rows[q]
         /\ kept = Reviews[p] => rows'[p] = Reviews[p]
<1>1. Reviews[p] \in Nat /\ rows[p] \in Nat /\ rows[p] <= Reviews[p]
  BY PullFacts DEF DataType
<1>. QED BY <1>1 DEF DataType

LEMMA StartKeepsTypes ==
  ASSUME Types, NEW force \in BOOLEAN, NEW discover \in BOOLEAN, Start(force, discover)
  PROVE  Types'
<1>1. DataType' /\ FaultType'
  BY DEF Types, DataType, FaultType, Start, db
<1>2. RunType'
  BY DEF Types, RunType, Start
<1>3. WalkType'
  BY PullFacts DEF Types, WalkType, Start
<1>4. ReviewType'
  BY PullFacts DEF Types, ReviewType, Start
<1>. QED BY <1>1, <1>2, <1>3, <1>4 DEF Types

LEMMA ListingKeepsTypes ==
  ASSUME Types, Discover \/ NextRepo \/ List \/ Store
  PROVE  Types'
<1>1. CASE Discover
  <2>1. DataType' /\ FaultType' /\ ReviewType'
    BY <1>1 DEF Discover, Types, DataType, FaultType, ReviewType, db, review
  <2>2. RunType' /\ WalkType'
    BY <1>1 DEF Discover, Types, RunType, WalkType, Repos
  <2>. QED BY <2>1, <2>2 DEF Types
<1>2. CASE NextRepo
  <2>1. DataType' /\ FaultType' /\ ReviewType'
    BY <1>2 DEF NextRepo, Types, DataType, FaultType, ReviewType, db, review
  <2>2. RunType' /\ WalkType'
    BY <1>2 DEF NextRepo, Types, RunType, WalkType
  <2>. QED BY <2>1, <2>2 DEF Types
<1>3. CASE List
  <2>1. DataType' /\ FaultType' /\ ReviewType'
    BY <1>3 DEF List, Types, DataType, FaultType, ReviewType, db, review
  <2>2. RunType'
    BY <1>3, PullFacts DEF List, TakePage, LosePage, Types, RunType, WalkType
  <2>3. got' \in SUBSET PRs
    BY <1>3, PageIsPRs DEF List, TakePage, LosePage, Types, WalkType
  <2>4. page' \in Nat \ {0} /\ repo' \in Repos \union {None} /\ left' = left
    BY <1>3 DEF List, TakePage, LosePage, LeaveRepo, Types, WalkType
  <2>. QED BY <2>1, <2>2, <2>3, <2>4 DEF Types, WalkType
<1>4. CASE Store
  <2>1. WalkType' /\ ReviewType'
    BY <1>4 DEF Store, Types, WalkType, ReviewType, walk, review
  <2>2. DataType'
    BY <1>4 DEF Store, Types, DataType, WalkType
  <2>3. RunType'
    BY <1>4 DEF Store, Types, RunType
  <2>4. FaultType'
    BY <1>4, FaultIsCounted DEF Store, Types
  <2>. QED BY <2>1, <2>2, <2>3, <2>4 DEF Types
<1>. QED BY <1>1, <1>2, <1>3, <1>4

LEMMA ReviewingKeepsTypes ==
  ASSUME Types, FetchType,
         Query \/ StartIngest \/ Finish \/ \E c \in Calls : Fetch(c) \/ Fetched(c) \/ GitHub(c)
  PROVE  Types'
<1>1. CASE Query
  <2>1. DataType' /\ FaultType' /\ WalkType'
    BY <1>1 DEF Query, Types, DataType, FaultType, WalkType, db, walk
  <2>2. RunType' /\ ReviewType'
    BY <1>1 DEF Query, Pending, Types, DataType, RunType, ReviewType
  <2>. QED BY <2>1, <2>2 DEF Types
<1>2. CASE StartIngest \/ Finish
  <2>1. DataType' /\ FaultType' /\ WalkType' /\ ReviewType'
    BY <1>2 DEF StartIngest, Finish, Types, DataType, FaultType, WalkType, ReviewType, db, walk, review
  <2>2. RunType'
    BY <1>2 DEF StartIngest, Finish, Types, RunType, ReviewType
  <2>. QED BY <2>1, <2>2 DEF Types
<1>3. ASSUME NEW c \in Calls, Fetch(c) \/ Fetched(c) PROVE Types'
  <2>1. DataType' /\ FaultType' /\ WalkType' /\ RunType'
    BY <1>3 DEF Fetch, Fetched, Types, DataType, FaultType, WalkType, RunType, db, walk
  <2>2. CASE Fetch(c)
    BY <2>1, <2>2 DEF Fetch, Types, ReviewType
  <2>3. CASE Fetched(c)
    <3>1. working[c] \in PRs /\ phase[c] \in Over
      BY <2>3 DEF Fetched, Take, Types, ReviewType
    <3>2. ReviewType'
      BY <2>3, <3>1 DEF Fetched, Types, ReviewType
    <3>. QED BY <2>1, <3>2 DEF Types
  <2>. QED BY <1>3, <2>2, <2>3
<1>4. ASSUME NEW c \in Calls, GitHub(c) PROVE Types'
  <2>1. DataType' /\ WalkType' /\ RunType' /\ ReviewType'
    BY <1>4 DEF GitHub, Types, DataType, WalkType, RunType, ReviewType, db, walk, review
  <2>2. FaultType'
    BY <1>4, FaultIsCounted DEF GitHub, Types
  <2>. QED BY <2>1, <2>2 DEF Types
<1>. QED BY <1>1, <1>2, <1>3, <1>4

LEMMA IngestKeepsTypes ==
  ASSUME Types, NEW p \in PRs, NEW kept \in 0..Reviews[p], Ingest(p, kept)
  PROVE  Types'
<1>1. WalkType'
  BY DEF Ingest, Types, WalkType, walk
<1>2. DataType'
  BY RowsStayBounded DEF Ingest, Types, DataType
<1>3. RunType'
  BY DEF Ingest, Types, RunType
<1>4. FaultType'
  BY FaultIsCounted DEF Ingest, Types
<1>5. ReviewType'
  BY DEF Ingest, Types, ReviewType
<1>. QED BY <1>1, <1>2, <1>3, <1>4, <1>5 DEF Types

LEMMA DieKeepsTypes == ASSUME Types, Die PROVE Types'
<1>1. FaultType'
  BY FaultIsCounted DEF Die, Types
<1>2. RunType'
  BY DEF Die, Types, RunType
<1>3. WalkType'
  BY DEF Die, Types, WalkType
<1>4. ReviewType'
  BY DEF Die, Types, ReviewType
<1>5. DataType'
  <2>1. stored' \subseteq PRs
    BY DEF Die, Types, DataType, WalkType
  <2>2. rows' = rows \/ \E p \in PRs : \E kept \in 0..Reviews[p] :
                          rows' = [rows EXCEPT ![p] = IF @ > kept THEN @ ELSE kept]
    BY DEF Die
  <2>3. rows' \in [PRs -> Nat] /\ \A q \in PRs : rows'[q] <= Reviews[q]
    BY <2>2, RowsStayBounded DEF Types, DataType
  <2>4. listing' = listing
    BY DEF Die
  <2>. QED BY <2>1, <2>3, <2>4 DEF Types, DataType
<1>. QED BY <1>1, <1>2, <1>3, <1>4, <1>5 DEF Types

LEMMA TypesKept == ASSUME Types, FetchType, [Next]_vars PROVE Types'
<1>1. CASE UNCHANGED vars
  BY <1>1 DEF vars, db, walk, review, Types, DataType, RunType, WalkType, ReviewType, FaultType
<1>2. CASE Next
  BY <1>2, StartKeepsTypes, ListingKeepsTypes, ReviewingKeepsTypes, IngestKeepsTypes,
     DieKeepsTypes DEF Next, RunStep
<1>. QED BY <1>1, <1>2

LEMMA InitTypes == ASSUME Init PROVE Types
<1>1. DataType
  BY PullFacts DEF Init, DataType
<1>4. RunType
  BY DEF Init, RunType
<1>2. WalkType
  BY DEF Init, WalkType
<1>3. ReviewType /\ FaultType
  BY PullFacts DEF Init, ReviewType, FaultType
<1>. QED BY <1>1, <1>2, <1>3, <1>4 DEF Types

(* Every variable keeps its type. *)
THEOREM TypeCorrect == Spec => []TypeOK
<1>1. Init => Types
  BY InitTypes
<1>2. FetchInv /\ Types /\ [Next]_vars => Types'
  BY TypesKept DEF FetchInv
<1>3. FetchInv /\ Types => TypeOK
  BY TypesAreTypes DEF FetchInv
<1>. QED BY <1>1, <1>2, <1>3, FetchInvariant, PTL DEF Spec

-----------------------------------------------------------------------------
(* What a run that has told nothing knows. While it lists: every repository  *)
(* it is through with was fetched whole, and of the one it is at the pages   *)
(* before the next.                                                          *)
ListedSoFar ==
  /\ pc = "discover" => left = Own /\ repo = None
  /\ pc = "store" => left = {} /\ repo = None
  /\ pc \in {"discover", "list", "store"} /\ told = {} =>
       /\ \A r \in Own : r \in left \/ r = repo \/ Listed(r) \subseteq got
       /\ repo # None => \A i \in DOMAIN listing[repo] : i < page => listing[repo][i] \subseteq got

(* Afterwards: all of it is stored. *)
AllStored ==
  pc \in {"query", "review", "ingest", "done"} /\ told = {} =>
    \A r \in Own : Listed(r) \subseteq stored

(* And every pull request looked at has its reviewers, or is still to do. *)
AllReviewed ==
  /\ forced /\ pc \in {"review", "ingest", "done"} => todo = stored
  /\ pc = "ingest" /\ told = {} => \A p \in todo : outcome[p] \in Over \/ rows[p] = Reviews[p]
  /\ pc = "done" /\ told = {} => \A p \in todo : rows[p] = Reviews[p]

Accounted == ListedSoFar /\ AllStored /\ AllReviewed

LEMMA ListKeepsListed == ASSUME Types, ListedSoFar, List PROVE ListedSoFar'
<1>1. listing' = listing /\ left' = left /\ pc' = pc /\ pc = "list" /\ repo # None
  BY DEF List, db
<1>2. /\ Len(listing[repo]) \in Nat /\ DOMAIN listing[repo] = 1..Len(listing[repo])
      /\ page \in Nat
  <2>1. listing[repo] \in Seq(SUBSET PRs)
    BY <1>1, PullFacts DEF Types, DataType, WalkType
  <2>2. page \in Nat
    BY DEF Types, WalkType
  <2>. QED BY <2>1, <2>2
<1>3. CASE UNCHANGED <<repo, page, got, told>>
  BY <1>1, <1>3 DEF ListedSoFar, Listed
<1>4. CASE LosePage
  BY <1>1, <1>4 DEF LosePage, ListedSoFar
<1>5. CASE TakePage
  <2>. SUFFICES ASSUME told' = {} PROVE ListedSoFar'
    BY <1>1 DEF ListedSoFar
  <2>1. told = {}
    BY <1>5 DEF TakePage
  <2>2. got \subseteq got'
    BY <1>5 DEF TakePage
  <2>3. \A i \in DOMAIN listing[repo] : i <= page => listing[repo][i] \subseteq got'
    <3>1. \A i \in DOMAIN listing[repo] : i < page => listing[repo][i] \subseteq got'
      BY <1>1, <2>1, <2>2 DEF ListedSoFar
    <3>2. page \in DOMAIN listing[repo] => listing[repo][page] \subseteq got'
      BY <1>5 DEF TakePage
    <3>. QED BY <3>1, <3>2, <1>2
  <2>4. \A r \in Own : r \in left \/ r = repo \/ Listed(r) \subseteq got'
    BY <1>1, <2>1, <2>2 DEF ListedSoFar
  <2>5. CASE page >= Len(listing[repo])
    <3>1. repo' = None
      BY <1>5, <2>5 DEF TakePage, LeaveRepo
    <3>2. Listed(repo) \subseteq got'
      BY <2>3, <2>5, <1>2 DEF Listed, Range
    <3>. QED BY <1>1, <3>1, <3>2, <2>4 DEF ListedSoFar, Listed
  <2>6. CASE ~(page >= Len(listing[repo]))
    <3>1. repo' = repo /\ page' = page + 1
      BY <1>5, <2>6 DEF TakePage
    <3>2. \A i \in DOMAIN listing[repo] : i < page' => listing[repo][i] \subseteq got'
      BY <2>3, <3>1, <1>2
    <3>. QED BY <1>1, <3>1, <3>2, <2>4 DEF ListedSoFar, Listed
  <2>. QED BY <2>5, <2>6
<1>. QED BY <1>3, <1>4, <1>5 DEF List

LEMMA ListingIsKept ==
  ASSUME Types, ListedSoFar, [Next]_vars
  PROVE  ListedSoFar'
<1>1. CASE UNCHANGED vars
  BY <1>1 DEF vars, db, walk, ListedSoFar, Listed
<1>2. CASE Discover
  <2>1. left' \in {Own, Own \union Org} \/ left' = left
    BY <1>2 DEF Discover
  <2>2. Own \subseteq left'
    BY <1>2, <2>1 DEF Discover, ListedSoFar
  <2>3. repo' = None /\ pc' # "store" /\ (pc' = "discover" => left' = Own)
    BY <1>2 DEF Discover, ListedSoFar
  <2>. QED BY <2>2, <2>3 DEF ListedSoFar
<1>3. CASE NextRepo
  <2>1. got' = got /\ told' = told /\ listing' = listing /\ page' = 1 /\ repo = None /\ pc = "list"
    BY <1>3 DEF NextRepo, db
  <2>2. CASE left = {}
    BY <1>3, <2>1, <2>2, PullFacts DEF NextRepo, ListedSoFar, Listed
  <2>3. ASSUME NEW r \in left, repo' = r, left' = left \ {r}, pc' = pc PROVE ListedSoFar'
    <3>1. repo' # None /\ listing[r] \in Seq(SUBSET PRs)
      BY <2>3, PullFacts DEF Types, WalkType, DataType
    <3>2. \A i \in DOMAIN listing[r] : ~(i < 1)
      BY <3>1
    <3>. QED BY <2>1, <2>3, <3>1, <3>2, PullFacts DEF ListedSoFar, Listed
  <2>. QED BY <1>3, <2>2, <2>3 DEF NextRepo
<1>4. CASE List
  BY <1>4, ListKeepsListed
<1>5. ASSUME NEW force \in BOOLEAN, NEW discover \in BOOLEAN, Start(force, discover)
      PROVE  ListedSoFar'
  BY <1>5 DEF Start, ListedSoFar
<1>6. CASE Store \/ Query \/ StartIngest \/ Finish \/ Die
  <2>1. pc' \notin {"discover", "list", "store"}
    BY <1>6 DEF Store, Query, StartIngest, Finish, Die
  <2>. QED BY <2>1 DEF ListedSoFar
<1>7. ASSUME NEW c \in Calls, Fetch(c) \/ Fetched(c) PROVE ListedSoFar'
  <2>1. pc' \notin {"discover", "list", "store"}
    BY <1>7 DEF Fetch, Fetched
  <2>. QED BY <2>1 DEF ListedSoFar
<1>8. ASSUME NEW c \in Calls, GitHub(c) PROVE ListedSoFar'
  BY <1>8 DEF GitHub, db, walk, ListedSoFar, Listed
<1>9. ASSUME NEW p \in PRs, NEW kept \in 0..Reviews[p], Ingest(p, kept) PROVE ListedSoFar'
  <2>1. pc' \notin {"discover", "list", "store"}
    BY <1>9 DEF Ingest
  <2>. QED BY <2>1 DEF ListedSoFar
<1>. QED BY <1>1, <1>2, <1>3, <1>4, <1>5, <1>6, <1>7, <1>8, <1>9 DEF Next, RunStep

LEMMA StoredIsKept ==
  ASSUME Types, ListedSoFar, AllStored, [Next]_vars
  PROVE  AllStored'
<1>1. CASE UNCHANGED vars
  BY <1>1 DEF vars, db, AllStored, Listed
<1>2. CASE Store
  <2>. SUFFICES ASSUME told' = {}, NEW r \in Own PROVE Listed(r)' \subseteq stored'
    BY <1>2 DEF AllStored, Store
  <2>1. told = {} /\ stored' = stored \union got /\ listing' = listing
    BY <1>2 DEF Store
  <2>2. Listed(r) \subseteq got
    BY <1>2, <2>1, PullFacts DEF Store, ListedSoFar
  <2>. QED BY <2>1, <2>2 DEF Listed
<1>3. CASE Discover \/ NextRepo \/ List \/ Die
  <2>1. pc' \notin {"query", "review", "ingest", "done"}
    BY <1>3 DEF Discover, NextRepo, List, Die
  <2>. QED BY <2>1 DEF AllStored
<1>4. ASSUME NEW force \in BOOLEAN, NEW discover \in BOOLEAN, Start(force, discover)
      PROVE  AllStored'
  <2>1. pc' \notin {"query", "review", "ingest", "done"}
    BY <1>4 DEF Start
  <2>. QED BY <2>1 DEF AllStored
<1>5. CASE Query \/ StartIngest \/ Finish
  <2>1. stored' = stored /\ listing' = listing /\ (told' = {} => told = {})
    BY <1>5 DEF Query, StartIngest, Finish, db
  <2>2. pc \in {"query", "review", "ingest", "done"}
    BY <1>5 DEF Query, StartIngest, Finish
  <2>. QED BY <2>1, <2>2 DEF AllStored, Listed
<1>6. ASSUME NEW c \in Calls, Fetch(c) \/ Fetched(c) \/ GitHub(c) PROVE AllStored'
  BY <1>6 DEF Fetch, Fetched, GitHub, db, AllStored, Listed
<1>7. ASSUME NEW p \in PRs, NEW kept \in 0..Reviews[p], Ingest(p, kept) PROVE AllStored'
  <2>1. stored' = stored /\ listing' = listing /\ (told' = {} => told = {})
    BY <1>7 DEF Ingest
  <2>. QED BY <1>7, <2>1 DEF Ingest, AllStored, Listed
<1>. QED BY <1>1, <1>2, <1>3, <1>4, <1>5, <1>6, <1>7 DEF Next, RunStep

LEMMA ReviewedIsKept ==
  ASSUME Types, AllReviewed, [Next]_vars
  PROVE  AllReviewed'
<1>1. CASE UNCHANGED vars
  BY <1>1 DEF vars, db, review, AllReviewed
<1>2. CASE Discover \/ NextRepo \/ List \/ Store \/ Die
  <2>1. pc' \notin {"review", "ingest", "done"}
    BY <1>2 DEF Discover, NextRepo, List, Store, Die
  <2>. QED BY <2>1 DEF AllReviewed
<1>3. ASSUME NEW force \in BOOLEAN, NEW discover \in BOOLEAN, Start(force, discover)
      PROVE  AllReviewed'
  <2>1. pc' \notin {"review", "ingest", "done"}
    BY <1>3 DEF Start
  <2>. QED BY <2>1 DEF AllReviewed
<1>4. CASE Query
  <2>1. pc' \in {"done", "review"} /\ (pc' = "done" => todo' = {})
    BY <1>4 DEF Query
  <2>2. forced' = forced /\ stored' = stored /\ (forced => todo' = stored)
    BY <1>4 DEF Query, Pending, db
  <2>. QED BY <2>1, <2>2 DEF AllReviewed
<1>5. ASSUME NEW c \in Calls, Fetch(c) \/ Fetched(c) PROVE AllReviewed'
  <2>1. pc = "review" /\ pc' = "review" /\ UNCHANGED <<forced, todo, stored>>
    BY <1>5 DEF Fetch, Fetched, db
  <2>. QED BY <2>1 DEF AllReviewed
<1>6. ASSUME NEW c \in Calls, GitHub(c) PROVE AllReviewed'
  BY <1>6 DEF GitHub, db, review, AllReviewed
<1>7. CASE StartIngest
  <2>1. \A p \in todo : outcome[p] \in Over
    BY <1>7 DEF StartIngest, Types, ReviewType
  <2>. QED BY <1>7, <2>1 DEF StartIngest, AllReviewed, db, review
<1>8. ASSUME NEW p \in PRs, NEW kept \in 0..Reviews[p], Ingest(p, kept) PROVE AllReviewed'
  <2>1. pc = "ingest" /\ pc' = "ingest" /\ UNCHANGED <<forced, todo, stored>>
    BY <1>8 DEF Ingest
  <2>. SUFFICES ASSUME told' = {}, NEW q \in todo
                PROVE  outcome'[q] \in Over \/ rows'[q] = Reviews[q]
    BY <2>1 DEF AllReviewed
  <2>2. told = {} /\ kept = Reviews[p]
    BY <1>8 DEF Ingest
  <2>3. q \in PRs
    BY DEF Types, ReviewType
  <2>4. CASE q = p
    BY <1>8, <2>2, <2>4, RowsStayBounded DEF Ingest, Types
  <2>5. CASE q # p
    <3>1. outcome'[q] = outcome[q]
      BY <1>8, <2>3, <2>5 DEF Ingest, Types, ReviewType
    <3>2. rows'[q] = rows[q]
      BY <1>8, <2>3, <2>5, RowsStayBounded DEF Ingest, Types
    <3>. QED BY <2>1, <2>2, <3>1, <3>2 DEF AllReviewed
  <2>. QED BY <2>4, <2>5
<1>9. CASE Finish
  <2>1. pc = "ingest" /\ pc' = "done" /\ UNCHANGED <<forced, todo, stored, rows>>
    BY <1>9 DEF Finish, db, review
  <2>. SUFFICES ASSUME told' = {}, NEW q \in todo PROVE rows[q] = Reviews[q]
    BY <2>1 DEF AllReviewed
  <2>2. told = {} /\ outcome[q] \notin Over
    BY <1>9 DEF Finish, Over
  <2>. QED BY <2>1, <2>2 DEF AllReviewed
<1>. QED BY <1>1, <1>2, <1>3, <1>4, <1>5, <1>6, <1>7, <1>8, <1>9 DEF Next, RunStep

(* A run that tells of nothing missing has collected it all. *)
THEOREM ShortfallsAreTold == Spec => []NoSilentShortfall
<1>1. Init => Types /\ Accounted
  <2>1. Init => pc = "idle"
    BY DEF Init
  <2>. QED BY InitTypes, <2>1 DEF Accounted, ListedSoFar, AllStored, AllReviewed
<1>2. FetchInv /\ Types /\ Accounted /\ [Next]_vars => Types' /\ Accounted'
  BY TypesKept, ListingIsKept, StoredIsKept, ReviewedIsKept DEF FetchInv, Accounted
<1>3. Accounted => NoSilentShortfall
  BY DEF Accounted, AllStored, AllReviewed, NoSilentShortfall
<1>. QED BY <1>1, <1>2, <1>3, FetchInvariant, PTL DEF Spec

=============================================================================
