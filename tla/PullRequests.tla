---------------------------- MODULE PullRequests ----------------------------
(***************************************************************************)
(* The GitHub stage of `tga collect`: org discovery finds repositories, the *)
(* pull requests of each are listed page by page and stored, and then the   *)
(* reviewers of those that have none are fetched, several at a time. All    *)
(* requests share the run's FetchBudget. A run may die anywhere; the next   *)
(* one starts with a new allowance over the same database.                  *)
(***************************************************************************)
EXTENDS FetchBudget, Sequences, Functions

CONSTANTS
  Own,        \* the repositories the configuration names
  Org,        \* those that only org discovery finds
  PRs,        \* pull requests
  Listings,   \* what GitHub may hold: per repository, its pull requests by page
  Reviews,    \* the reviews each pull request has on GitHub
  MaxPages,   \* PULLS_MAX_PAGES
  MaxFaults,  \* bad answers, failed writes and deaths (bounds the model)
  None

Repos == Own \union Org

ASSUME PullAssumption ==
  /\ Own # {}
  /\ Calls # {}
  /\ Listings \subseteq [Repos -> Seq(SUBSET PRs)]
  /\ Reviews \in [PRs -> Nat]
  /\ MaxPages \in Nat \ {0}
  /\ MaxFaults \in Nat
  /\ None \notin PRs \union Repos

VARIABLES
  listing,  \* the pull requests of each repository on GitHub, page by page
  stored,   \* the pull_requests rows
  rows,     \* the pr_reviewers rows of each pull request
  pc,       \* where the run stands
  forced,   \* whether it was given --force-refresh-prs
  left,     \* the repositories it has still to list
  repo,     \* the one it is listing
  page,     \* and the page it asks for next
  got,      \* the pull requests it has fetched
  told,     \* what it has reported as not collected
  todo,     \* the pull requests whose reviewers it fetches
  outcome,  \* what came of each of these
  working,  \* the pull request each call is about
  faults    \* bad answers, failed writes and deaths so far

db == <<listing, stored, rows>>
walk == <<left, repo, page, got>>
review == <<todo, outcome, working>>
vars == <<fetchVars, db, pc, forced, walk, told, review, faults>>

(* Discovery and the listings make one request at a time. *)
Main == CHOOSE c \in Calls : TRUE

(* Every pull request GitHub has in the repositories of the configuration. *)
Listed(r) == UNION Range(listing[r])

Init ==
  /\ FetchInit
  /\ listing \in Listings
  /\ stored = {}
  /\ rows = [p \in PRs |-> 0]
  /\ pc = "idle"
  /\ forced = FALSE
  /\ left = {}
  /\ repo = None
  /\ page = 1
  /\ got = {}
  /\ told = {}
  /\ todo = {}
  /\ outcome = [p \in PRs |-> "none"]
  /\ working = [c \in Calls |-> None]
  /\ faults = 0

Fault == faults < MaxFaults /\ faults' = faults + 1

-----------------------------------------------------------------------------
(* A run begins: with org discovery, if the configuration asks for it.       *)
Start(force, discover) ==
  /\ pc \in {"idle", "done"}
  /\ FetchReset
  /\ pc' = IF discover THEN "discover" ELSE "list"
  /\ forced' = force
  /\ left' = Own
  /\ repo' = None
  /\ page' = 1
  /\ got' = {}
  /\ told' = {}
  /\ todo' = {}
  /\ outcome' = [p \in PRs |-> "none"]
  /\ working' = [c \in Calls |-> None]
  /\ UNCHANGED <<db, faults>>

(* run_github_org_discovery: an org whose listing fails, for whatever        *)
(* reason, is warned about and contributes no repository.                    *)
Discover ==
  /\ pc = "discover"
  /\ \/ Enter(Main) /\ UNCHANGED <<pc, left>>
     \/ /\ Take(Main)
        /\ left' = IF phase[Main] = "answered" THEN Own \union Org ELSE Own
        /\ pc' = "list"
  /\ UNCHANGED <<db, forced, repo, page, got, told, review, faults>>

(* fetch_pull_requests turns to the next repository, or has done them all.   *)
NextRepo ==
  /\ pc = "list"
  /\ repo = None
  /\ IF left = {}
     THEN pc' = "store" /\ UNCHANGED <<left, repo>>
     ELSE \E r \in left : repo' = r /\ left' = left \ {r} /\ UNCHANGED pc
  /\ page' = 1
  /\ UNCHANGED <<fetchVars, db, forced, got, told, review, faults>>

(* The walk of this repository is over. *)
LeaveRepo == repo' = None /\ UNCHANGED page

(* A page is kept. A short one is the last, and past the page cap the walk   *)
(* stops with a notice.                                                      *)
TakePage ==
  /\ phase[Main] = "answered"
  /\ got' = got \union (IF page \in DOMAIN listing[repo] THEN listing[repo][page] ELSE {})
  /\ IF page >= Len(listing[repo])
     THEN LeaveRepo /\ UNCHANGED told
     ELSE IF page >= MaxPages
     THEN LeaveRepo /\ told' = told \union {repo}
     ELSE page' = page + 1 /\ UNCHANGED <<repo, told>>

\* Faulty variant: a rate limit is not a fault, and is not noted either.
FaultyLosePage ==
  /\ phase[Main] \in {"throttled", "failed"}
  /\ LeaveRepo
  /\ told' = IF phase[Main] = "failed" THEN told \union {repo} ELSE told
  /\ UNCHANGED got

(* A page that does not come ends the walk of this repository: a rate limit  *)
(* leaves a notice, anything else a fault, and earlier pages are kept.       *)
LosePage ==
  /\ phase[Main] \in {"throttled", "failed"}
  /\ LeaveRepo
  /\ told' = told \union {repo}
  /\ UNCHANGED got

List ==
  /\ pc = "list"
  /\ repo # None
  /\ \/ Enter(Main) /\ UNCHANGED <<repo, page, got, told>>
     \/ Take(Main) /\ (TakePage \/ LosePage)
  /\ UNCHANGED <<db, pc, forced, left, review, faults>>

(* store_pull_requests writes row by row; a write that fails loses the rest  *)
(* and fails the stage. The reviewer pass comes next either way.             *)
Store ==
  /\ pc = "store"
  /\ \/ stored' = stored \union got /\ UNCHANGED <<told, faults>>
     \/ /\ Fault
        /\ \E part \in SUBSET got : stored' = stored \union part
        /\ told' = told \union {"store"}
  /\ pc' = "query"
  /\ UNCHANGED <<fetchVars, listing, rows, forced, walk, review>>

-----------------------------------------------------------------------------
\* Faulty variant: only pull requests of this run's listing are looked at.
FaultyPending ==
  IF forced THEN stored ELSE {p \in stored \intersect got : rows[p] = 0}

(* The pull requests to fetch reviewers for: those with no reviewer row, or  *)
(* all of them when the refresh is forced.                                   *)
Pending == IF forced THEN stored ELSE {p \in stored : rows[p] = 0}

Query ==
  /\ pc = "query"
  /\ todo' = Pending
  /\ pc' = IF Pending = {} THEN "done" ELSE "review"
  /\ UNCHANGED <<fetchVars, db, forced, walk, told, outcome, working, faults>>

(* fetch_reviews keeps up to a call's worth of requests in flight each. *)
Fetch(c) ==
  /\ pc = "review"
  /\ working[c] = None
  /\ \E p \in todo \ Range(working) :
       outcome[p] = "none" /\ working' = [working EXCEPT ![c] = p]
  /\ Enter(c)
  /\ UNCHANGED <<db, pc, forced, walk, told, todo, outcome, faults>>

Fetched(c) ==
  /\ pc = "review"
  /\ working[c] # None
  /\ Take(c)
  /\ outcome' = [outcome EXCEPT ![working[c]] = phase[c]]
  /\ working' = [working EXCEPT ![c] = None]
  /\ UNCHANGED <<db, pc, forced, walk, told, todo, faults>>

(* Nothing is written before every request is over. *)
StartIngest ==
  /\ pc = "review"
  /\ \A p \in todo : outcome[p] # "none"
  /\ pc' = "ingest"
  /\ UNCHANGED <<fetchVars, db, forced, walk, told, review, faults>>

(* ingest_reviews: the rows of one pull request, of which each may fail on   *)
(* its own and is then reported; a refresh updates the rows already there.   *)
Ingest(p, kept) ==
  /\ pc = "ingest"
  /\ outcome[p] = "answered"
  /\ kept \in 0..Reviews[p]
  /\ rows' = [rows EXCEPT ![p] = IF @ > kept THEN @ ELSE kept]
  /\ outcome' = [outcome EXCEPT ![p] = "none"]
  /\ IF kept = Reviews[p]
     THEN UNCHANGED <<told, faults>>
     ELSE Fault /\ told' = told \union {p}
  /\ UNCHANGED <<fetchVars, listing, stored, pc, forced, walk, todo, working>>

(* What was rate-limited is reported once, and what failed as faults. *)
Finish ==
  /\ pc = "ingest"
  /\ \A p \in todo : outcome[p] # "answered"
  /\ told' = told \union {p \in todo : outcome[p] \in {"throttled", "failed"}}
  /\ pc' = "done"
  /\ UNCHANGED <<fetchVars, db, forced, walk, review, faults>>

-----------------------------------------------------------------------------
(* GitHub answers a request, well or badly, or a wait is over. *)
GitHub(c) ==
  /\ \/ Answer(c, "answered") /\ UNCHANGED faults
     \/ Trouble(c) /\ Fault
     \/ Wake(c) /\ UNCHANGED faults
  /\ UNCHANGED <<db, pc, forced, walk, told, review>>

(* The run is killed. A write it was at may have left part of its rows.      *)
Die ==
  /\ pc \notin {"idle", "done"}
  /\ Fault
  /\ pc' = "idle"
  /\ \/ UNCHANGED <<stored, rows>>
     \/ /\ pc = "store"
        /\ \E part \in SUBSET got : stored' = stored \union part
        /\ UNCHANGED rows
     \/ /\ pc = "ingest"
        /\ \E p \in PRs : \E kept \in 0..Reviews[p] :
             /\ outcome[p] = "answered"
             /\ rows' = [rows EXCEPT ![p] = IF @ > kept THEN @ ELSE kept]
        /\ UNCHANGED stored
  /\ FetchReset
  /\ left' = {}
  /\ repo' = None
  /\ page' = 1
  /\ got' = {}
  /\ told' = {}
  /\ todo' = {}
  /\ outcome' = [p \in PRs |-> "none"]
  /\ working' = [c \in Calls |-> None]
  /\ UNCHANGED <<listing, forced>>

RunStep ==
  \/ Discover
  \/ NextRepo
  \/ List
  \/ Store
  \/ Query
  \/ \E c \in Calls : Fetch(c) \/ Fetched(c) \/ GitHub(c)
  \/ StartIngest
  \/ \E p \in PRs : \E kept \in 0..Reviews[p] : Ingest(p, kept)
  \/ Finish

Next ==
  \/ RunStep
  \/ \E force, discover \in BOOLEAN : Start(force, discover)
  \/ Die

Spec == Init /\ [][Next]_vars

(* A run goes on, every request is answered in time or times out, and the    *)
(* operator runs `tga collect` again when a run has ended.                   *)
FairSpec ==
  /\ Spec
  /\ WF_vars(RunStep)
  /\ WF_vars(\E force, discover \in BOOLEAN : Start(force, discover))

-----------------------------------------------------------------------------
(* The types of the variables. *)
TypeOK ==
  /\ FetchType
  /\ listing \in Listings
  /\ stored \subseteq PRs
  /\ rows \in [PRs -> Nat]
  /\ \A p \in PRs : rows[p] <= Reviews[p]
  /\ pc \in {"idle", "discover", "list", "store", "query", "review", "ingest", "done"}
  /\ forced \in BOOLEAN
  /\ left \subseteq Repos
  /\ repo \in Repos \union {None}
  /\ page \in Nat \ {0}
  /\ got \subseteq PRs
  /\ told \subseteq Repos \union PRs \union {"store"}
  /\ todo \subseteq PRs
  /\ outcome \in [PRs -> {"none"} \union Over]
  /\ working \in [Calls -> PRs \union {None}]
  /\ faults \in 0..MaxFaults

(* A run that reports nothing missing stored every pull request of the       *)
(* configured repositories and every review of those whose reviewers it set  *)
(* out to fetch, which is all of them under a forced refresh: no page cap,   *)
(* rate limit or failed write goes unreported (#6084, #146, #200).           *)
NoSilentShortfall ==
  pc = "done" /\ told = {} =>
    /\ \A r \in Own : Listed(r) \subseteq stored
    /\ \A p \in IF forced THEN stored ELSE todo : rows[p] = Reviews[p]

(* The reviewer pass resumes: once the trouble stops, every stored pull      *)
(* request that was reviewed gets reviewer rows (#6553: "a later `tga        *)
(* collect` resumes at the pull requests this one never reached").           *)
EventuallyReviewed ==
  <>[](\A p \in stored : Reviews[p] > 0 => rows[p] > 0)

=============================================================================
