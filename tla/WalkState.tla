------------------------------ MODULE WalkState ------------------------------
(***************************************************************************)
(* The unbounded collect path: a run reads the repository's ref tips, loads *)
(* the recorded walk state, plans to skip, to walk incrementally or to walk *)
(* in full, marks the walk in flight, walks, and records the tips it read.  *)
(* Runs of several processes share one extract database and one repository  *)
(* whose refs move under them; a run may crash or fail at every step.       *)
(***************************************************************************)
EXTENDS Naturals, FiniteSets

CONSTANTS
  Procs,            \* processes that run collect against one database
  Commits,          \* every commit the repository may ever hold
  Anc,              \* Anc[c]: c and its ancestors
  Merges,           \* the commits with more than one parent
  LocalRefs,        \* refs/heads/*
  OriginRefs,       \* refs/remotes/origin/*
  OtherRefs,        \* refs/remotes/* of another remote: digested, never walked
  Branch,           \* Branch[r]: the short branch name of ref r
  Configs,          \* the collector settings a run may be started with
  MayDetach,        \* whether HEAD may name a commit instead of a branch
  RewriteDuringRun, \* whether refs may lose commits while a run is working
  None              \* no commit: an unborn HEAD, a missing ref, a failed read

Refs == LocalRefs \cup OriginRefs \cup OtherRefs

ASSUME GraphAssumption ==
  /\ Anc \in [Commits -> SUBSET Commits]
  /\ \A c \in Commits : c \in Anc[c]
  /\ \A c \in Commits : \A a \in Anc[c] : Anc[a] \subseteq Anc[c]
  /\ None \notin Commits

ASSUME RefAssumption ==
  /\ LocalRefs \cap Commits = {}
  /\ LocalRefs # {}
  /\ None \notin LocalRefs
  /\ Branch \in [Refs -> {Branch[r] : r \in Refs}]

Names == {Branch[r] : r \in Refs}

Config == [explicit : SUBSET Names, branch : Names \cup {None},
           headOnly : BOOLEAN, skipMerges : BOOLEAN, force : BOOLEAN]

ASSUME ConfigAssumption ==
  /\ Configs \subseteq Config
  /\ MayDetach \in BOOLEAN
  /\ RewriteDuringRun \in BOOLEAN

VARIABLES
  refs,    \* refs[r]: the commit a ref names, or None when it does not exist
  head,    \* HEAD: a local ref, or a commit when detached
  stored,  \* the commits table
  row,     \* the repository's repo_walk_state row, or NoRow
  pc,      \* where each process stands in collect_unbounded
  cfg,     \* the settings of its run
  tips,    \* the WalkTips it read, or NoTips when the read failed
  hide,    \* the commit its walk hides, or None for a full walk
  todo     \* the commits its walk will write

vars == <<refs, head, stored, row, pc, cfg, tips, hide, todo>>
repo == <<refs, head>>
run  == <<pc, cfg, tips, hide, todo>>

-----------------------------------------------------------------------------
(* What a walk sees.                                                        *)

HeadSha == IF head \in Commits THEN head ELSE refs[head]

\* The digest covers every modelled ref, so it is the ref map itself.
CurrentTips == [head |-> HeadSha, digest |-> refs]

NoTips == [head |-> None, digest |-> None]

\* The comparable scope key: `--branch` names and the per-repo override are
\* merged into one list.
WalkScope(c) == [branches   |-> c.explicit \cup ({c.branch} \ {None}),
                 headOnly   |-> c.headOnly,
                 skipMerges |-> c.skipMerges]

Scope == [branches : SUBSET Names, headOnly : BOOLEAN, skipMerges : BOOLEAN]

\* The refs a walk pushes: the `--branch` list, the per-repo branch, or all.
SeedRefs(c) ==
  IF c.explicit # {}
  THEN {r \in LocalRefs \cup OriginRefs : Branch[r] \in c.explicit}
  ELSE IF c.branch # None
       THEN {r \in LocalRefs : Branch[r] = c.branch}
       ELSE IF c.headOnly THEN {} ELSE LocalRefs \cup OriginRefs

\* HEAD is pushed for head_only, and when the default scope finds no ref.
Seeds(c, t) ==
  LET pushed == {t.digest[r] : r \in SeedRefs(c)} \ {None}
  IN  IF c.explicit = {} /\ c.branch = None /\ pushed = {}
      THEN {t.head} \ {None}
      ELSE pushed

\* skip_merges drops merge commits before they are written.
Kept(skipMerges, S) == {c \in S : skipMerges => c \notin Merges}

Reach(S) == UNION {Anc[s] : s \in S}

\* The commits a full walk of configuration c at tips t writes.
InScope(c, t) == Kept(c.skipMerges, Reach(Seeds(c, t)))

-----------------------------------------------------------------------------
(* The recorded row and the plan.                                           *)

NoRow == [head |-> None, digest |-> None, scope |-> None, complete |-> FALSE,
          present |-> FALSE]

CompleteRow(t, s) ==
  [head |-> t.head, digest |-> t.digest, scope |-> s, complete |-> TRUE,
   present |-> TRUE]

\* base_is_reachable re-reads the tips: it judges against the HEAD of now.
BaseReachable(base) ==
  /\ base # None
  /\ HeadSha # None
  /\ base \in Anc[HeadSha]

\* Faulty variant: compares the row of a walk of another scope.
ComparableAnyScope(r, p) == r.present /\ r.complete

Comparable(r, p) ==
  /\ r.present
  /\ r.complete
  /\ r.scope = WalkScope(cfg[p])

\* Faulty variant: looks at HEAD only, blind to a side branch that moved.
UnchangedHead(r, p) == r.head = tips[p].head

Unchanged(r, p) == r.head = tips[p].head /\ r.digest = tips[p].digest

\* The decision of plan() over the row r a run loaded.
Decision(r, p) ==
  CASE cfg[p].force \/ tips[p] = NoTips \/ ~Comparable(r, p) -> "full"
    [] OTHER -> IF Unchanged(r, p) THEN "skip"
                ELSE IF BaseReachable(r.head) THEN "incremental" ELSE "full"

-----------------------------------------------------------------------------
Resting == {"idle", "skipped", "done"}

Init ==
  /\ refs \in [Refs -> Commits \cup {None}]
  /\ head \in LocalRefs
  /\ stored = {}
  /\ row = NoRow
  /\ pc = [p \in Procs |-> "idle"]
  /\ cfg \in [Procs -> Configs]
  /\ tips = [p \in Procs |-> NoTips]
  /\ hide = [p \in Procs |-> None]
  /\ todo = [p \in Procs |-> {}]

Goto(p, at) == pc' = [pc EXCEPT ![p] = at]

\* The run returns without an answer; its locals go with it.
GiveUp(p) ==
  /\ Goto(p, "idle")
  /\ tips' = [tips EXCEPT ![p] = NoTips]
  /\ hide' = [hide EXCEPT ![p] = None]
  /\ todo' = [todo EXCEPT ![p] = {}]
  /\ UNCHANGED cfg

\* A run starts with some settings and reads the tips; the read may fail.
ReadTips(p) ==
  /\ pc[p] \in Resting
  /\ Goto(p, "plan")
  /\ \E c \in Configs : cfg' = [cfg EXCEPT ![p] = c]
  /\ \E t \in {CurrentTips, NoTips} : tips' = [tips EXCEPT ![p] = t]
  /\ UNCHANGED <<repo, stored, row, hide, todo>>

\* The row is loaded and the plan made; a failed load reads as no row.
Plan(p) ==
  /\ pc[p] = "plan"
  /\ \E r \in {row, NoRow} :
       /\ Goto(p, IF Decision(r, p) = "skip" THEN "skipped" ELSE "mark")
       /\ hide' = [hide EXCEPT ![p] = IF Decision(r, p) = "incremental"
                                      THEN r.head ELSE None]
  /\ UNCHANGED <<repo, stored, row, cfg, tips, todo>>

\* Faulty variant: overwrites the base with tips nothing has walked yet.
MarkInFlightAtTips(p) ==
  /\ pc[p] = "mark"
  /\ Goto(p, "seed")
  /\ row' = [CompleteRow(tips[p], WalkScope(cfg[p])) EXCEPT !.complete = FALSE]
  /\ UNCHANGED <<repo, stored, cfg, tips, hide, todo>>

\* An upsert that keeps the last base; its failure is only logged.
MarkInFlight(p) ==
  /\ pc[p] = "mark"
  /\ Goto(p, "seed")
  /\ row' \in {row, [row EXCEPT !.present = TRUE, !.complete = FALSE]}
  /\ UNCHANGED <<repo, stored, cfg, tips, hide, todo>>

\* The revwalk is seeded from the refs of now and the base is hidden. Nothing
\* to push is an error except under `--branch`, which walks nothing and is Ok.
SeedWalk(p) ==
  /\ pc[p] = "seed"
  /\ IF cfg[p].explicit = {} /\ Seeds(cfg[p], CurrentTips) = {}
     THEN GiveUp(p)
     ELSE /\ Goto(p, "walking")
          /\ todo' = [todo EXCEPT ![p] =
               InScope(cfg[p], CurrentTips)
                 \ (IF hide[p] = None THEN {} ELSE Anc[hide[p]])]
          /\ UNCHANGED <<cfg, tips, hide>>
  /\ UNCHANGED <<repo, stored, row>>

\* The walk's transaction commits (INSERT OR IGNORE by sha).
FinishWalk(p) ==
  /\ pc[p] = "walking"
  /\ stored' = stored \cup todo[p]
  /\ Goto(p, "record")
  /\ todo' = [todo EXCEPT ![p] = {}]
  /\ hide' = [hide EXCEPT ![p] = None]
  /\ UNCHANGED <<repo, row, cfg, tips>>

\* Faulty variant: a walk that failed midway is recorded as complete.
AbortWalkAsDone(p) ==
  /\ pc[p] = "walking"
  /\ \E part \in SUBSET todo[p] : stored' = stored \cup part
  /\ Goto(p, "record")
  /\ todo' = [todo EXCEPT ![p] = {}]
  /\ hide' = [hide EXCEPT ![p] = None]
  /\ UNCHANGED <<repo, row, cfg, tips>>

\* The revwalk fails midway: what was written is committed, the run fails.
AbortWalk(p) ==
  /\ pc[p] = "walking"
  /\ \E part \in SUBSET todo[p] : stored' = stored \cup part
  /\ GiveUp(p)
  /\ UNCHANGED <<repo, row>>

\* record_complete writes the tips read before the walk; a failure is logged,
\* and without tips there is nothing to record.
RecordComplete(p) ==
  /\ pc[p] = "record"
  /\ Goto(p, "done")
  /\ \/ row' = row
     \/ /\ tips[p] # NoTips
        /\ row' = CompleteRow(tips[p], WalkScope(cfg[p]))
  /\ UNCHANGED <<repo, stored, cfg, tips, hide, todo>>

\* A kill, a crash, or an error that rolls the walk's transaction back.
Interrupt(p) ==
  /\ pc[p] \notin Resting
  /\ GiveUp(p)
  /\ UNCHANGED <<repo, stored, row>>

-----------------------------------------------------------------------------
(* The repository.                                                          *)

NobodyRuns == \A p \in Procs : pc[p] \in Resting

\* A commit, a push or a fetch moves a ref forward, or creates one.
Advance(r, c) ==
  /\ refs[r] = None \/ refs[r] \in Anc[c]
  /\ refs[r] # c
  /\ refs' = [refs EXCEPT ![r] = c]
  /\ UNCHANGED <<head, stored, row, run>>

\* A force-push, a reset, a deleted branch.
Rewrite(r, c) ==
  /\ RewriteDuringRun \/ NobodyRuns
  /\ refs' = [refs EXCEPT ![r] = c]
  /\ UNCHANGED <<head, stored, row, run>>

Checkout(h) ==
  /\ RewriteDuringRun \/ NobodyRuns
  /\ head' = h
  /\ UNCHANGED <<refs, stored, row, run>>

HeadTargets == LocalRefs \cup (IF MayDetach THEN Commits ELSE {})

Collect(p) ==
  \/ ReadTips(p) \/ Plan(p) \/ MarkInFlight(p) \/ SeedWalk(p)
  \/ FinishWalk(p) \/ AbortWalk(p) \/ RecordComplete(p) \/ Interrupt(p)

Next ==
  \/ \E p \in Procs : Collect(p)
  \/ \E r \in Refs, c \in Commits : Advance(r, c)
  \/ \E r \in Refs, c \in Commits \cup {None} : Rewrite(r, c)
  \/ \E h \in HeadTargets : Checkout(h)

Spec == Init /\ [][Next]_vars

-----------------------------------------------------------------------------
(* Properties.                                                              *)

Tips == [head : Commits \cup {None}, digest : [Refs -> Commits \cup {None}]]
          \cup {NoTips}

Row == [head : Commits \cup {None},
        digest : [Refs -> Commits \cup {None}] \cup {None},
        scope : Scope \cup {None}, complete : BOOLEAN, present : BOOLEAN]

Steps == Resting \cup {"plan", "mark", "seed", "walking", "record"}

\* Every variable holds a value of the type the code gives it.
TypeOK ==
  /\ refs \in [Refs -> Commits \cup {None}]
  /\ head \in LocalRefs \cup Commits
  /\ stored \subseteq Commits
  /\ row \in Row
  /\ pc \in [Procs -> Steps]
  /\ cfg \in [Procs -> Configs]
  /\ tips \in [Procs -> Tips]
  /\ hide \in [Procs -> Commits \cup {None}]
  /\ todo \in [Procs -> SUBSET Commits]

\* A run that skipped its walk had every commit of its scope at the tips it
\* read in the database already: the skip loses nothing (WalkTips' "no commit
\* is ever missed").
SkipIsSound ==
  \A p \in Procs :
    pc[p] = "skipped" => InScope(cfg[p], tips[p]) \subseteq stored

\* A run that walked and returned Ok has every commit of its scope at the tips
\* it read, however much history its incremental base hid.
DoneIsComplete ==
  \A p \in Procs :
    pc[p] = "done" /\ tips[p] # NoTips
      => InScope(cfg[p], tips[p]) \subseteq stored

\* What an incremental walk hides is already recorded (the comment at the
\* revwalk.hide call), whatever interrupted, aborted or concurrent run last
\* touched the row.
HiddenIsRecorded ==
  \A p \in Procs :
    pc[p] \in {"mark", "seed"} /\ hide[p] # None
      => Kept(cfg[p].skipMerges, Anc[hide[p]]) \subseteq stored

\* Once a row was recorded for a scope, the base it names stays a good base
\* while a later run is in flight or dies: marking in flight keeps the last
\* known-good base and never licenses a skip.
InFlightKeepsGoodBase ==
  row.head # None
    => Kept(row.scope.skipMerges, Anc[row.head]) \subseteq stored

\* What each process has reported current: the scope of a skipped or a
\* finished run at the tips that run compared or recorded.
Claimed ==
  [p \in Procs |->
     IF pc[p] = "skipped" \/ (pc[p] = "done" /\ tips[p] # NoTips)
     THEN InScope(cfg[p], tips[p]) ELSE {}]

Promise == INSTANCE CollectPromise WITH claimed <- Claimed

\* Collecting keeps the promise of CollectPromise: skips, incremental walks,
\* aborts, crashes and concurrent runs all look like a table that only grows
\* and reports that only claim what it holds.
KeepsPromise == Promise!Spec

-----------------------------------------------------------------------------
(* The inductive invariant behind the four properties. It holds when every  *)
(* configuration walks what HEAD names and refs only grow while a run works. *)

CoveringAssumption ==
  /\ \A c \in Configs : c.explicit = {} /\ c.branch = None
  /\ ~MayDetach
  /\ ~RewriteDuringRun

\* What the row claims: the scope it names is stored at the tips it names.
RowIsSound ==
  row.complete =>
    \A c \in Configs :
      WalkScope(c) = row.scope => InScope(c, row) \subseteq stored

\* Until its walk is seeded, the tips a run read only fall behind the refs.
TipsOnlyAge(p) ==
  pc[p] \in {"plan", "mark", "seed"} /\ tips[p] # NoTips =>
    /\ tips[p].head # None => HeadSha # None /\ tips[p].head \in Anc[HeadSha]
    /\ \A r \in Refs : tips[p].digest[r] # None =>
         refs[r] # None /\ tips[p].digest[r] \in Anc[refs[r]]

HeadOnBranch(p) ==
  tips[p] # NoTips /\ tips[p].head # None =>
    \E r \in LocalRefs : tips[p].digest[r] = tips[p].head

WalkCovers(p) ==
  tips[p] # NoTips =>
    /\ pc[p] = "walking" => InScope(cfg[p], tips[p]) \subseteq stored \cup todo[p]
    /\ pc[p] = "record"  => InScope(cfg[p], tips[p]) \subseteq stored

IInv ==
  /\ TypeOK
  /\ head \in LocalRefs
  /\ RowIsSound
  /\ InFlightKeepsGoodBase
  /\ HiddenIsRecorded
  /\ SkipIsSound
  /\ DoneIsComplete
  /\ \A p \in Procs : TipsOnlyAge(p) /\ HeadOnBranch(p) /\ WalkCovers(p)

=============================================================================
