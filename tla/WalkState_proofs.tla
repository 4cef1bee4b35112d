-------------------------- MODULE WalkState_proofs --------------------------
(***************************************************************************)
(* Theorems about the incremental walk, for every set of processes, every   *)
(* history and every configuration: its types, and that a skipped or a      *)
(* finished run leaves its whole scope stored.                              *)
(***************************************************************************)
EXTENDS WalkState, TLAPS

USE GraphAssumption, RefAssumption, ConfigAssumption

(* What a configuration is made of.                                         *)
LEMMA ConfigFields ==
  ASSUME NEW c \in Configs
  PROVE  /\ c.explicit \subseteq Names
         /\ c.branch \in Names \cup {None}
         /\ c.headOnly \in BOOLEAN
         /\ c.skipMerges \in BOOLEAN
         /\ WalkScope(c) \in Scope
  BY DEF Config, WalkScope, Scope

(* The tips read from a well-typed repository are well typed.               *)
LEMMA CurrentTipsType ==
  ASSUME TypeOK
  PROVE  CurrentTips \in Tips
  BY DEF TypeOK, CurrentTips, HeadSha, Tips, Refs

(* Whatever a configuration walks at well-typed tips is a set of commits.   *)
LEMMA InScopeType ==
  ASSUME NEW c \in Configs, NEW t,
         t.head \in Commits \cup {None},
         t.digest \in [Refs -> Commits \cup {None}]
  PROVE  Seeds(c, t) \subseteq Commits /\ InScope(c, t) \subseteq Commits
<1>1. SeedRefs(c) \subseteq Refs
  BY DEF SeedRefs, Refs
<1>. DEFINE pushed == {t.digest[r] : r \in SeedRefs(c)} \ {None}
<1>2. pushed \subseteq Commits
  BY <1>1
<1>3. Seeds(c, t) \subseteq Commits
  BY <1>2 DEF Seeds
<1>4. Reach(Seeds(c, t)) \subseteq Commits
  BY <1>3 DEF Reach
<1>. QED BY <1>3, <1>4 DEF InScope, Kept

-----------------------------------------------------------------------------
(* No step leaves the types: every failure, crash and ref move included.     *)
LEMMA TypeStep ==
  ASSUME TypeOK, [Next]_vars
  PROVE  TypeOK'
<1>. USE DEF TypeOK, Steps, Resting, Goto, repo, run
<1>1. ASSUME NEW p \in Procs, ReadTips(p) PROVE TypeOK'
  BY <1>1, CurrentTipsType DEF ReadTips, Tips
<1>2. ASSUME NEW p \in Procs, Plan(p) PROVE TypeOK'
  <2>1. PICK r \in {row, NoRow} :
          /\ Goto(p, IF Decision(r, p) = "skip" THEN "skipped" ELSE "mark")
          /\ hide' = [hide EXCEPT ![p] = IF Decision(r, p) = "incremental"
                                         THEN r.head ELSE None]
    BY <1>2 DEF Plan
  <2>2. r.head \in Commits \cup {None}
    BY DEF NoRow, Row
  <2>. QED BY <1>2, <2>1, <2>2 DEF Plan
<1>3. ASSUME NEW p \in Procs, MarkInFlight(p) PROVE TypeOK'
  <2>1. [row EXCEPT !.present = TRUE, !.complete = FALSE] \in Row
    BY DEF Row
  <2>. QED BY <1>3, <2>1 DEF MarkInFlight
<1>4. ASSUME NEW p \in Procs, SeedWalk(p) PROVE TypeOK'
  <2>1. /\ CurrentTips.head \in Commits \cup {None}
        /\ CurrentTips.digest \in [Refs -> Commits \cup {None}]
    BY DEF CurrentTips, HeadSha, Refs
  <2>2. cfg[p] \in Configs
    OBVIOUS
  <2>3. InScope(cfg[p], CurrentTips) \subseteq Commits
    BY <2>1, <2>2, InScopeType
  <2>4. CASE cfg[p].explicit = {} /\ Seeds(cfg[p], CurrentTips) = {}
    BY <1>4, <2>4 DEF SeedWalk, GiveUp, Tips
  <2>5. CASE ~(cfg[p].explicit = {} /\ Seeds(cfg[p], CurrentTips) = {})
    <3>1. todo' = [todo EXCEPT ![p] = InScope(cfg[p], CurrentTips)
                     \ (IF hide[p] = None THEN {} ELSE Anc[hide[p]])]
      BY <1>4, <2>5 DEF SeedWalk
    <3>2. todo' \in [Procs -> SUBSET Commits]
      BY <2>3, <3>1
    <3>. QED BY <1>4, <2>5, <3>2 DEF SeedWalk
  <2>. QED BY <2>4, <2>5
<1>5. ASSUME NEW p \in Procs, FinishWalk(p) PROVE TypeOK'
  BY <1>5 DEF FinishWalk
<1>6. ASSUME NEW p \in Procs, AbortWalk(p) PROVE TypeOK'
  BY <1>6 DEF AbortWalk, GiveUp, Tips
<1>7. ASSUME NEW p \in Procs, RecordComplete(p) PROVE TypeOK'
  <2>1. CASE UNCHANGED row
    BY <1>7, <2>1 DEF RecordComplete
  <2>2. CASE tips[p] # NoTips /\ row' = CompleteRow(tips[p], WalkScope(cfg[p]))
    <3>1. tips[p].head \in Commits \cup {None}
          /\ tips[p].digest \in [Refs -> Commits \cup {None}]
      BY <2>2 DEF Tips
    <3>2. WalkScope(cfg[p]) \in Scope
      BY ConfigFields
    <3>3. row' \in Row
      BY <2>2, <3>1, <3>2 DEF CompleteRow, Row
    <3>. QED BY <1>7, <3>3 DEF RecordComplete
  <2>. QED BY <1>7, <2>1, <2>2 DEF RecordComplete
<1>8. ASSUME NEW p \in Procs, Interrupt(p) PROVE TypeOK'
  BY <1>8 DEF Interrupt, GiveUp, Tips
<1>9. ASSUME NEW r \in Refs, NEW c \in Commits, Advance(r, c) PROVE TypeOK'
  BY <1>9 DEF Advance
<1>10. ASSUME NEW r \in Refs, NEW c \in Commits \cup {None}, Rewrite(r, c)
       PROVE  TypeOK'
  BY <1>10 DEF Rewrite
<1>11. ASSUME NEW h \in HeadTargets, Checkout(h) PROVE TypeOK'
  BY <1>11 DEF Checkout, HeadTargets
<1>12. CASE UNCHANGED vars
  BY <1>12 DEF vars
<1>. QED
  BY <1>1, <1>2, <1>3, <1>4, <1>5, <1>6, <1>7, <1>8, <1>9, <1>10, <1>11,
     <1>12 DEF Next, Collect

(* Every reachable state is well typed, whatever crashes, fails or moves.    *)
THEOREM TypeCorrect == Spec => []TypeOK
<1>1. Init => TypeOK
  BY DEF Init, TypeOK, NoRow, Row, Steps, Resting, Tips
<1>. QED BY <1>1, TypeStep, PTL DEF Spec

-----------------------------------------------------------------------------
(* A configuration that walks what HEAD names: no branch list, no override.  *)
LEMMA CoveringSeeds ==
  ASSUME CoveringAssumption, NEW c \in Configs
  PROVE  /\ c.explicit = {} /\ c.branch = None
         /\ SeedRefs(c) = IF c.headOnly THEN {} ELSE LocalRefs \cup OriginRefs
  BY DEF CoveringAssumption, SeedRefs

(* Two configurations of one scope key walk the same commits at given tips.  *)
LEMMA SameScope ==
  ASSUME CoveringAssumption, NEW c \in Configs, NEW d \in Configs, NEW t,
         NEW u, WalkScope(c) = WalkScope(d),
         t.head = u.head, t.digest = u.digest
  PROVE  InScope(c, t) = InScope(d, u)
<1>1. c.headOnly = d.headOnly /\ c.skipMerges = d.skipMerges
  BY DEF WalkScope
<1>2. SeedRefs(c) = SeedRefs(d)
  BY <1>1, CoveringSeeds
<1>3. {t.digest[r] : r \in SeedRefs(c)} = {u.digest[r] : r \in SeedRefs(d)}
  BY <1>2
<1>4. Seeds(c, t) = Seeds(d, u)
  BY <1>3, CoveringSeeds DEF Seeds
<1>. QED BY <1>1, <1>4 DEF InScope

(* The commit HEAD named is among what was walked, so once a scope is stored *)
(* the recorded HEAD is a base everything below which is stored.             *)
LEMMA HeadIsSeeded ==
  ASSUME CoveringAssumption, NEW c \in Configs, NEW t, t.head # None,
         \E r \in LocalRefs : t.digest[r] = t.head
  PROVE  Kept(c.skipMerges, Anc[t.head]) \subseteq InScope(c, t)
<1>1. t.head \in Seeds(c, t)
  <2>1. CASE c.headOnly
    BY <2>1, CoveringSeeds DEF Seeds
  <2>2. CASE ~c.headOnly
    <3>1. t.head \in {t.digest[r] : r \in SeedRefs(c)}
      BY <2>2, CoveringSeeds
    <3>. QED BY <3>1 DEF Seeds
  <2>. QED BY <2>1, <2>2
<1>2. Anc[t.head] \subseteq Reach(Seeds(c, t))
  BY <1>1 DEF Reach
<1>. QED BY <1>2 DEF InScope, Kept

(* A walk seeded from refs that only grew covers the scope of older tips.    *)
LEMMA GrownRefsCover ==
  ASSUME CoveringAssumption, TypeOK, NEW c \in Configs, NEW t,
         t.head # None => HeadSha # None /\ t.head \in Anc[HeadSha],
         t.head # None => \E r \in LocalRefs : t.digest[r] = t.head,
         \A r \in Refs : t.digest[r] # None =>
            refs[r] # None /\ t.digest[r] \in Anc[refs[r]]
  PROVE  InScope(c, t) \subseteq InScope(c, CurrentTips)
<1>. DEFINE now == CurrentTips
<1>0. now.head = HeadSha /\ now.digest = refs
  BY DEF CurrentTips
<1>1. ASSUME NEW s \in Seeds(c, t)
      PROVE  \E u \in Seeds(c, now) : u \in Commits /\ s \in Anc[u]
  <2>1. CASE c.headOnly
    <3>1. s = t.head /\ s # None
      BY <1>1, <2>1, CoveringSeeds DEF Seeds
    <3>2. HeadSha \in Seeds(c, now)
      BY <2>1, <3>1, <1>0, CoveringSeeds DEF Seeds
    <3>3. HeadSha \in Commits
      BY <3>1 DEF HeadSha, TypeOK, Refs
    <3>. QED BY <3>1, <3>2, <3>3
  <2>2. CASE ~c.headOnly
    <3>1. PICK r \in LocalRefs \cup OriginRefs : s = t.digest[r] /\ s # None
      BY <1>1, <2>2, CoveringSeeds DEF Seeds
    <3>2. refs[r] # None /\ s \in Anc[refs[r]] /\ refs[r] \in Commits
      BY <3>1 DEF Refs, TypeOK
    <3>3. refs[r] \in {now.digest[q] : q \in SeedRefs(c)} \ {None}
      BY <2>2, <3>1, <3>2, <1>0, CoveringSeeds
    <3>4. refs[r] \in Seeds(c, now)
      BY <3>3 DEF Seeds
    <3>. QED BY <3>2, <3>4
  <2>. QED BY <2>1, <2>2
<1>2. Reach(Seeds(c, t)) \subseteq Reach(Seeds(c, now))
  BY <1>1 DEF Reach
<1>. QED BY <1>2 DEF InScope, Kept

-----------------------------------------------------------------------------
(* What the invariant says of one run.                                       *)
RunInv(p) ==
  /\ TipsOnlyAge(p)
  /\ HeadOnBranch(p)
  /\ WalkCovers(p)
  /\ pc[p] \in {"mark", "seed"} /\ hide[p] # None
       => Kept(cfg[p].skipMerges, Anc[hide[p]]) \subseteq stored
  /\ pc[p] = "skipped" => InScope(cfg[p], tips[p]) \subseteq stored
  /\ pc[p] = "done" /\ tips[p] # NoTips
       => InScope(cfg[p], tips[p]) \subseteq stored

(* The inductive invariant, run by run.                                      *)
LEMMA IInvSplit ==
  IInv <=> /\ TypeOK /\ head \in LocalRefs
           /\ RowIsSound /\ InFlightKeepsGoodBase
           /\ \A p \in Procs : RunInv(p)
  BY DEF IInv, RunInv, HiddenIsRecorded, SkipIsSound, DoneIsComplete

(* And back, after a step.                                                   *)
LEMMA IInvJoin ==
  ASSUME TypeOK', head' \in LocalRefs, RowIsSound', InFlightKeepsGoodBase',
         \A p \in Procs : RunInv(p)'
  PROVE  IInv'
  BY DEF IInv, RunInv, HiddenIsRecorded, SkipIsSound, DoneIsComplete

(* A run keeps what it knows while another process works: only the database  *)
(* grew, and the refs stand still or move forward.                           *)
LEMMA Bystander ==
  ASSUME TypeOK, NEW q \in Procs, RunInv(q),
         pc'[q] = pc[q], cfg'[q] = cfg[q], tips'[q] = tips[q],
         hide'[q] = hide[q], todo'[q] = todo[q],
         UNCHANGED repo, stored \subseteq stored'
  PROVE  RunInv(q)'
<1>1. TipsOnlyAge(q)'
  BY DEF RunInv, TipsOnlyAge, repo, HeadSha
<1>2. HeadOnBranch(q)'
  BY DEF RunInv, HeadOnBranch
<1>3. WalkCovers(q)'
  BY DEF RunInv, WalkCovers
<1>. QED BY <1>1, <1>2, <1>3 DEF RunInv

(* The row stays sound when it is left alone or only marked in flight.       *)
LEMMA RowKept ==
  ASSUME RowIsSound, InFlightKeepsGoodBase, stored \subseteq stored',
         row' = row
  PROVE  RowIsSound' /\ InFlightKeepsGoodBase'
  BY DEF RowIsSound, InFlightKeepsGoodBase

(* A tip a walk has covered may be recorded.                                 *)
LEMMA RecordSound ==
  ASSUME CoveringAssumption, TypeOK, NEW p \in Procs, RunInv(p),
         pc[p] = "record", tips[p] # NoTips,
         row' = CompleteRow(tips[p], WalkScope(cfg[p])), stored' = stored
  PROVE  RowIsSound' /\ InFlightKeepsGoodBase'
<1>. DEFINE t == tips[p]
<1>1. /\ row'.head = t.head /\ row'.digest = t.digest
      /\ row'.scope = WalkScope(cfg[p])
  BY DEF CompleteRow
<1>2. cfg[p] \in Configs /\ InScope(cfg[p], t) \subseteq stored
  BY DEF TypeOK, RunInv, WalkCovers
<1>3. ASSUME NEW c \in Configs, WalkScope(c) = row'.scope
      PROVE  InScope(c, row') \subseteq stored'
  BY <1>1, <1>2, <1>3, SameScope
<1>4. ASSUME row'.head # None
      PROVE  Kept(row'.scope.skipMerges, Anc[row'.head]) \subseteq stored'
  <2>1. Kept(cfg[p].skipMerges, Anc[t.head]) \subseteq InScope(cfg[p], t)
    BY <1>1, <1>2, <1>4, HeadIsSeeded DEF RunInv, HeadOnBranch
  <2>2. row'.scope.skipMerges = cfg[p].skipMerges
    BY <1>1 DEF WalkScope
  <2>. QED BY <1>1, <1>2, <2>1, <2>2
<1>. QED BY <1>3, <1>4 DEF RowIsSound, InFlightKeepsGoodBase

-----------------------------------------------------------------------------
(* A row a run compares its tips with and plans from keeps its promises.     *)
LEMMA PlanSound ==
  ASSUME CoveringAssumption, IInv, NEW p \in Procs, pc[p] = "plan",
         NEW r \in {row, NoRow}
  PROVE  /\ Decision(r, p) = "skip" => InScope(cfg[p], tips[p]) \subseteq stored
         /\ Decision(r, p) = "incremental" /\ r.head # None
              => Kept(cfg[p].skipMerges, Anc[r.head]) \subseteq stored
<1>1. ASSUME Decision(r, p) \in {"skip", "incremental"}
      PROVE  Comparable(r, p)
  BY <1>1 DEF Decision
<1>2. ASSUME Comparable(r, p)
      PROVE  r = row /\ row.present /\ row.complete /\ row.scope = WalkScope(cfg[p])
  BY <1>2 DEF Comparable, NoRow
<1>3. cfg[p] \in Configs
  BY DEF IInv, TypeOK
<1>4. ASSUME Decision(r, p) = "skip"
      PROVE  InScope(cfg[p], tips[p]) \subseteq stored
  <2>1. Unchanged(r, p)
    BY <1>4 DEF Decision
  <2>2. InScope(cfg[p], row) \subseteq stored
    BY <1>1, <1>2, <1>3, <1>4 DEF IInv, RowIsSound
  <2>3. InScope(cfg[p], row) = InScope(cfg[p], tips[p])
    BY <1>1, <1>2, <1>3, <1>4, <2>1, SameScope DEF Unchanged
  <2>. QED BY <2>2, <2>3
<1>5. ASSUME Decision(r, p) = "incremental", r.head # None
      PROVE  Kept(cfg[p].skipMerges, Anc[r.head]) \subseteq stored
  BY <1>1, <1>2, <1>5 DEF IInv, InFlightKeepsGoodBase, WalkScope
<1>. QED BY <1>4, <1>5

(* What a freshly seeded walk will write, with what is stored, covers the    *)
(* scope of the tips the run read.                                           *)
LEMMA SeedSound ==
  ASSUME CoveringAssumption, IInv, NEW p \in Procs, pc[p] = "seed",
         tips[p] # NoTips
  PROVE  InScope(cfg[p], tips[p]) \subseteq
           stored \cup (InScope(cfg[p], CurrentTips)
                          \ (IF hide[p] = None THEN {} ELSE Anc[hide[p]]))
<1>. DEFINE here == InScope(cfg[p], CurrentTips)
<1>1. cfg[p] \in Configs /\ RunInv(p) /\ TypeOK
  BY IInvSplit DEF TypeOK
<1>2. InScope(cfg[p], tips[p]) \subseteq here
  BY <1>1, GrownRefsCover DEF RunInv, TipsOnlyAge, HeadOnBranch
<1>3. ASSUME hide[p] # None PROVE here \cap Anc[hide[p]] \subseteq stored
  BY <1>1, <1>3 DEF RunInv, InScope, Kept
<1>. QED BY <1>2, <1>3

(* Each step of a run keeps the invariant.                                   *)
LEMMA CollectStep ==
  ASSUME CoveringAssumption, IInv, NEW p \in Procs, Collect(p)
  PROVE  IInv'
<1>0. TypeOK' /\ TypeOK /\ RunInv(p) /\ cfg[p] \in Configs
  BY TypeStep, IInvSplit DEF Next, TypeOK
<1>1. head' \in LocalRefs /\ UNCHANGED repo /\ stored \subseteq stored'
  BY DEF IInv, Collect, ReadTips, Plan, MarkInFlight, SeedWalk, FinishWalk,
         AbortWalk, RecordComplete, Interrupt, repo
<1>2. ASSUME NEW q \in Procs, q # p PROVE RunInv(q)'
  <2>1. /\ pc'[q] = pc[q] /\ cfg'[q] = cfg[q] /\ tips'[q] = tips[q]
        /\ hide'[q] = hide[q] /\ todo'[q] = todo[q]
    BY <1>0, <1>2 DEF TypeOK, Collect, ReadTips, Plan, MarkInFlight, SeedWalk,
       FinishWalk, AbortWalk, RecordComplete, Interrupt, Goto, GiveUp
  <2>. QED BY <1>0, <1>1, <2>1, IInvSplit, Bystander
<1>. SUFFICES RunInv(p)' /\ RowIsSound' /\ InFlightKeepsGoodBase'
  BY <1>0, <1>1, <1>2, IInvJoin
<1>3. CASE ReadTips(p)
  <2>1. RowIsSound' /\ InFlightKeepsGoodBase'
    BY <1>1, <1>3, RowKept DEF ReadTips, IInv
  <2>2. pc'[p] = "plan" /\ (tips'[p] = NoTips \/ tips'[p] = CurrentTips)
    BY <1>0, <1>3 DEF ReadTips, Goto, TypeOK
  <2>3. ASSUME tips'[p] = CurrentTips
        PROVE  TipsOnlyAge(p)' /\ HeadOnBranch(p)'
    <3>1. CurrentTips.head = refs[head] /\ CurrentTips.digest = refs
      BY DEF CurrentTips, HeadSha, IInv
    <3>2. HeadSha' = refs[head] /\ refs' = refs
      BY <1>1 DEF HeadSha, repo, IInv
    <3>. QED BY <1>0, <2>3, <3>1, <3>2
             DEF TipsOnlyAge, HeadOnBranch, IInv, TypeOK, Refs
  <2>4. ASSUME tips'[p] = NoTips
        PROVE  TipsOnlyAge(p)' /\ HeadOnBranch(p)'
    BY <2>4 DEF TipsOnlyAge, HeadOnBranch
  <2>. QED BY <2>1, <2>2, <2>3, <2>4 DEF RunInv, WalkCovers
<1>4. CASE Plan(p)
  <2>1. RowIsSound' /\ InFlightKeepsGoodBase'
    BY <1>1, <1>4, RowKept DEF Plan, IInv
  <2>2. PICK r \in {row, NoRow} :
          /\ Goto(p, IF Decision(r, p) = "skip" THEN "skipped" ELSE "mark")
          /\ hide' = [hide EXCEPT ![p] = IF Decision(r, p) = "incremental"
                                         THEN r.head ELSE None]
    BY <1>4 DEF Plan
  <2>3. /\ pc'[p] = IF Decision(r, p) = "skip" THEN "skipped" ELSE "mark"
        /\ hide'[p] = IF Decision(r, p) = "incremental" THEN r.head ELSE None
        /\ cfg' = cfg /\ tips' = tips /\ stored' = stored /\ pc[p] = "plan"
    BY <1>0, <1>4, <2>2 DEF Plan, Goto, TypeOK
  <2>4. TipsOnlyAge(p)' /\ HeadOnBranch(p)' /\ WalkCovers(p)'
    BY <1>0, <1>1, <2>3
       DEF RunInv, TipsOnlyAge, HeadOnBranch, WalkCovers, HeadSha, repo
  <2>. QED BY <2>1, <2>3, <2>4, PlanSound DEF RunInv
<1>5. CASE MarkInFlight(p)
  <2>1. RowIsSound' /\ InFlightKeepsGoodBase'
    <3>1. CASE row' = row
      BY <1>1, <1>5, <3>1, RowKept DEF IInv
    <3>2. CASE row' = [row EXCEPT !.present = TRUE, !.complete = FALSE]
      <4>1. /\ row'.complete = FALSE /\ row'.head = row.head
            /\ row'.scope = row.scope
        BY <1>0, <3>2 DEF TypeOK, Row
      <4>. QED BY <1>1, <4>1
               DEF RowIsSound, InFlightKeepsGoodBase, IInv
    <3>. QED BY <1>5, <3>1, <3>2 DEF MarkInFlight
  <2>2. pc[p] = "mark" /\ pc'[p] = "seed" /\ UNCHANGED <<cfg, tips, hide, stored>>
    BY <1>0, <1>5 DEF MarkInFlight, Goto, TypeOK
  <2>. QED BY <1>0, <1>1, <2>1, <2>2
           DEF RunInv, TipsOnlyAge, HeadOnBranch, WalkCovers, HeadSha, repo
<1>6. CASE SeedWalk(p)
  <2>1. RowIsSound' /\ InFlightKeepsGoodBase'
    BY <1>1, <1>6, RowKept DEF SeedWalk, IInv
  <2>2. CASE cfg[p].explicit = {} /\ Seeds(cfg[p], CurrentTips) = {}
    <3>1. pc'[p] = "idle" /\ tips'[p] = NoTips
      BY <1>0, <1>6, <2>2 DEF SeedWalk, GiveUp, Goto, TypeOK
    <3>. QED BY <2>1, <3>1
             DEF RunInv, TipsOnlyAge, HeadOnBranch, WalkCovers
  <2>3. CASE ~(cfg[p].explicit = {} /\ Seeds(cfg[p], CurrentTips) = {})
    <3>1. /\ pc[p] = "seed" /\ pc'[p] = "walking"
          /\ UNCHANGED <<cfg, tips, stored>>
          /\ todo'[p] = InScope(cfg[p], CurrentTips)
                          \ (IF hide[p] = None THEN {} ELSE Anc[hide[p]])
      BY <1>0, <1>6, <2>3 DEF SeedWalk, Goto, TypeOK
    <3>2. HeadOnBranch(p)' /\ TipsOnlyAge(p)'
      BY <1>0, <3>1 DEF RunInv, TipsOnlyAge, HeadOnBranch
    <3>3. WalkCovers(p)'
      BY <3>1, SeedSound DEF WalkCovers
    <3>. QED BY <2>1, <3>1, <3>2, <3>3 DEF RunInv
  <2>. QED BY <2>2, <2>3
<1>7. CASE FinishWalk(p)
  <2>1. RowIsSound' /\ InFlightKeepsGoodBase'
    BY <1>1, <1>7, RowKept DEF FinishWalk, IInv
  <2>2. /\ pc[p] = "walking" /\ pc'[p] = "record" /\ UNCHANGED <<cfg, tips>>
        /\ stored' = stored \cup todo[p]
    BY <1>0, <1>7 DEF FinishWalk, Goto, TypeOK
  <2>. QED BY <1>0, <2>1, <2>2
           DEF RunInv, TipsOnlyAge, HeadOnBranch, WalkCovers
<1>8. CASE RecordComplete(p)
  <2>1. pc[p] = "record" /\ pc'[p] = "done" /\ UNCHANGED <<cfg, tips, stored>>
    BY <1>0, <1>8 DEF RecordComplete, Goto, TypeOK
  <2>2. RowIsSound' /\ InFlightKeepsGoodBase'
    <3>1. CASE row' = row
      BY <1>1, <3>1, RowKept DEF IInv
    <3>2. CASE tips[p] # NoTips /\ row' = CompleteRow(tips[p], WalkScope(cfg[p]))
      BY <1>0, <2>1, <3>2, RecordSound
    <3>. QED BY <1>8, <3>1, <3>2 DEF RecordComplete
  <2>. QED BY <1>0, <2>1, <2>2
           DEF RunInv, TipsOnlyAge, HeadOnBranch, WalkCovers
<1>9. CASE AbortWalk(p) \/ Interrupt(p)
  <2>1. RowIsSound' /\ InFlightKeepsGoodBase'
    BY <1>1, <1>9, RowKept DEF AbortWalk, Interrupt, IInv
  <2>2. pc'[p] = "idle" /\ tips'[p] = NoTips
    BY <1>0, <1>9 DEF AbortWalk, Interrupt, GiveUp, Goto, TypeOK
  <2>. QED BY <2>1, <2>2 DEF RunInv, TipsOnlyAge, HeadOnBranch, WalkCovers
<1>. QED BY <1>3, <1>4, <1>5, <1>6, <1>7, <1>8, <1>9 DEF Collect

(* A ref that moves forward keeps the invariant.                             *)
LEMMA AdvanceStep ==
  ASSUME IInv, NEW r \in Refs, NEW c \in Commits, Advance(r, c)
  PROVE  IInv'
<1>0. TypeOK' /\ TypeOK
  BY TypeStep DEF IInv, Next
<1>1. UNCHANGED <<head, stored, row, pc, cfg, tips, hide, todo>>
  BY DEF Advance, run
<1>2. RowIsSound' /\ InFlightKeepsGoodBase'
  BY <1>1, RowKept DEF IInv
<1>3. \A q \in Refs : refs[q] # None =>
        refs'[q] \in Commits /\ refs'[q] # None /\ refs[q] \in Anc[refs'[q]]
  BY <1>0 DEF Advance, TypeOK
<1>4. ASSUME NEW p \in Procs PROVE RunInv(p)'
  <2>1. RunInv(p)
    BY IInvSplit
  <2>2. TipsOnlyAge(p)'
    <3>. SUFFICES ASSUME pc[p] \in {"plan", "mark", "seed"}, tips[p] # NoTips
                  PROVE  TipsOnlyAge(p)'
      BY <1>1 DEF TipsOnlyAge
    <3>1. ASSUME tips[p].head # None
          PROVE  HeadSha' # None /\ tips[p].head \in Anc[HeadSha']
      <4>1. HeadSha = refs[head] /\ HeadSha' = refs'[head] /\ head \in Refs
        BY <1>1 DEF HeadSha, IInv, Refs
      <4>2. refs[head] # None /\ tips[p].head \in Anc[refs[head]]
        BY <2>1, <3>1, <4>1 DEF RunInv, TipsOnlyAge
      <4>. QED BY <1>3, <4>1, <4>2
    <3>2. ASSUME NEW q \in Refs, tips[p].digest[q] # None
          PROVE  refs'[q] # None /\ tips[p].digest[q] \in Anc[refs'[q]]
      BY <1>3, <2>1, <3>2 DEF RunInv, TipsOnlyAge
    <3>. QED BY <1>1, <3>1, <3>2 DEF TipsOnlyAge
  <2>. QED BY <1>1, <2>1, <2>2 DEF RunInv, HeadOnBranch, WalkCovers
<1>. QED BY <1>0, <1>1, <1>2, <1>4, IInvJoin DEF IInv

(* Refs are only rewritten, and HEAD only switched, while nobody runs.        *)
LEMMA RewriteStep ==
  ASSUME CoveringAssumption, IInv,
         \/ \E r \in Refs, c \in Commits \cup {None} : Rewrite(r, c)
         \/ \E h \in HeadTargets : Checkout(h)
  PROVE  IInv'
<1>0. TypeOK' /\ TypeOK
  BY TypeStep DEF IInv, Next
<1>1. UNCHANGED <<stored, row, pc, cfg, tips, hide, todo>> /\ NobodyRuns
  BY DEF Rewrite, Checkout, run, CoveringAssumption
<1>2. head' \in LocalRefs
  BY DEF Rewrite, Checkout, HeadTargets, CoveringAssumption, IInv
<1>3. RowIsSound' /\ InFlightKeepsGoodBase'
  BY <1>1, RowKept DEF IInv
<1>4. ASSUME NEW p \in Procs PROVE RunInv(p)'
  <2>1. RunInv(p) /\ pc[p] \in Resting
    BY <1>1, IInvSplit DEF NobodyRuns
  <2>. QED BY <1>1, <2>1
           DEF RunInv, TipsOnlyAge, HeadOnBranch, WalkCovers, Resting
<1>. QED BY <1>0, <1>2, <1>3, <1>4, IInvJoin

(* The invariant holds in every reachable state.                             *)
LEMMA Invariance ==
  ASSUME CoveringAssumption
  PROVE  Spec => []IInv
<1>1. Init => IInv
  <2>. SUFFICES ASSUME Init PROVE IInv
    OBVIOUS
  <2>1. TypeOK
    BY DEF Init, TypeOK, NoRow, Row, Steps, Resting, Tips
  <2>2. \A p \in Procs : RunInv(p)
    BY DEF Init, RunInv, TipsOnlyAge, HeadOnBranch, WalkCovers
  <2>3. head \in LocalRefs /\ RowIsSound /\ InFlightKeepsGoodBase
    BY DEF Init, NoRow, RowIsSound, InFlightKeepsGoodBase
  <2>. QED BY <2>1, <2>2, <2>3, IInvSplit
<1>2. ASSUME IInv, [Next]_vars PROVE IInv'
  <2>1. CASE UNCHANGED vars
    <3>1. TypeOK' /\ UNCHANGED <<refs, head, stored, row, pc, cfg, tips, hide, todo>>
      BY <1>2, <2>1, TypeStep DEF vars, IInv
    <3>2. RowIsSound' /\ InFlightKeepsGoodBase' /\ head' \in LocalRefs
      BY <1>2, <3>1, RowKept DEF IInv
    <3>3. \A p \in Procs : RunInv(p)'
      BY <1>2, <3>1, IInvSplit, Bystander DEF repo
    <3>. QED BY <3>1, <3>2, <3>3, IInvJoin
  <2>. QED BY <1>2, <2>1, CollectStep, AdvanceStep, RewriteStep DEF Next
<1>. QED BY <1>1, <1>2, PTL DEF Spec

(* A run that skipped, and a run that walked and returned Ok, has every      *)
(* commit of its scope at the tips it read stored, whatever runs crashed,    *)
(* aborted or raced before, as long as every configuration walks what HEAD   *)
(* names and refs only move forward while a run works.                       *)
THEOREM NoCommitIsMissed ==
  ASSUME CoveringAssumption
  PROVE  Spec => [](SkipIsSound /\ DoneIsComplete)
<1>1. IInv => SkipIsSound /\ DoneIsComplete
  BY DEF IInv
<1>. QED BY <1>1, Invariance, PTL

(* What an incremental walk hides is stored, under the same assumption.      *)
THEOREM HidingLosesNothing ==
  ASSUME CoveringAssumption
  PROVE  Spec => []HiddenIsRecorded
<1>1. IInv => HiddenIsRecorded
  BY DEF IInv
<1>. QED BY <1>1, Invariance, PTL

(* Marking a walk in flight never spoils the recorded base, nor does a crash *)
(* before the walk is recorded, under the same assumption.                   *)
THEOREM BasesStayGood ==
  ASSUME CoveringAssumption
  PROVE  Spec => []InFlightKeepsGoodBase
<1>1. IInv => InFlightKeepsGoodBase
  BY DEF IInv
<1>. QED BY <1>1, Invariance, PTL

-----------------------------------------------------------------------------
(* Every step changes at most one claim, and only to what is stored.         *)
LEMMA StepKeepsPromise ==
  ASSUME CoveringAssumption, IInv, [Next]_vars, IInv'
  PROVE  [Promise!Next]_(Promise!vars)
<1>0. TypeOK /\ TypeOK'
  BY DEF IInv
<1>1. ASSUME NEW p \in Procs, Collect(p)
      PROVE  [Promise!Next]_(Promise!vars)
  <2>1. ASSUME FinishWalk(p) \/ AbortWalk(p)
        PROVE  Promise!Store
    <3>1. stored \subseteq stored' /\ stored' \in SUBSET Commits
      BY <1>0, <2>1 DEF FinishWalk, AbortWalk, TypeOK
    <3>2. /\ pc[p] = "walking" /\ pc'[p] \in {"record", "idle"}
          /\ \A q \in Procs \ {p} :
               pc'[q] = pc[q] /\ cfg'[q] = cfg[q] /\ tips'[q] = tips[q]
      BY <1>0, <2>1 DEF FinishWalk, AbortWalk, GiveUp, Goto, TypeOK
    <3>3. Claimed' = Claimed
      BY <3>2 DEF Claimed
    <3>. QED BY <3>1, <3>3 DEF Promise!Store
  <2>2. ASSUME ~(FinishWalk(p) \/ AbortWalk(p))
        PROVE  \E S \in SUBSET Commits : Promise!Report(p, S)
    <3>1. /\ stored' = stored
          /\ \A q \in Procs \ {p} :
               pc'[q] = pc[q] /\ cfg'[q] = cfg[q] /\ tips'[q] = tips[q]
      BY <1>0, <1>1, <2>2
         DEF Collect, ReadTips, Plan, MarkInFlight, SeedWalk, RecordComplete,
             Interrupt, GiveUp, Goto, TypeOK
    <3>2. Claimed'[p] \subseteq stored'
      BY DEF Claimed, IInv, SkipIsSound, DoneIsComplete
    <3>3. Claimed' = [Claimed EXCEPT ![p] = Claimed'[p]]
      BY <3>1 DEF Claimed
    <3>4. Claimed'[p] \in SUBSET Commits
      BY <1>0, <3>2 DEF TypeOK
    <3>. QED BY <3>1, <3>2, <3>3, <3>4 DEF Promise!Report
  <2>. QED BY <1>1, <2>1, <2>2 DEF Promise!Next
<1>2. ASSUME \/ \E r \in Refs, c \in Commits : Advance(r, c)
             \/ \E r \in Refs, c \in Commits \cup {None} : Rewrite(r, c)
             \/ \E h \in HeadTargets : Checkout(h)
             \/ UNCHANGED vars
      PROVE  UNCHANGED (Promise!vars)
  <2>1. UNCHANGED <<stored, pc, cfg, tips>>
    BY <1>2 DEF Advance, Rewrite, Checkout, run, vars
  <2>. QED BY <2>1 DEF Promise!vars, Claimed
<1>. QED BY <1>1, <1>2 DEF Next

(* Collecting implements the abstract promise, under the same assumption.    *)
THEOREM ImplementsPromise ==
  ASSUME CoveringAssumption
  PROVE  Spec => KeepsPromise
<1>1. Init => Promise!Init
  BY DEF Init, Promise!Init, Claimed
<1>. QED BY <1>1, StepKeepsPromise, Invariance, PTL DEF Spec, KeepsPromise, Promise!Spec

=============================================================================
