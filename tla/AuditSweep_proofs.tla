-------------------------- MODULE AuditSweep_proofs --------------------------
(***************************************************************************)
(* Theorems about the sweep, for any targets, in any order, and any number  *)
(* of failures, deaths and lost directories: what a re-run carries over is  *)
(* whole, what is saved is kept, and the chain's deliverable names all.     *)
(***************************************************************************)
EXTENDS AuditSweep, TLAPS

USE SweepAssumption

(* A function from some slots to verdicts is a set of entries. *)
LEMMA EntriesType ==
  ASSUME NEW S \in SUBSET Slots, NEW f \in [S -> {"ok", "failed"}]
  PROVE  f \in Entries
  BY DEF Entries

LEMMA EntriesDomain ==
  ASSUME NEW f \in Entries
  PROVE  DOMAIN f \subseteq Slots /\ f \in [DOMAIN f -> {"ok", "failed"}]
  BY DEF Entries

(* The slots of a selection made from a request are slots of the system. *)
LEMMA SlotsType ==
  ASSUME TypeOK
  PROVE  SlotsOf(selection) \subseteq Slots
  BY DEF TypeOK, SlotsOf, Slots

(* The directory of a slot is one of the system's.                           *)
LEMMA DirType ==
  ASSUME NEW s \in Slots
  PROVE  Dir(s) \in Dirs
<1>1. s[1] \in Indices /\ s[2] \in Repos
  BY DEF Slots
<1>2. Stem[s[2]] \in Range(Stem)
  BY <1>1 DEF Range, Repos
<1>. QED BY <1>1, <1>2 DEF Dir, Dirs

(* A slot that has its directory for itself is the only one there.           *)
LEMMA OwnDir ==
  ASSUME NEW s \in Slots, NEW t \in Slots, HasOwnDir(s), Dir(s) = Dir(t)
  PROVE  s = t
<1>1. s = <<s[1], s[2]>> /\ t = <<t[1], t[2]>> /\ t[2] \in Repos
  BY DEF Slots
<1>2. s[1] = t[1] /\ Stem[s[2]] = Stem[t[2]]
  BY DEF Dir
<1>3. t[2] = s[2]
  BY <1>1, <1>2 DEF HasOwnDir
<1>. QED BY <1>1, <1>2, <1>3

(* What an acquisition records is a list of usable targets of its request. *)
LEMMA AcquireType ==
  ASSUME NEW request \in Requests, NEW usable \in SUBSET Range(request),
         Acquire(request, usable)
  PROVE  /\ selection' \in Seq(Repos)
         /\ DOMAIN selection' \subseteq Indices
         /\ Range(selection') = usable
         /\ usable \subseteq Repos
         /\ Range(request) \subseteq Repos
<1>1. Range(request) \subseteq Repos /\ DOMAIN request \subseteq Indices
  BY DEF Repos, Indices
<1>2. PICK n \in DOMAIN request : selection' \in [1..n -> usable]
  BY DEF Acquire, Ordered
<1>3. DOMAIN request = 1..Len(request) /\ Len(request) \in Nat
  BY DEF Range
<1>4. n \in Nat /\ 1..n \subseteq DOMAIN request
  BY <1>3
<1>5. selection' \in [1..n -> Repos]
  BY <1>1, <1>2
<1>6. selection' \in Seq(Repos)
  BY <1>4, <1>5
<1>7. Range(selection') = usable
  BY DEF Acquire, Ordered
<1>. QED BY <1>1, <1>2, <1>4, <1>6, <1>7

-----------------------------------------------------------------------------
(* The steps in which the process works on the repository at `at`. *)
Working == {"decide", "child", "ground", "mark", "checkpoint"}

(* The steps after the plan is made. *)
Planned == Working \union {"finish", "package"}

(* The repositories of the selection settled so far: those carried over,     *)
(* those before `at`, and the one at `at` once its verdict is in.            *)
SettledSlots ==
  {<<i, selection[i]>> : i \in {j \in DOMAIN selection :
     \/ j \in carried
     \/ j < at
     \/ j = at /\ pc \in {"checkpoint", "finish", "package"}}}

(* Where the process stands, and what it has settled by then. *)
BookInv ==
  /\ pc = "begin" => 1 \in DOMAIN selection
  /\ pc \in Working => at \in DOMAIN selection
  /\ pc \in {"finish", "package"} => at = Len(selection)
  /\ pc \in {"child", "ground", "mark"} => at \notin carried
  /\ pc \in {"ground", "mark"} => result \in {"ok", "failed"}
  /\ pc \in Planned => carried \subseteq DOMAIN selection
  /\ pc \in Planned => DOMAIN runs = SettledSlots
  /\ pc = "package" => record.complete /\ record.entries = runs
  /\ IF pc = "idle" THEN gaps = {} ELSE wanted \subseteq Range(selection) \union gaps

(* At a working step the slot at hand is one of the selection's. *)
LEMMA HereType ==
  ASSUME TypeOK, BookInv, pc \in Working
  PROVE  Here \in Slots /\ Here \in SlotsOf(selection)
<1>1. at \in DOMAIN selection
  BY DEF BookInv
<1>. QED BY <1>1, SlotsType DEF Here, SlotsOf

(* The types that Ends restores. *)
LEMMA EndsType ==
  ASSUME Ends
  PROVE  /\ pc' = "idle" /\ chained' \in BOOLEAN /\ forced' \in BOOLEAN
         /\ carried' \subseteq Indices /\ runs' \in Entries
         /\ at' \in Indices \union {0} /\ result' \in {"none", "ok", "failed"}
         /\ wanted' \subseteq Repos /\ gaps' \subseteq Repos
<1>1. <<>> \in [{} -> {"ok", "failed"}]
  OBVIOUS
<1>. QED BY <1>1, EntriesType DEF Ends

(* No step leaves the types: every failure, death and deletion included. *)
LEMMA TypeStep ==
  ASSUME TypeOK, BookInv, [Next]_vars
  PROVE  TypeOK'
<1>1. ASSUME NEW request \in Requests, NEW usable \in SUBSET Range(request),
             Clone(request, usable)
      PROVE  TypeOK'
  BY <1>1, AcquireType DEF Clone, Acquire, TypeOK, process
<1>2. ASSUME NEW request \in Requests, NEW usable \in SUBSET Range(request),
             NEW fresh \in BOOLEAN, Materialize(request, usable, fresh)
      PROVE  TypeOK'
  <2>1. Acquire(request, usable)
    BY <1>2 DEF Materialize
  <2>2. /\ selection' \in Seq(Repos) /\ DOMAIN selection' \subseteq Indices
        /\ Range(request) \subseteq Repos /\ clones' \in 0..MaxClones
    BY <2>1, AcquireType DEF Acquire, TypeOK
  <2>. QED BY <1>2, <2>2 DEF Materialize, TypeOK
<1>3. ASSUME NEW fresh \in BOOLEAN, NEW chain \in BOOLEAN, Start(fresh, chain)
      PROVE  TypeOK'
  <2>1. Range(selection) \subseteq Repos
    BY DEF TypeOK, Range
  <2>. QED BY <1>3, <2>1 DEF Start, TypeOK, disk
<1>4. CASE Begin
  <2>1. carried' \subseteq DOMAIN selection
    BY <1>4 DEF Begin, Carried
  <2>. DEFINE S == {<<i, selection[i]>> : i \in carried'}
  <2>2. S \in SUBSET Slots
    BY <2>1, SlotsType DEF SlotsOf
  <2>3. runs' \in [S -> {"ok", "failed"}]
    BY <1>4 DEF Begin
  <2>4. runs' \in Entries
    BY <2>2, <2>3, EntriesType
  <2>5. 1 \in Indices
    BY <1>4 DEF Begin, BookInv, TypeOK
  <2>. QED BY <1>4, <2>1, <2>4, <2>5 DEF Begin, TypeOK, disk
<1>5. CASE Carry
  BY <1>5 DEF Carry, TypeOK, disk, process
<1>6. CASE Refuse
  BY <1>6 DEF Refuse, Fault, TypeOK, disk
<1>7. CASE Spawn
  BY <1>7 DEF Spawn, TypeOK, process
<1>8. ASSUME NEW ok \in BOOLEAN, NEW left \in {"bare", "unusable", "usable"},
             ChildExits(ok, left)
      PROVE  TypeOK'
  <2>1. manifest' \in [Dirs -> {"gone", "bare", "unusable", "usable"}]
    BY <1>8 DEF ChildExits, TypeOK
  <2>2. result' \in {"none", "ok", "failed"} /\ faults' \in 0..MaxFaults
    BY <1>8 DEF ChildExits, Fault, TypeOK
  <2>3. pc' = "ground"
    BY <1>8 DEF ChildExits
  <2>. QED BY <1>8, <2>1, <2>2, <2>3 DEF ChildExits, TypeOK
<1>9. CASE Ground
  <2>1. Here \in Slots
    BY <1>9, HereType DEF Ground, Working
  <2>. QED BY <1>9, <2>1 DEF Ground, TypeOK, process
<1>10. CASE Mark
  <2>1. Here \in Slots /\ Dir(Here) \in Dirs
    BY <1>10, HereType, DirType DEF Mark, Working
  <2>. DEFINE S == DOMAIN runs \union {Here}
  <2>2. runs \in Entries
    BY DEF TypeOK
  <2>3. S \in SUBSET Slots
    BY <2>1, <2>2, EntriesDomain
  <2>4. result \in {"ok", "failed"}
    BY <1>10 DEF Mark, BookInv
  <2>5. runs' \in [S -> {"ok", "failed"}]
    BY <1>10, <2>2, <2>4, EntriesDomain DEF Mark
  <2>6. runs' \in Entries
    BY <2>3, <2>5, EntriesType
  <2>. QED BY <1>10, <2>1, <2>6 DEF Mark, TypeOK
<1>11. CASE Checkpoint
  <2>1. at \in DOMAIN selection /\ selection \in Seq(Repos) /\ DOMAIN selection \subseteq Indices
    BY <1>11 DEF Checkpoint, BookInv, Working, TypeOK
  <2>2. at < Len(selection) => at + 1 \in Indices
    BY <2>1
  <2>. QED BY <1>11, <2>2 DEF Checkpoint, TypeOK
<1>12. CASE Finish
  BY <1>12, EndsType DEF Finish, TypeOK, process
<1>13. CASE ChainPackage
  <2>1. parcel' \in [by : {"none", "package", "chain"}, audited : SUBSET Slots,
                     named : SUBSET Repos, wanted : SUBSET Repos, halves : SUBSET Slots]
    <3>1. DOMAIN record.entries \subseteq Slots
      BY EntriesDomain DEF TypeOK
    <3>2. \A s \in Slots : s[2] \in Repos
      BY DEF Slots
    <3>. QED BY <1>13, <3>1, <3>2 DEF ChainPackage, Assemble, Audited, TypeOK
  <2>. QED BY <1>13, <2>1, EndsType DEF ChainPackage, TypeOK, disk
<1>14. CASE Package
  <2>1. parcel' \in [by : {"none", "package", "chain"}, audited : SUBSET Slots,
                     named : SUBSET Repos, wanted : SUBSET Repos, halves : SUBSET Slots]
    <3>1. DOMAIN record.entries \subseteq Slots
      BY EntriesDomain DEF TypeOK
    <3>2. \A s \in Slots : s[2] \in Repos
      BY DEF Slots
    <3>. QED BY <1>14, <3>1, <3>2 DEF Package, Assemble, Audited, TypeOK
  <2>. QED BY <1>14, <2>1 DEF Package, TypeOK, disk, process
<1>15. CASE Stop
  BY <1>15, EndsType DEF Stop, Fault, TypeOK
<1>16. ASSUME NEW d \in Dirs, Lose(d) PROVE TypeOK'
  BY <1>16 DEF Lose, Fault, TypeOK, process
<1>17. CASE UNCHANGED vars
  BY <1>17 DEF vars, disk, process, TypeOK
<1>. QED
  BY <1>1, <1>2, <1>3, <1>4, <1>5, <1>6, <1>7, <1>8, <1>9, <1>10, <1>11, <1>12,
     <1>13, <1>14, <1>15, <1>16, <1>17 DEF Next, SweepStep, Operator

-----------------------------------------------------------------------------
(* What an acquisition leaves to sweep is not empty, and the targets it      *)
(* names are those selected or stated as gaps.                               *)
LEMMA AcquireBook ==
  ASSUME NEW request \in Requests, NEW usable \in SUBSET Range(request),
         Acquire(request, usable)
  PROVE  1 \in DOMAIN selection'
<1>1. Range(selection') # {} /\ selection' \in Seq(Repos)
  BY AcquireType DEF Acquire
<1>2. DOMAIN selection' # {}
  BY <1>1 DEF Range
<1>. QED BY <1>1, <1>2

(* Every step keeps the books. *)
LEMMA BookStep ==
  ASSUME TypeOK, BookInv, [Next]_vars
  PROVE  BookInv'
<1>. USE DEF Working, Planned
<1>1. ASSUME NEW request \in Requests, NEW usable \in SUBSET Range(request),
             Clone(request, usable)
      PROVE  BookInv'
  BY <1>1 DEF Clone, Acquire, BookInv, process
<1>2. ASSUME NEW request \in Requests, NEW usable \in SUBSET Range(request),
             NEW fresh \in BOOLEAN, Materialize(request, usable, fresh)
      PROVE  BookInv'
  <2>1. Acquire(request, usable)
    BY <1>2 DEF Materialize
  <2>2. 1 \in DOMAIN selection' /\ Range(selection') = usable
    BY <2>1, AcquireBook, AcquireType
  <2>3. wanted' \subseteq Range(selection') \union gaps'
    BY <1>2, <2>2 DEF Materialize
  <2>4. pc' = "begin"
    BY <1>2 DEF Materialize
  <2>. QED BY <2>2, <2>3, <2>4 DEF BookInv
<1>3. ASSUME NEW fresh \in BOOLEAN, NEW chain \in BOOLEAN, Start(fresh, chain)
      PROVE  BookInv'
  <2>1. 1 \in DOMAIN selection
    BY <1>3 DEF Start, TypeOK
  <2>2. pc' = "begin" /\ selection' = selection /\ wanted' = Range(selection)
    BY <1>3 DEF Start, disk
  <2>. QED BY <2>1, <2>2 DEF BookInv, Range
<1>4. CASE Begin
  <2>1. carried' \subseteq DOMAIN selection
    BY <1>4 DEF Begin, Carried
  <2>2. /\ selection' = selection /\ pc' = "decide" /\ at' = 1
        /\ wanted' = wanted /\ gaps' = gaps
    BY <1>4 DEF Begin, disk
  <2>3. selection \in Seq(Repos)
    BY DEF TypeOK
  <2>4. \A j \in DOMAIN selection : ~(j < 1)
    BY <2>3
  <2>5. DOMAIN runs' = SettledSlots'
    BY <1>4, <2>1, <2>2, <2>4 DEF Begin, SettledSlots
  <2>. QED BY <1>4, <2>1, <2>2, <2>5 DEF Begin, BookInv, Range
<1>5. CASE Carry
  <2>1. /\ pc = "decide" /\ pc' = "checkpoint" /\ at \in carried
        /\ UNCHANGED <<selection, record, carried, runs, at, wanted, gaps>>
    BY <1>5 DEF Carry, disk, process
  <2>2. SettledSlots' = SettledSlots
    BY <2>1 DEF SettledSlots
  <2>. QED BY <2>1, <2>2 DEF BookInv, Range
<1>6. CASE Refuse
  <2>1. /\ pc = "decide" /\ pc' = "ground" /\ at \notin carried /\ result' = "failed"
        /\ UNCHANGED <<selection, record, carried, runs, at, wanted, gaps>>
    BY <1>6 DEF Refuse, disk
  <2>2. SettledSlots' = SettledSlots
    BY <2>1 DEF SettledSlots
  <2>. QED BY <2>1, <2>2 DEF BookInv, Range
<1>7. CASE Spawn
  <2>1. /\ pc = "decide" /\ pc' = "child" /\ at \notin carried
        /\ UNCHANGED <<selection, record, carried, runs, at, wanted, gaps>>
    BY <1>7 DEF Spawn, process
  <2>2. SettledSlots' = SettledSlots
    BY <2>1 DEF SettledSlots
  <2>. QED BY <2>1, <2>2 DEF BookInv, Range
<1>8. ASSUME NEW ok \in BOOLEAN, NEW left \in {"bare", "unusable", "usable"},
             ChildExits(ok, left)
      PROVE  BookInv'
  <2>1. /\ pc = "child" /\ pc' = "ground" /\ result' \in {"ok", "failed"}
        /\ UNCHANGED <<selection, record, carried, runs, at, wanted, gaps>>
    BY <1>8 DEF ChildExits
  <2>2. SettledSlots' = SettledSlots
    BY <2>1 DEF SettledSlots
  <2>. QED BY <2>1, <2>2 DEF BookInv, Range
<1>9. CASE Ground
  <2>1. /\ pc = "ground" /\ pc' = "mark"
        /\ UNCHANGED <<selection, record, carried, runs, at, result, wanted, gaps>>
    BY <1>9 DEF Ground, process
  <2>2. SettledSlots' = SettledSlots
    BY <2>1 DEF SettledSlots
  <2>. QED BY <2>1, <2>2 DEF BookInv, Range
<1>10. CASE Mark
  <2>1. /\ pc = "mark" /\ pc' = "checkpoint"
        /\ UNCHANGED <<selection, record, carried, at, wanted, gaps>>
    BY <1>10 DEF Mark
  <2>2. at \in DOMAIN selection
    BY <2>1 DEF BookInv
  <2>3. SettledSlots' = SettledSlots \union {Here}
    BY <2>1, <2>2 DEF SettledSlots, Here
  <2>4. DOMAIN runs' = DOMAIN runs \union {Here}
    BY <1>10 DEF Mark
  <2>. QED BY <2>1, <2>3, <2>4 DEF BookInv, Range
<1>11. CASE Checkpoint
  <2>1. /\ pc = "checkpoint" /\ UNCHANGED <<selection, carried, runs, wanted, gaps>>
        /\ at \in DOMAIN selection /\ selection \in Seq(Repos)
    BY <1>11 DEF Checkpoint, BookInv, TypeOK
  <2>2. DOMAIN selection = 1..Len(selection) /\ Len(selection) \in Nat
    BY <2>1
  <2>3. CASE at < Len(selection)
    <3>1. at' = at + 1 /\ pc' = "decide"
      BY <1>11, <2>3 DEF Checkpoint
    <3>2. at' \in DOMAIN selection'
      BY <2>1, <2>2, <2>3, <3>1
    <3>3. \A j \in DOMAIN selection : j < at' <=> j < at \/ j = at
      BY <2>1, <2>2, <3>1
    <3>4. SettledSlots' = SettledSlots
      BY <2>1, <3>1, <3>3 DEF SettledSlots
    <3>. QED BY <2>1, <3>1, <3>2, <3>4 DEF BookInv, Range
  <2>4. CASE ~(at < Len(selection))
    <3>1. at' = at /\ pc' = "finish" /\ at = Len(selection)
      BY <1>11, <2>1, <2>2, <2>4 DEF Checkpoint
    <3>2. SettledSlots' = SettledSlots
      BY <2>1, <3>1 DEF SettledSlots
    <3>. QED BY <2>1, <3>1, <3>2 DEF BookInv, Range
  <2>. QED BY <2>3, <2>4
<1>12. CASE Finish
  <2>1. CASE pc' = "package" /\ UNCHANGED process
    <3>1. /\ UNCHANGED <<selection, carried, runs, at, wanted, gaps>>
          /\ pc = "finish" /\ record'.complete /\ record'.entries = runs
      BY <1>12, <2>1 DEF Finish, process
    <3>2. SettledSlots' = SettledSlots
      BY <2>1, <3>1 DEF SettledSlots
    <3>. QED BY <2>1, <3>1, <3>2 DEF BookInv, Range
  <2>2. CASE Ends
    BY <2>2 DEF Ends, BookInv
  <2>. QED BY <1>12, <2>1, <2>2 DEF Finish
<1>13. CASE ChainPackage
  BY <1>13 DEF ChainPackage, Ends, BookInv
<1>14. CASE Stop
  BY <1>14 DEF Stop, Ends, BookInv
<1>15. ASSUME \/ Package
              \/ \E d \in Dirs : Lose(d)
              \/ UNCHANGED vars
       PROVE  BookInv'
  <2>1. UNCHANGED <<selection, record, pc, carried, runs, at, result, wanted, gaps>>
    BY <1>15 DEF Package, Lose, vars, disk, process
  <2>2. SettledSlots' = SettledSlots
    BY <2>1 DEF SettledSlots
  <2>. QED BY <2>1, <2>2 DEF BookInv, Range
<1>. QED
  BY <1>1, <1>2, <1>3, <1>4, <1>5, <1>6, <1>7, <1>8, <1>9, <1>10, <1>11, <1>12,
     <1>13, <1>14, <1>15 DEF Next, SweepStep, Operator

LEMMA BookInit == Init => TypeOK /\ BookInv
<1>1. <<>> \in Entries
  <2>1. <<>> \in [{} -> {"ok", "failed"}]
    OBVIOUS
  <2>. QED BY <2>1, EntriesType
<1>2. <<>> \in Seq(Repos) /\ DOMAIN <<>> \subseteq Indices
  OBVIOUS
<1>3. ASSUME Init PROVE TypeOK
  <2>1. record \in [complete : BOOLEAN, entries : Entries]
    BY <1>1, <1>3 DEF Init
  <2>2. parcel \in [by : {"none", "package", "chain"}, audited : SUBSET Slots,
                    named : SUBSET Repos, wanted : SUBSET Repos, halves : SUBSET Slots]
    BY <1>3 DEF Init, NoParcel
  <2>3. selection \in Seq(Repos) /\ DOMAIN selection \subseteq Indices
    BY <1>2, <1>3 DEF Init
  <2>4. manifest \in [Dirs -> {"gone", "bare", "unusable", "usable"}]
    BY <1>3 DEF Init
  <2>5. clones \in 0..MaxClones /\ faults \in 0..MaxFaults
    BY <1>3 DEF Init
  <2>. QED BY <1>1, <1>3, <2>1, <2>2, <2>3, <2>4, <2>5 DEF Init, TypeOK
<1>4. ASSUME Init PROVE BookInv
  BY <1>4 DEF Init, BookInv, Working, Planned
<1>. QED BY <1>3, <1>4

(* Every reachable state is well typed, whatever fails, dies or is lost. *)
THEOREM TypeCorrect == Spec => [](TypeOK /\ BookInv)
BY BookInit, TypeStep, BookStep, PTL DEF Spec

-----------------------------------------------------------------------------
(* The chain's deliverable names every target of the chain.                  *)
LEMMA AccountStep ==
  ASSUME TypeOK, BookInv, ParcelAccountsForAll, [Next]_vars
  PROVE  ParcelAccountsForAll'
<1>1. CASE ChainPackage
  <2>1. CASE UNCHANGED parcel
    BY <2>1 DEF ParcelAccountsForAll
  <2>2. CASE Assemble("chain", gaps)
    <3>1. /\ pc = "package" /\ wanted \subseteq Range(selection) \union gaps
          /\ record.entries = runs /\ DOMAIN runs = SettledSlots
          /\ at = Len(selection) /\ selection \in Seq(Repos)
      BY <1>1 DEF ChainPackage, BookInv, Planned, TypeOK
    <3>2. \A i \in DOMAIN selection : i < at \/ i = at
      BY <3>1
    <3>3. \A i \in DOMAIN selection : <<i, selection[i]>> \in DOMAIN record.entries
      BY <3>1, <3>2 DEF SettledSlots
    <3>4. ASSUME NEW i \in DOMAIN selection
          PROVE  selection[i] \in {s[2] : s \in DOMAIN record.entries}
      <4>1. <<i, selection[i]>>[2] = selection[i]
        OBVIOUS
      <4>. QED BY <3>3, <4>1, Zenon
    <3>5. Range(selection) \subseteq {s[2] : s \in DOMAIN record.entries}
      BY <3>4 DEF Range
    <3>. QED BY <2>2, <3>1, <3>5 DEF Assemble, ParcelAccountsForAll
  <2>. QED BY <1>1, <2>1, <2>2 DEF ChainPackage
<1>2. CASE Package
  BY <1>2 DEF Package, Assemble, ParcelAccountsForAll
<1>3. CASE ~ChainPackage /\ ~Package
  <2>1. parcel' = parcel
    BY <1>3 DEF Next, SweepStep, Operator, Begin, Carry, Refuse, Spawn, ChildExits,
       Ground, Mark, Checkpoint, Finish, Clone, Materialize, Start, Stop, Lose, vars
  <2>. QED BY <2>1 DEF ParcelAccountsForAll
<1>. QED BY <1>1, <1>2, <1>3

(* No registered target goes unmentioned in what the chain ships, whatever   *)
(* failed to clone or to audit and whatever the sweep resumed from.          *)
THEOREM AccountsForAll == Spec => []ParcelAccountsForAll
<1>1. Init => ParcelAccountsForAll
  BY DEF Init, NoParcel, ParcelAccountsForAll
<1>. QED BY <1>1, TypeCorrect, AccountStep, PTL DEF Spec

-----------------------------------------------------------------------------
(* What the disk holds against what the record and the process say of it.    *)
(* The marker is the weak point: it is never removed, so a slot both         *)
(* recorded as audited and marked must be whole, except under a --fresh      *)
(* sweep, which the assumption keeps from dying, and except where another    *)
(* repository's name leads to the same directory.                            *)
Saved == {s \in Audited(record.entries) : HasOwnDir(s) /\ Dir(s) \in marker}

DiskInv ==
  /\ \A d \in Dirs : manifest[d] = "gone" => d \notin marker
  /\ \A s \in whole : manifest[Dir(s)] = "usable"
  /\ pc = "child" => \A s \in whole : Dir(s) # Dir(Here)
  /\ pc \in {"ground", "mark"} /\ result = "ok" => manifest[Dir(Here)] = "usable"
  /\ pc = "mark" /\ result = "ok" => Here \in whole
  /\ pc \in Planned =>
       \A s \in Audited(runs) : HasOwnDir(s) => s \in whole \/ manifest[Dir(s)] = "gone"
  /\ \A s \in Saved : s \in whole \/ (forced /\ pc \in Planned)
  /\ pc \in Planned /\ ~forced =>
       \A s \in SlotsOf(selection) \intersect Saved : s \in Audited(runs)
  /\ pc = "idle" => ~forced

(* No step breaks it, but for the death of a --fresh sweep.                  *)
LEMMA DiskStep ==
  ASSUME ~MayStopForced, TypeOK, BookInv, DiskInv, [Next]_vars
  PROVE  DiskInv'
<1>. USE DEF Working, Planned
<1>a. Audited(runs) \subseteq Slots /\ Audited(record.entries) \subseteq Slots
  BY EntriesDomain DEF TypeOK, Audited
<1>b. whole \subseteq Slots /\ marker \subseteq Dirs
  BY DEF TypeOK
<1>c. UNCHANGED <<record, marker>> => Saved' = Saved
  BY DEF Saved, Audited
<1>1. ASSUME NEW request \in Requests, NEW usable \in SUBSET Range(request),
             \/ Clone(request, usable)
             \/ \E fresh \in BOOLEAN : Materialize(request, usable, fresh)
      PROVE  DiskInv'
  <2>1. /\ pc = "idle" /\ pc' \in {"idle", "begin"}
        /\ UNCHANGED <<record, manifest, marker, whole>>
        /\ pc' = "idle" => forced' = forced
    BY <1>1 DEF Clone, Materialize, Acquire, process
  <2>. QED BY <1>c, <2>1 DEF DiskInv
<1>2. ASSUME NEW fresh \in BOOLEAN, NEW chain \in BOOLEAN, Start(fresh, chain)
      PROVE  DiskInv'
  BY <1>2, <1>c DEF Start, disk, DiskInv
<1>3. CASE Begin
  <2>1. /\ pc = "begin" /\ pc' = "decide" /\ UNCHANGED <<disk, forced>>
        /\ carried' = IF forced THEN {} ELSE Carried
        /\ runs' = [s \in {<<i, selection[i]>> : i \in carried'} |-> "ok"]
    BY <1>3 DEF Begin
  <2>2. \A s \in Saved : s \in whole
    BY <2>1 DEF DiskInv
  <2>3. \A i \in carried' : Carriable(<<i, selection[i]>>)
    BY <2>1 DEF Carried
  <2>4. \A s \in Audited(runs') : HasOwnDir(s) => s \in whole
    BY <2>1, <2>2, <2>3 DEF Audited, Carriable, Saved
  <2>5. ASSUME ~forced, NEW s \in SlotsOf(selection) \intersect Saved
        PROVE  s \in Audited(runs')
    <3>1. Carriable(s)
      BY <2>2 DEF DiskInv, Carriable, Saved
    <3>2. PICK i \in DOMAIN selection : s = <<i, selection[i]>>
      BY DEF SlotsOf
    <3>3. i \in carried'
      BY <2>1, <2>5, <3>1, <3>2 DEF Carried
    <3>. QED BY <2>1, <3>2, <3>3 DEF Audited
  <2>6. Saved' = Saved /\ SlotsOf(selection)' = SlotsOf(selection)
    BY <1>c, <2>1 DEF disk, SlotsOf
  <2>. QED BY <2>1, <2>2, <2>4, <2>5, <2>6 DEF DiskInv, disk
<1>4. CASE Carry
  BY <1>4, <1>c DEF Carry, disk, process, DiskInv, SlotsOf, Here
<1>5. CASE Refuse
  BY <1>5, <1>c DEF Refuse, disk, DiskInv, SlotsOf, Here
<1>6. CASE Spawn
  <2>1. /\ pc = "decide" /\ pc' = "child" /\ at \notin carried
        /\ manifest' = [manifest EXCEPT ![Dir(Here)] = IF @ = "gone" THEN "bare" ELSE @]
        /\ whole' = {s \in whole : Dir(s) # Dir(Here)}
        /\ UNCHANGED <<selection, record, marker, forced, runs, at>>
    BY <1>6 DEF Spawn, process
  <2>2. Here \in Slots /\ Here \in SlotsOf(selection) /\ Here' = Here /\ Dir(Here) \in Dirs
    BY <2>1, HereType, DirType DEF Here
  <2>3. Here \notin DOMAIN runs
    BY <2>1 DEF BookInv, SettledSlots, Here, TypeOK
  <2>4. ~forced => Here \notin Saved
    BY <2>1, <2>2, <2>3 DEF DiskInv, Audited
  <2>5. \A d \in Dirs \ {Dir(Here)} : manifest'[d] = manifest[d]
    BY <2>1 DEF TypeOK
  <2>6. manifest'[Dir(Here)] # "gone"
    BY <2>1, <2>2 DEF TypeOK
  <2>7. \A s \in Slots : HasOwnDir(s) /\ Dir(s) = Dir(Here) => s = Here
    BY <2>2, OwnDir
  <2>8. \A s \in Audited(runs) : s # Here /\ Dir(s) \in Dirs
    BY <1>a, <2>3, DirType DEF Audited
  <2>9. \A d \in Dirs : manifest'[d] = "gone" => d \notin marker
    BY <2>5, <2>6 DEF DiskInv
  <2>10. \A s \in whole' : manifest'[Dir(s)] = "usable"
    BY <1>b, <2>1, <2>5, DirType DEF DiskInv
  <2>11. \A s \in Audited(runs) :
           HasOwnDir(s) => s \in whole' \/ manifest'[Dir(s)] = "gone"
    BY <1>a, <2>1, <2>5, <2>7, <2>8 DEF DiskInv
  <2>12. \A s \in Saved : s \in whole' \/ forced
    BY <1>a, <2>1, <2>4, <2>7 DEF DiskInv, Saved
  <2>. QED BY <1>c, <2>1, <2>2, <2>9, <2>10, <2>11, <2>12 DEF DiskInv, SlotsOf
<1>7. ASSUME NEW ok \in BOOLEAN, NEW left \in {"bare", "unusable", "usable"},
             ChildExits(ok, left)
      PROVE  DiskInv'
  <2>1. /\ pc = "child" /\ pc' = "ground"
        /\ manifest' = [manifest EXCEPT ![Dir(Here)] = left]
        /\ result' = "ok" => left = "usable"
        /\ UNCHANGED <<selection, record, marker, whole, forced, runs, at>>
    BY <1>7 DEF ChildExits
  <2>2. Here \in Slots /\ Here' = Here /\ Dir(Here) \in Dirs
    BY <2>1, HereType, DirType DEF Here
  <2>3. Here \notin DOMAIN runs
    BY <2>1 DEF BookInv, SettledSlots, Here, TypeOK
  <2>4. \A d \in Dirs \ {Dir(Here)} : manifest'[d] = manifest[d]
    BY <2>1 DEF TypeOK
  <2>5. manifest'[Dir(Here)] = left
    BY <2>1, <2>2 DEF TypeOK
  <2>6. \A s \in Audited(runs) : HasOwnDir(s) => Dir(s) \in Dirs \ {Dir(Here)}
    BY <1>a, <2>2, <2>3, OwnDir, DirType DEF Audited
  <2>7. \A s \in whole : Dir(s) \in Dirs \ {Dir(Here)}
    BY <1>b, <2>1, DirType DEF DiskInv
  <2>. QED BY <1>c, <2>1, <2>2, <2>4, <2>5, <2>6, <2>7 DEF DiskInv, SlotsOf
<1>8. CASE Ground
  <2>1. /\ pc = "ground" /\ pc' = "mark"
        /\ whole' = IF result = "ok" THEN whole \union {Here} ELSE whole
        /\ UNCHANGED <<selection, record, manifest, marker, forced, runs, at, result>>
    BY <1>8 DEF Ground, process
  <2>2. Here' = Here
    BY <2>1 DEF Here
  <2>. QED BY <1>c, <2>1, <2>2 DEF DiskInv, SlotsOf
<1>9. CASE Mark
  <2>1. /\ pc = "mark" /\ pc' = "checkpoint"
        /\ marker' = IF result = "ok" THEN marker \union {Dir(Here)} ELSE marker
        /\ runs' = [s \in DOMAIN runs \union {Here} |-> IF s = Here THEN result ELSE runs[s]]
        /\ UNCHANGED <<selection, record, manifest, whole, forced, at>>
    BY <1>9 DEF Mark
  <2>2. Here \in Slots /\ Here \notin DOMAIN runs
    BY <2>1, HereType DEF BookInv, SettledSlots, Here, TypeOK
  <2>3. Audited(runs') = Audited(runs) \union (IF result = "ok" THEN {Here} ELSE {})
    BY <2>1, <2>2 DEF Audited
  <2>4. ASSUME NEW s \in Saved', s \notin Saved PROVE s = Here /\ result = "ok"
    <3>1. s \in Slots /\ HasOwnDir(s) /\ Dir(s) \in marker' /\ Dir(s) \notin marker
      BY <1>a, <2>1, <2>4 DEF Saved, Audited
    <3>2. Dir(s) = Dir(Here) /\ result = "ok"
      BY <2>1, <3>1
    <3>. QED BY <2>2, <3>1, <3>2, OwnDir
  <2>5. \A s \in Saved' : s \in whole \/ forced
    BY <2>1, <2>4 DEF DiskInv
  <2>6. ~forced => \A s \in SlotsOf(selection) \intersect Saved' : s \in Audited(runs')
    BY <2>1, <2>3, <2>4 DEF DiskInv
  <2>7. \A d \in Dirs : manifest[d] = "gone" => d \notin marker'
    BY <2>1 DEF DiskInv
  <2>8. \A s \in Audited(runs') : HasOwnDir(s) => s \in whole \/ manifest[Dir(s)] = "gone"
    BY <2>1, <2>3 DEF DiskInv
  <2>9. SlotsOf(selection)' = SlotsOf(selection)
    BY <2>1 DEF SlotsOf
  <2>. QED BY <2>1, <2>5, <2>6, <2>7, <2>8, <2>9 DEF DiskInv
<1>10. CASE Checkpoint
  <2>1. /\ pc = "checkpoint" /\ pc' \in {"decide", "finish"}
        /\ record'.entries = runs
        /\ UNCHANGED <<selection, manifest, marker, whole, forced, runs>>
    BY <1>10 DEF Checkpoint
  <2>2. Saved' \subseteq Audited(runs) /\ \A s \in Saved' : s \in whole
    BY <1>a, <2>1, DirType DEF DiskInv, Saved, Audited
  <2>. QED BY <2>1, <2>2 DEF DiskInv, SlotsOf
<1>11. CASE Finish
  <2>1. /\ pc = "finish" /\ record'.entries = runs
        /\ UNCHANGED <<selection, manifest, marker, whole>>
        /\ \/ pc' = "package" /\ UNCHANGED process
           \/ pc' = "idle" /\ forced' = FALSE
    BY <1>11 DEF Finish, Ends
  <2>2. Saved' \subseteq Audited(runs) /\ \A s \in Saved' : s \in whole
    BY <1>a, <2>1, DirType DEF DiskInv, Saved, Audited
  <2>. QED BY <2>1, <2>2 DEF DiskInv, SlotsOf, process
<1>12. CASE ChainPackage
  <2>1. /\ pc = "package" /\ pc' = "idle" /\ forced' = FALSE /\ UNCHANGED disk
        /\ record.entries = runs
    BY <1>12 DEF ChainPackage, Ends, BookInv
  <2>2. Saved' = Saved /\ \A s \in Saved : s \in whole
    BY <1>a, <1>c, <2>1, DirType DEF DiskInv, Saved, Audited, disk
  <2>. QED BY <2>1, <2>2 DEF DiskInv, disk
<1>13. CASE Stop
  <2>1. /\ pc' = "idle" /\ forced' = FALSE /\ ~forced
        /\ UNCHANGED <<record, marker, whole>>
    BY <1>13 DEF Stop, Ends
  <2>2. Saved' = Saved /\ \A s \in Saved : s \in whole
    BY <1>c, <2>1 DEF DiskInv
  <2>3. CASE pc = "child"
    <3>1. Dir(Here) \in Dirs /\ \A s \in whole : Dir(s) \in Dirs \ {Dir(Here)}
      BY <1>b, <2>3, HereType, DirType DEF DiskInv
    <3>2. PICK left \in {manifest[Dir(Here)], "unusable", "usable"} :
            manifest' = [manifest EXCEPT ![Dir(Here)] = left]
      BY <1>13, <2>3 DEF Stop
    <3>3. \A d \in Dirs \ {Dir(Here)} : manifest'[d] = manifest[d]
      BY <3>2 DEF TypeOK
    <3>4. manifest'[Dir(Here)] = "gone" => manifest[Dir(Here)] = "gone"
      BY <3>1, <3>2 DEF TypeOK
    <3>. QED BY <2>1, <2>2, <3>1, <3>3, <3>4 DEF DiskInv
  <2>4. CASE pc # "child"
    <3>1. UNCHANGED manifest
      BY <1>13, <2>4 DEF Stop
    <3>. QED BY <2>1, <2>2, <3>1 DEF DiskInv
  <2>. QED BY <2>3, <2>4
<1>14. ASSUME NEW d \in Dirs, Lose(d) PROVE DiskInv'
  <2>1. /\ pc \in {"child", "ground", "mark"} => d # Dir(Here)
        /\ manifest' = [manifest EXCEPT ![d] = "gone"]
        /\ marker' = marker \ {d} /\ whole' = {s \in whole : Dir(s) # d}
        /\ UNCHANGED <<selection, record, pc, forced, runs, at, result>>
    BY <1>14 DEF Lose, process
  <2>2. \A e \in Dirs : manifest'[e] = IF e = d THEN "gone" ELSE manifest[e]
    BY <2>1 DEF TypeOK
  <2>3. Here' = Here /\ SlotsOf(selection)' = SlotsOf(selection)
    BY <2>1 DEF Here, SlotsOf
  <2>4. pc \in {"child", "ground", "mark"} => Dir(Here) \in Dirs
    BY HereType, DirType
  <2>5. Saved' = {s \in Saved : Dir(s) # d}
    BY <2>1 DEF Saved, Audited
  <2>6. \A s \in whole' : manifest'[Dir(s)] = "usable"
    BY <1>b, <2>1, <2>2, DirType DEF DiskInv
  <2>7. pc \in Planned => \A s \in Audited(runs) :
          HasOwnDir(s) => s \in whole' \/ manifest'[Dir(s)] = "gone"
    BY <1>a, <2>1, <2>2, DirType DEF DiskInv
  <2>8. \A s \in Saved' : s \in whole' \/ (forced /\ pc \in Planned)
    BY <2>1, <2>5 DEF DiskInv
  <2>9. pc \in {"ground", "mark"} /\ result = "ok" => manifest'[Dir(Here)] = "usable"
    BY <2>1, <2>2, <2>4 DEF DiskInv
  <2>10. pc = "mark" /\ result = "ok" => Here \in whole'
    BY <2>1 DEF DiskInv
  <2>. QED BY <2>1, <2>2, <2>3, <2>5, <2>6, <2>7, <2>8, <2>9, <2>10 DEF DiskInv
<1>15. CASE Package
  BY <1>15, <1>c DEF Package, disk, process, DiskInv, SlotsOf, Here
<1>16. CASE UNCHANGED vars
  BY <1>16, <1>c DEF vars, disk, process, DiskInv, SlotsOf, Here
<1>. QED
  BY <1>1, <1>2, <1>3, <1>4, <1>5, <1>6, <1>7, <1>8, <1>9, <1>10, <1>11, <1>12,
     <1>13, <1>14, <1>15, <1>16 DEF Next, SweepStep, Operator

(* The record and the disk agree in every reachable state. *)
LEMMA DiskInvariance ==
  ASSUME ~MayStopForced
  PROVE  Spec => []DiskInv
<1>1. Init => DiskInv
  BY DEF Init, DiskInv, Planned, Working, Audited, Saved
<1>. QED BY <1>1, TypeCorrect, DiskStep, PTL DEF Spec

(* A sweep carries over only what every writer finished, as long as no       *)
(* --fresh sweep has died (the marker it would leave is never taken back)    *)
(* and no other repository's name leads to the same directory.               *)
THEOREM OnlyWholeIsCarried ==
  ASSUME ~MayStopForced
  PROVE  Spec => []CarriedIsWhole
<1>1. TypeOK /\ DiskInv => CarriedIsWhole
  BY DEF DiskInv, CarriedIsWhole, Carriable, Planned, Working, Saved
<1>. QED BY <1>1, TypeCorrect, DiskInvariance, PTL

(* The chain ships no half-audited directory, under the same conditions.     *)
THEOREM ParcelsAreWhole ==
  ASSUME ~MayStopForced
  PROVE  Spec => []ChainParcelIsWhole
<1>1. Init => ChainParcelIsWhole
  BY DEF Init, NoParcel, ChainParcelIsWhole
<1>2. ASSUME BookInv, DiskInv, ChainParcelIsWhole, [Next]_vars
      PROVE  ChainParcelIsWhole'
  <2>1. CASE ChainPackage
    <3>1. \A s \in Audited(record.entries) :
            HasOwnDir(s) => s \in whole \/ manifest[Dir(s)] = "gone"
      BY <1>2, <2>1 DEF ChainPackage, BookInv, DiskInv, Planned
    <3>2. CASE Packable /\ Assemble("chain", gaps)
      BY <3>1, <3>2 DEF Packable, Assemble, ChainParcelIsWhole
    <3>3. CASE UNCHANGED parcel
      BY <1>2, <3>3 DEF ChainParcelIsWhole
    <3>. QED BY <2>1, <3>2, <3>3 DEF ChainPackage
  <2>2. CASE Package
    BY <2>2 DEF Package, Assemble, ChainParcelIsWhole
  <2>3. CASE ~ChainPackage /\ ~Package
    <3>1. parcel' = parcel
      BY <1>2, <2>3 DEF Next, SweepStep, Operator, Begin, Carry, Refuse, Spawn, ChildExits,
         Ground, Mark, Checkpoint, Finish, Clone, Materialize, Start, Stop, Lose, vars
    <3>. QED BY <1>2, <3>1 DEF ChainParcelIsWhole
  <2>. QED BY <2>1, <2>2, <2>3
<1>. QED BY <1>1, <1>2, TypeCorrect, DiskInvariance, PTL DEF Spec

(* What one sweep saved, the next one keeps, under the same conditions.      *)
THEOREM SavedIsKept ==
  ASSUME ~MayStopForced
  PROVE  Spec => WorkIsKept
<1>1. ASSUME TypeOK, BookInv, DiskInv, [Next]_vars,
             NEW s \in SlotsOf(selection), Carriable(s), HasOwnDir(s), ~forced
      PROVE  (Carriable(s))' \/ manifest'[Dir(s)] = "gone"
  <2>. USE DEF Working, Planned
  <2>0. s \in Slots /\ s \in Saved /\ Dir(s) \in Dirs
    BY <1>1, SlotsType, DirType DEF Carriable, Saved
  <2>1. pc \in Planned => s \in Audited(runs)
    BY <1>1, <2>0 DEF DiskInv
  <2>2. pc \in {"decide", "child", "ground", "mark"} /\ at \notin carried => Dir(s) # Dir(Here)
    <3>1. pc \in {"decide", "child", "ground", "mark"} /\ at \notin carried => s # Here
      BY <1>1, <2>1 DEF BookInv, SettledSlots, Here, TypeOK, Audited
    <3>2. pc \in Working => Here \in Slots
      BY <1>1, HereType
    <3>. QED BY <1>1, <2>0, <3>1, <3>2, OwnDir
  <2>3. CASE Checkpoint \/ Finish
    <3>1. /\ record'.entries = runs /\ UNCHANGED <<manifest, marker>> /\ s \in Audited(runs)
      BY <2>1, <2>3 DEF Checkpoint, Finish
    <3>. QED BY <1>1, <3>1 DEF Carriable
  <2>4. CASE Spawn \/ (\E ok \in BOOLEAN, left \in {"bare", "unusable", "usable"} :
                         ChildExits(ok, left))
    <3>1. Dir(s) # Dir(Here)
      BY <1>1, <2>2, <2>4 DEF Spawn, ChildExits, BookInv
    <3>2. UNCHANGED <<record, marker>> /\ manifest'[Dir(s)] = manifest[Dir(s)]
      BY <1>1, <2>0, <2>4, <3>1 DEF Spawn, ChildExits, TypeOK
    <3>. QED BY <1>1, <3>2 DEF Carriable
  <2>5. CASE Mark
    BY <1>1, <2>5 DEF Mark, Carriable
  <2>6. CASE Stop
    <3>1. pc = "child" => Dir(s) # Dir(Here)
      BY <1>1, <2>2 DEF BookInv
    <3>2. UNCHANGED <<record, marker>> /\ manifest'[Dir(s)] = manifest[Dir(s)]
      BY <1>1, <2>0, <2>6, <3>1 DEF Stop, TypeOK
    <3>. QED BY <1>1, <3>2 DEF Carriable
  <2>7. ASSUME NEW d \in Dirs, Lose(d) PROVE (Carriable(s))' \/ manifest'[Dir(s)] = "gone"
    BY <1>1, <2>0, <2>7 DEF Lose, Carriable, TypeOK
  <2>8. CASE UNCHANGED <<record, manifest, marker>>
    BY <1>1, <2>8 DEF Carriable
  <2>. QED
    BY <1>1, <2>3, <2>4, <2>5, <2>6, <2>7, <2>8
       DEF Next, SweepStep, Operator, Begin, Carry, Refuse, Ground, Clone, Materialize,
           Start, Package, ChainPackage, vars, disk
<1>2. TypeOK /\ BookInv /\ DiskInv /\ [Next]_vars =>
        [\A s \in SlotsOf(selection) :
           Carriable(s) /\ HasOwnDir(s) /\ ~forced =>
             (Carriable(s))' \/ manifest'[Dir(s)] = "gone"]_vars
  BY <1>1
<1>. QED BY <1>2, TypeCorrect, DiskInvariance, PTL DEF Spec, WorkIsKept

=============================================================================
