----------------------------- MODULE AuditSweep -----------------------------
(***************************************************************************)
(* `taudit`: acquire checkouts, audit the selected repositories one by one  *)
(* with a `tga audit` child each, checkpoint after every repository, and    *)
(* assemble the deliverable. A sweep may die anywhere; a re-run carries     *)
(* over what the record and the disk agree is finished. One `taudit`        *)
(* process works on a directory at a time.                                  *)
(***************************************************************************)
EXTENDS Naturals, Sequences, Functions

CONSTANTS
  Requests,       \* the target lists a registry or a `clone` may name, in order
  Stem,           \* Stem[r]: what `sanitize` leaves of r's name
  MayStopForced,  \* whether a `--fresh` sweep may die before it ends
  MaxClones,      \* acquisitions (bounds the model)
  MaxFaults       \* failures, deaths and lost directories (bounds the model)

ASSUME SweepAssumption ==
  /\ \A request \in Requests :
       request \in Seq(Range(request)) /\ IsInjective(request)
  /\ DOMAIN Stem = UNION {Range(request) : request \in Requests}
  /\ MayStopForced \in BOOLEAN
  /\ MaxClones \in Nat
  /\ MaxFaults \in Nat

VARIABLES
  selection, \* the selection file: the repositories to audit, in order
  record,    \* state/run-progress.toml: its completion flag and its entries
  manifest,  \* what a directory of out/ holds: gone, bare, unusable or usable manifest
  marker,    \* the directories that have audit-complete.toml
  whole,     \* the slots every writer has run for since a child began in their directory
  pc,        \* where the process stands
  chained,   \* whether it runs the whole chain rather than `run` alone
  forced,    \* whether it was given --fresh
  carried,   \* the indices its plan carries over
  runs,      \* the entries it has settled
  at,        \* the index it is working on
  result,    \* how the repository at `at` has fared
  wanted,    \* the targets the chain set out with
  gaps,      \* those of them that could not be acquired
  parcel,    \* the last deliverable assembled
  clones,    \* acquisitions so far
  faults     \* failures, deaths and lost directories so far

disk == <<selection, record, manifest, marker, whole>>
process == <<chained, forced, carried, runs, at, result, wanted, gaps>>
vars == <<disk, pc, process, parcel, clones, faults>>

Repos == UNION {Range(request) : request \in Requests}

Indices == UNION {DOMAIN request : request \in Requests}

(* An entry is matched on the index and the repository. *)
Slots == Indices \X Repos

(* `stem`: the output directory is named by the index and what sanitizing    *)
(* left of the name, so repositories may share one in successive selections. *)
Dirs == Indices \X Range(Stem)

Dir(s) == <<s[1], Stem[s[2]]>>

SlotsOf(list) == {<<i, list[i]>> : i \in DOMAIN list}

Here == <<at, selection[at]>>

Entries == UNION {[S -> {"ok", "failed"}] : S \in SUBSET Slots}

Audited(entries) == {s \in DOMAIN entries : entries[s] = "ok"}

\* Faulty variant: resumes from the manifest alone, as before the marker.
FaultyCarriable(s) == s \in Audited(record.entries) /\ manifest[Dir(s)] = "usable"

(* `plan`: the entry for this repository at this output succeeded, its       *)
(* manifest passes verify_output and its completion marker is there.         *)
Carriable(s) ==
  /\ s \in Audited(record.entries)
  /\ manifest[Dir(s)] = "usable"
  /\ Dir(s) \in marker

Carried == {i \in DOMAIN selection : Carriable(<<i, selection[i]>>)}

NoParcel == [by |-> "none", audited |-> {}, named |-> {}, wanted |-> {}, halves |-> {}]

Init ==
  /\ selection = <<>>
  /\ record = [complete |-> FALSE, entries |-> <<>>]
  /\ manifest = [d \in Dirs |-> "gone"]
  /\ marker = {}
  /\ whole = {}
  /\ pc = "idle"
  /\ chained = FALSE
  /\ forced = FALSE
  /\ carried = {}
  /\ runs = <<>>
  /\ at = 0
  /\ result = "none"
  /\ wanted = {}
  /\ gaps = {}
  /\ parcel = NoParcel
  /\ clones = 0
  /\ faults = 0

Fault == faults < MaxFaults /\ faults' = faults + 1

(* What a process knew is gone when it ends. *)
Ends ==
  /\ pc' = "idle"
  /\ chained' = FALSE
  /\ forced' = FALSE
  /\ carried' = {}
  /\ runs' = <<>>
  /\ at' = 0
  /\ result' = "none"
  /\ wanted' = {}
  /\ gaps' = {}

-----------------------------------------------------------------------------
(* The order of a request, in which it names no target twice. *)
Before(request, a, b) ==
  \E i, j \in DOMAIN request : i < j /\ request[i] = a /\ request[j] = b

(* The lists of these repositories in the request's order: there is one. *)
Ordered(request, repos) ==
  {list \in UNION {[1..n -> repos] : n \in DOMAIN request} :
     /\ Range(list) = repos
     /\ \A i, j \in DOMAIN list : i < j => Before(request, list[i], list[j])}

(* clone_all: the usable checkouts become the selection, in the order asked  *)
(* for, and each target that is not usable becomes a gap. With none usable   *)
(* the old selection stays and the command fails, which changes nothing.     *)
Acquire(request, usable) ==
  /\ pc = "idle"
  /\ clones < MaxClones
  /\ clones' = clones + 1
  /\ usable # {}
  /\ selection' \in Ordered(request, usable)

(* `taudit clone`. *)
Clone(request, usable) ==
  /\ Acquire(request, usable)
  /\ UNCHANGED <<record, manifest, marker, whole, pc, process, parcel, faults>>

(* `taudit audit`, phases 1 and 2: what is registered is acquired. *)
Materialize(request, usable, fresh) ==
  /\ Acquire(request, usable)
  /\ pc' = "begin"
  /\ chained' = TRUE
  /\ forced' = fresh
  /\ wanted' = Range(request)
  /\ gaps' = Range(request) \ usable
  /\ UNCHANGED <<record, manifest, marker, whole, carried, runs, at, result,
                 parcel, faults>>

(* `taudit run`, or the chain over an empty registry: the sweep works on the *)
(* selection it finds.                                                       *)
Start(fresh, chain) ==
  /\ pc = "idle"
  /\ selection # <<>>
  /\ pc' = "begin"
  /\ chained' = chain
  /\ forced' = fresh
  /\ wanted' = Range(selection)
  /\ UNCHANGED <<disk, carried, runs, at, result, gaps, parcel, clones, faults>>

\* Faulty variant: the record of the run starts empty.
FaultyBegin ==
  /\ pc = "begin"
  /\ carried' = IF forced THEN {} ELSE Carried
  /\ runs' = <<>>
  /\ at' = 1
  /\ pc' = "decide"
  /\ UNCHANGED <<disk, chained, forced, result, wanted, gaps, parcel, clones, faults>>

\* Faulty variant: a recorded failure is settled and never tried again.
SettledBegin ==
  /\ pc = "begin"
  /\ carried' = {i \in DOMAIN selection : <<i, selection[i]>> \in DOMAIN record.entries}
  /\ runs' = [s \in {<<i, selection[i]>> : i \in carried'} |-> record.entries[s]]
  /\ at' = 1
  /\ pc' = "decide"
  /\ UNCHANGED <<disk, chained, forced, result, wanted, gaps, parcel, clones, faults>>

(* The plan is made once, and what it carries over seeds the record. *)
Begin ==
  /\ pc = "begin"
  /\ carried' = IF forced THEN {} ELSE Carried
  /\ runs' = [s \in {<<i, selection[i]>> : i \in carried'} |-> "ok"]
  /\ at' = 1
  /\ pc' = "decide"
  /\ UNCHANGED <<disk, chained, forced, result, wanted, gaps, parcel, clones, faults>>

(* skip_one *)
Carry ==
  /\ pc = "decide"
  /\ at \in carried
  /\ pc' = "checkpoint"
  /\ UNCHANGED <<disk, process, parcel, clones, faults>>

(* `prepare` finds no checkout, or trusty-search refuses it: the repository  *)
(* fails and no child runs, but a manifest already there is still grounded.  *)
Refuse ==
  /\ pc = "decide"
  /\ at \notin carried
  /\ Fault
  /\ result' = "failed"
  /\ pc' = "ground"
  /\ UNCHANGED <<disk, chained, forced, carried, runs, at, wanted, gaps, parcel, clones>>

(* The child starts writing into whatever the directory holds already. *)
Spawn ==
  /\ pc = "decide"
  /\ at \notin carried
  /\ manifest' = [manifest EXCEPT ![Dir(Here)] = IF @ = "gone" THEN "bare" ELSE @]
  /\ whole' = {s \in whole : Dir(s) # Dir(Here)}
  /\ pc' = "child"
  /\ UNCHANGED <<selection, record, marker, process, parcel, clones, faults>>

(* A child that exits 0 has written a manifest, which verify_output judges;  *)
(* one that fails or times out leaves the old one, or its own, or half of it.*)
ChildExits(ok, left) ==
  /\ pc = "child"
  /\ left \in {"usable", "unusable"} \union (IF ok THEN {} ELSE {manifest[Dir(Here)]})
  /\ manifest' = [manifest EXCEPT ![Dir(Here)] = left]
  /\ IF ok /\ left = "usable"
     THEN result' = "ok" /\ UNCHANGED faults
     ELSE result' = "failed" /\ Fault
  /\ pc' = "ground"
  /\ UNCHANGED <<selection, record, marker, whole, chained, forced, carried, runs, at,
                 wanted, gaps, parcel, clones>>

(* Grounding, the inference stamp and the OSV lookup edit the manifest; they *)
(* are the last writers of the directory.                                    *)
Ground ==
  /\ pc = "ground"
  /\ whole' = IF result = "ok" THEN whole \union {Here} ELSE whole
  /\ pc' = "mark"
  /\ UNCHANGED <<selection, record, manifest, marker, process, parcel, clones, faults>>

(* mark_complete, only for a repository that succeeded. *)
Mark ==
  /\ pc = "mark"
  /\ marker' = IF result = "ok" THEN marker \union {Dir(Here)} ELSE marker
  /\ runs' = [s \in DOMAIN runs \union {Here} |-> IF s = Here THEN result ELSE runs[s]]
  /\ result' = "none"
  /\ pc' = "checkpoint"
  /\ UNCHANGED <<selection, record, manifest, whole, chained, forced, carried, at,
                 wanted, gaps, parcel, clones, faults>>

\* Faulty variant: steps past the last repository.
FaultyCheckpoint ==
  /\ pc = "checkpoint"
  /\ record' = [complete |-> FALSE, entries |-> runs]
  /\ at' = at + 1
  /\ pc' = IF at < Len(selection) THEN "decide" ELSE "finish"
  /\ UNCHANGED <<selection, manifest, marker, whole, chained, forced, carried, runs,
                 result, wanted, gaps, parcel, clones, faults>>

(* write_progress after every repository: what is settled so far. *)
Checkpoint ==
  /\ pc = "checkpoint"
  /\ record' = [complete |-> FALSE, entries |-> runs]
  /\ IF at < Len(selection)
     THEN at' = at + 1 /\ pc' = "decide"
     ELSE UNCHANGED at /\ pc' = "finish"
  /\ UNCHANGED <<selection, manifest, marker, whole, chained, forced, carried, runs,
                 result, wanted, gaps, parcel, clones, faults>>

(* The sweep ends: the record is complete. The chain goes on to package      *)
(* unless every repository failed.                                           *)
Finish ==
  /\ pc = "finish"
  /\ record' = [complete |-> TRUE, entries |-> runs]
  /\ IF chained /\ Audited(runs) # {}
     THEN pc' = "package" /\ UNCHANGED process
     ELSE Ends
  /\ UNCHANGED <<selection, manifest, marker, whole, parcel, clones, faults>>

\* Faulty variant: passes over a directory that cannot be read.
FaultyPackable == record.complete /\ Audited(record.entries) # {}

(* from_checkpoint and assemble: the record is complete, something in it     *)
(* succeeded, and every directory to be packed is there to be read.          *)
Packable ==
  /\ record.complete
  /\ Audited(record.entries) # {}
  /\ \A s \in Audited(record.entries) : manifest[Dir(s)] # "gone"

Assemble(by, unattempted) ==
  parcel' = [by      |-> by,
             audited |-> Audited(record.entries),
             named   |-> {s[2] : s \in DOMAIN record.entries} \union unattempted,
             wanted  |-> wanted,
             halves  |-> Audited(record.entries) \ whole]

(* `taudit package`, on whatever the last sweep recorded. *)
Package ==
  /\ pc = "idle"
  /\ Packable
  /\ Assemble("package", {})
  /\ UNCHANGED <<disk, pc, process, clones, faults>>

\* Faulty variant: the gaps are added after the archive is written.
FaultyChainPackage ==
  /\ pc = "package"
  /\ IF Packable THEN Assemble("chain", {}) ELSE UNCHANGED parcel
  /\ Ends
  /\ UNCHANGED <<disk, clones, faults>>

(* The chain's last phase, which may also refuse. *)
ChainPackage ==
  /\ pc = "package"
  /\ IF Packable THEN Assemble("chain", gaps) ELSE UNCHANGED parcel
  /\ Ends
  /\ UNCHANGED <<disk, clones, faults>>

-----------------------------------------------------------------------------
(* The process is killed, or an error of the sweep itself ends it: a child   *)
(* cannot be spawned, a marker or a checkpoint cannot be written. A child it *)
(* had running leaves its manifest at any stage.                             *)
Stop ==
  /\ pc # "idle"
  /\ forced => MayStopForced
  /\ Fault
  /\ IF pc = "child"
     THEN \E left \in {manifest[Dir(Here)], "unusable", "usable"} :
            manifest' = [manifest EXCEPT ![Dir(Here)] = left]
     ELSE UNCHANGED manifest
  /\ Ends
  /\ UNCHANGED <<selection, record, marker, whole, parcel, clones>>

(* The operator deletes an output directory no child is working in. *)
Lose(d) ==
  /\ manifest[d] # "gone"
  /\ pc \in {"child", "ground", "mark"} => d # Dir(Here)
  /\ Fault
  /\ manifest' = [manifest EXCEPT ![d] = "gone"]
  /\ marker' = marker \ {d}
  /\ whole' = {s \in whole : Dir(s) # d}
  /\ UNCHANGED <<selection, record, pc, process, parcel, clones>>

SweepStep ==
  \/ Begin
  \/ Carry
  \/ Refuse
  \/ Spawn
  \/ \E ok \in BOOLEAN, left \in {"bare", "unusable", "usable"} : ChildExits(ok, left)
  \/ Ground
  \/ Mark
  \/ Checkpoint
  \/ Finish
  \/ ChainPackage

Operator ==
  \/ \E request \in Requests : \E usable \in SUBSET Range(request) :
       \/ Clone(request, usable)
       \/ \E fresh \in BOOLEAN : Materialize(request, usable, fresh)
  \/ \E fresh, chain \in BOOLEAN : Start(fresh, chain)
  \/ Package

Next ==
  \/ SweepStep
  \/ Operator
  \/ Stop
  \/ \E d \in Dirs : Lose(d)

Spec == Init /\ [][Next]_vars

(* A running sweep goes on, and an operator whose sweep has ended starts     *)
(* another one.                                                              *)
FairSpec ==
  /\ Spec
  /\ WF_vars(SweepStep)
  /\ WF_vars(\E fresh, chain \in BOOLEAN : Start(fresh, chain))

-----------------------------------------------------------------------------
(* The types of the variables. *)
TypeOK ==
  /\ selection \in Seq(Repos)
  /\ DOMAIN selection \subseteq Indices
  /\ record \in [complete : BOOLEAN, entries : Entries]
  /\ manifest \in [Dirs -> {"gone", "bare", "unusable", "usable"}]
  /\ marker \subseteq Dirs
  /\ whole \subseteq Slots
  /\ pc \in {"idle", "begin", "decide", "child", "ground", "mark", "checkpoint",
             "finish", "package"}
  /\ chained \in BOOLEAN
  /\ forced \in BOOLEAN
  /\ carried \subseteq Indices
  /\ runs \in Entries
  /\ at \in Indices \union {0}
  /\ result \in {"none", "ok", "failed"}
  /\ wanted \subseteq Repos
  /\ gaps \subseteq Repos
  /\ parcel \in [by : {"none", "package", "chain"}, audited : SUBSET Slots,
                 named : SUBSET Repos, wanted : SUBSET Repos, halves : SUBSET Slots]
  /\ clones \in 0..MaxClones
  /\ faults \in 0..MaxFaults

(* The slots whose directory no other repository's name leads to as well. *)
HasOwnDir(s) == \A r \in Repos : Stem[r] = Stem[s[2]] => r = s[2]

(* What a sweep started now would carry over was audited to the end: its     *)
(* child, the grounding, the inference stamp and the OSV lookup have all run *)
(* since that child began (checkpoint.rs `plan`, verify.rs `mark_complete`), *)
(* and no other repository was audited in its directory since. Names that    *)
(* sanitize alike are left out: the marker says only that the directory was  *)
(* finished once, not for which repository.                                  *)
CarriedIsWhole ==
  pc \in {"idle", "begin"} =>
    \A s \in Slots : Carriable(s) /\ HasOwnDir(s) => s \in whole

(* Every report the chain ships as audited comes from a directory every      *)
(* writer finished, whatever the sweep resumed from (chain.rs `assemble`),   *)
(* with the same exception.                                                  *)
ChainParcelIsWhole ==
  parcel.by = "chain" => \A s \in parcel.halves : ~HasOwnDir(s)

(* The chain's deliverable leaves no registered target unmentioned: each is  *)
(* audited, or recorded as failed, or stated as a gap (chain.rs `audit`).    *)
ParcelAccountsForAll == parcel.by = "chain" => parcel.wanted \subseteq parcel.named

(* A resumed sweep, dying or not, never turns a repository of the selection  *)
(* that was saved into one to be audited again, unless its directory was     *)
(* deleted (run.rs: the record starts as the plan, not as an empty list) or  *)
(* is another repository's as well.                                          *)
WorkIsKept ==
  [][\A s \in SlotsOf(selection) :
       Carriable(s) /\ HasOwnDir(s) /\ ~forced =>
         (Carriable(s))' \/ manifest'[Dir(s)] = "gone"]_vars

AllAudited ==
  /\ record.complete
  /\ SlotsOf(selection) \subseteq Audited(record.entries)

(* However often sweeps die and repositories fail, an operator who keeps     *)
(* re-running gets the whole selection audited once that stops.              *)
EventuallyAudited == []<>(selection # <<>>) => []<>AllAudited
=============================================================================
