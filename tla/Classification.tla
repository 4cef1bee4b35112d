--------------------------- MODULE Classification ---------------------------
(***************************************************************************)
(* Runs of `tga classify` over one database: the candidates are read, rules *)
(* and overrides give each a verdict, its tickets a better one, the LLM may *)
(* beat a weak one, the calls are put on the bill, and the verdicts are     *)
(* written chunk by chunk. A run may fail or be killed anywhere; the next   *)
(* one takes up what has no verdict.                                        *)
(***************************************************************************)
EXTENDS TicketSignals

CONSTANTS
  Commits,      \* the rows of the commits table
  Message,      \* Message[c]: the message of commit c
  Overridden,   \* the commits with a manual override or a repo-map verdict
  Weak,         \* those whose rule verdict the LLM may revisit
  WeakSignals,  \* the signals it may: of no more confidence than llm_threshold
  ChunkSize     \* checkpoint_every, or all commits

ASSUME CommitAssumption ==
  /\ Message \in [Commits -> Messages]
  /\ Overridden \subseteq Commits
  /\ Weak \subseteq Commits
  /\ WeakSignals \subseteq Range(Signal)
  /\ ChunkSize \in Nat \ {0}

VARIABLES
  stored,   \* the verdict the database holds for each commit
  billed,   \* the commits with an llm_usage row
  forced,   \* whether the run was given --force
  picked,   \* its candidates
  results,  \* their verdicts so far
  reply,    \* what the LLM made of each
  left      \* the candidates still to write

run == <<forced, picked, results, reply, left>>
vars == <<fetchVars, signalVars, pc, faults, stored, billed, run>>

Verdict(by, of) == [by |-> by, of |-> of]
NoVerdict == Verdict("none", None)

Init ==
  /\ SignalInit
  /\ pc = "idle"
  /\ faults = 0
  /\ stored = [c \in Commits |-> NoVerdict]
  /\ billed = {}
  /\ forced = FALSE
  /\ picked = {}
  /\ results = [c \in Commits |-> NoVerdict]
  /\ reply = [c \in Commits |-> "none"]
  /\ left = {}

-----------------------------------------------------------------------------
(* read_candidate_commits: those without a verdict, or all under --force. *)
Candidates(force) == {c \in Commits : force \/ stored[c] = NoVerdict}

(* The messages resolve_external_signals is asked about. *)
Messaged(cs) == {Message[c] : c \in cs \ Overridden}

RuleVerdict(c) == Verdict(IF c \in Overridden THEN "override" ELSE "rule", None)

\* Faulty variant: every message is resolved at once, without the warm pass.
ColdStart(force) ==
  /\ pc = "idle"
  /\ Candidates(force) # {}
  /\ forced' = force
  /\ picked' = Candidates(force)
  /\ results' = [c \in Commits |-> IF c \in picked' THEN RuleVerdict(c) ELSE NoVerdict]
  /\ BeginSignals(Messaged(picked'))
  /\ pc' = IF Messaged(picked') = {} THEN "llm" ELSE "apply"
  /\ reply' = [c \in Commits |-> "none"]
  /\ left' = {}
  /\ UNCHANGED <<faults, stored, billed>>

(* A run without candidates ends at once. *)
Start(force) ==
  /\ pc = "idle"
  /\ Candidates(force) # {}
  /\ forced' = force
  /\ picked' = Candidates(force)
  /\ results' = [c \in Commits |-> IF c \in picked' THEN RuleVerdict(c) ELSE NoVerdict]
  /\ BeginSignals(Messaged(picked'))
  /\ pc' = IF Messaged(picked') = {} THEN "llm" ELSE "warm"
  /\ reply' = [c \in Commits |-> "none"]
  /\ left' = {}
  /\ UNCHANGED <<faults, stored, billed>>

Resolve ==
  /\ SignalStep
  /\ UNCHANGED <<stored, billed, run>>

(* A signal goes to every commit with its message, overridden ones apart. *)
ApplySignals ==
  /\ SignalsOver
  /\ pc' = "llm"
  /\ results' = [c \in Commits |->
                   IF c \in picked \ Overridden /\ signals[Message[c]] # None
                   THEN Verdict("ticket", signals[Message[c]])
                   ELSE results[c]]
  /\ UNCHANGED <<fetchVars, signalVars, faults, stored, billed, forced, picked, reply, left>>

\* Faulty variant: goes by the rule verdict, whatever the tickets said.
FaultyPending == picked \intersect Weak

(* A verdict the LLM may revisit. Under the default threshold no ticket's is. *)
IsWeak(c) ==
  \/ results[c].by = "rule" /\ c \in Weak
  \/ results[c].by = "ticket" /\ results[c].of \in WeakSignals

Pending == {c \in picked : IsWeak(c)}

(* run_llm_fallback: the calls end in any order, with a better verdict, with *)
(* none, or without having been sent; one that is not answered does not end. *)
CallLlm(c) ==
  /\ pc = "llm"
  /\ c \in Pending
  /\ reply[c] = "none"
  /\ \E r \in {"better", "worse", "unsent"} : reply' = [reply EXCEPT ![c] = r]
  /\ UNCHANGED <<fetchVars, signalVars, pc, faults, stored, billed, forced, picked, results, left>>

(* Nothing is adopted before all calls are over. *)
Adopt ==
  /\ pc = "llm"
  /\ \A c \in Pending : reply[c] # "none"
  /\ results' = [c \in Commits |->
                   IF reply[c] = "better" THEN Verdict("llm", None) ELSE results[c]]
  /\ pc' = "bill"
  /\ UNCHANGED <<fetchVars, signalVars, faults, stored, billed, forced, picked, reply, left>>

\* Faulty variant: the calls are put on the bill after the verdicts.
FaultyRecordUsage ==
  /\ pc = "bill"
  /\ pc' = "write"
  /\ left' = picked
  /\ billed' = IF \A c \in picked : stored[c] = results[c]
               THEN billed \union {c \in Commits : reply[c] # "none"}
               ELSE billed
  /\ UNCHANGED <<fetchVars, signalVars, faults, stored, forced, picked, results, reply>>

(* record_usage, in one transaction, before any verdict is written: a row    *)
(* for every call, skipped ones included.                                    *)
RecordUsage ==
  /\ pc = "bill"
  /\ billed' = billed \union {c \in Commits : reply[c] # "none"}
  /\ pc' = "write"
  /\ left' = picked
  /\ UNCHANGED <<fetchVars, signalVars, faults, stored, forced, picked, results, reply>>

\* Faulty variant: only whole chunks are written.
FaultyChunks ==
  IF Cardinality(left) < ChunkSize THEN {{}} ELSE kSubset(ChunkSize, left)

(* The chunks that may come next: the candidates come in no set order. *)
Chunks == kSubset(Min({ChunkSize, Cardinality(left)}), left)

Forget ==
  /\ BeginSignals({})
  /\ pc' = "idle"
  /\ forced' = FALSE
  /\ picked' = {}
  /\ results' = [c \in Commits |-> NoVerdict]
  /\ reply' = [c \in Commits |-> "none"]

(* write_results_chunk: one transaction per chunk; after the last the run is *)
(* over.                                                                     *)
WriteChunk ==
  /\ pc = "write"
  /\ \E chunk \in Chunks :
       /\ stored' = [c \in Commits |-> IF c \in chunk THEN results[c] ELSE stored[c]]
       /\ left' = IF Cardinality(left) <= ChunkSize THEN {} ELSE left \ chunk
  /\ IF left' = {}
     THEN Forget
     ELSE UNCHANGED <<fetchVars, signalVars, pc, forced, picked, results, reply>>
  /\ UNCHANGED <<faults, billed>>

(* The run is killed, or a transaction of it fails and rolls back. *)
Die ==
  /\ pc # "idle"
  /\ Fault
  /\ Forget
  /\ left' = {}
  /\ UNCHANGED <<stored, billed>>

RunStep ==
  \/ Resolve
  \/ ApplySignals
  \/ \E c \in Commits : CallLlm(c)
  \/ Adopt
  \/ RecordUsage
  \/ WriteChunk

Next ==
  \/ RunStep
  \/ \E force \in BOOLEAN : Start(force)
  \/ Die

Spec == Init /\ [][Next]_vars

(* What a run does by itself: everything but having a request answered. *)
OwnRunStep ==
  \/ OwnStep /\ UNCHANGED <<stored, billed, run>>
  \/ ApplySignals
  \/ Adopt
  \/ RecordUsage
  \/ WriteChunk

(* A run goes on, and the operator runs `tga classify` again. The services   *)
(* and the LLM may leave a request unanswered for ever: neither               *)
(* ExternalSourceResolver::new nor LlmClassifier::base sets a timeout.       *)
FairSpec ==
  /\ Spec
  /\ WF_vars(OwnRunStep)
  /\ WF_vars(\E force \in BOOLEAN : Start(force))

-----------------------------------------------------------------------------
Verdicts == [by : {"none", "override", "rule", "ticket", "llm"},
             of : Range(Signal) \union {None}]

(* The types of the variables. *)
TypeOK ==
  /\ SignalType
  /\ pc \in {"idle", "warm", "apply", "llm", "bill", "write"}
  /\ stored \in [Commits -> Verdicts]
  /\ billed \subseteq Commits
  /\ forced \in BOOLEAN
  /\ picked \subseteq Commits
  /\ results \in [Commits -> Verdicts]
  /\ reply \in [Commits -> {"none", "better", "worse", "unsent"}]
  /\ left \subseteq picked

(* The signal of the first ticket that has one, in the order of the sources. *)
FirstSignal(m) ==
  LET says == {s \in Sources : Found(Refs[m][s], Signal) # None}
  IN  IF says = {} THEN None ELSE Found(Refs[m][Min(says)], Signal)

Troubled(m) == \E s \in Sources :
  Range(Refs[m][s]) \intersect (misread \union refused) # {}

(* Whatever the requests of other messages did to the cache meanwhile, a     *)
(* commit whose tickets were all read gets the verdict of the first ticket   *)
(* that has one (#2719). No rule displaces it, and the LLM only one of no    *)
(* more confidence than its threshold.                                       *)
TicketsSpeak ==
  pc \in {"bill", "write"} =>
    \A c \in picked \ Overridden :
      LET signal == FirstSignal(Message[c])
      IN  ~Troubled(Message[c]) =>
            IF signal = None
            THEN results[c].by \in {"rule", "llm"}
            ELSE \/ results[c] = Verdict("ticket", signal)
                 \/ signal \in WeakSignals /\ results[c].by = "llm"

(* No request that GitHub refused is remembered as a ticket that says        *)
(* nothing: of those, the cache holds only what an answer told it (#6084).   *)
RefusalIsNotCached ==
  \A t \in Tickets : cache[t] = None => Signal[t] = None \/ t \in misread

(* A ticket that has a signal is brought once in a run, however many         *)
(* messages name it, unless a request for it went wrong (warm.rs: "every     *)
(* unique ticket is fetched at most once").                                  *)
BroughtOnce ==
  \A t \in Tickets : heard[t] > 1 => t \in misread \union refused

(* A verdict of the LLM is in the database only together with the record of  *)
(* its call, wherever the run died (#111).                                   *)
BilledBeforeStored == \A c \in Commits : stored[c].by = "llm" => c \in billed

(* A request that is never answered: to a service, or to the LLM. *)
Hangs ==
  \/ \E w \in Calls : <>[](phase[w] = "sent")
  \/ \E c \in Commits : <>[](pc = "llm" /\ c \in Pending /\ reply[c] = "none")

(* Runs that die lose only what they had not written: unless a request hangs *)
(* for ever and its run with it, every commit gets a verdict in the end. No  *)
(* other wait in a run is endless: not for GitHub's allowance, nor for a     *)
(* call slot, nor for another message's tickets.                             *)
EventuallyClassified ==
  Hangs \/ <>[](\A c \in Commits : stored[c] # NoVerdict)

=============================================================================
