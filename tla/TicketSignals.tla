--------------------------- MODULE TicketSignals ---------------------------
(***************************************************************************)
(* Tier 0.5 of a classification run: what the tickets a commit message      *)
(* names say about it. The resolver's cache is warmed source by source with *)
(* every ticket of the batch, several requests at a time, and then every    *)
(* message is resolved against it, several at a time again. GitHub requests *)
(* share one FetchBudget; the other services are asked once per ticket.     *)
(***************************************************************************)
EXTENDS FetchBudget, Sequences, Functions, FiniteSetsExt

CONSTANTS
  Kind,        \* the configured sources in order: "jira", "github" or "other"
  Messages,    \* commit messages
  Tickets,     \* tickets, each as one source knows it
  Refs,        \* Refs[m][s]: the tickets of source s that message m names
  Signal,      \* Signal[t]: the category ticket t stands for, or None
  MaxLookups,  \* MAX_REFERENCE_LOOKUPS
  MaxFaults,   \* bad answers and failed writes (bounds the model)
  None,
  Unknown      \* not in the cache

Sources == DOMAIN Kind

ASSUME SignalAssumption ==
  /\ Calls # {}
  /\ Kind \in Seq({"jira", "github", "other"}) \ {<<>>}
  /\ Refs \in [Messages -> [Sources -> Seq(Tickets)]]
  /\ \A m, n \in Messages : \A s, q \in Sources :
       s # q => Range(Refs[m][s]) \intersect Range(Refs[n][q]) = {}
  /\ Unknown \notin Range(Signal) \union {None}
  /\ DOMAIN Signal = Tickets
  /\ MaxLookups \in Nat \ {0}
  /\ MaxFaults \in Nat
  /\ None \notin Messages \union Tickets

VARIABLES
  pc,       \* where the run stands
  cache,    \* the resolver's cache, of all sources
  stage,    \* the source being warmed
  misses,   \* the tickets of it still to ask for
  answers,  \* what those asked for have brought
  todo,     \* the messages still to resolve
  job,      \* the ticket or message each call works on
  at,       \* the source a message is being resolved by
  batch,    \* the tickets its request loop asks for
  got,      \* the answers to the first of them
  signals,  \* the signal found for each message
  misread,  \* the tickets a failed request made look as if they said nothing
  refused,  \* those a request for which brought no answer at all
  heard,    \* those whose own signal was brought, and those brought again
  faults    \* bad answers and failed writes so far

warm == <<stage, misses, answers>>
work == <<job, at, batch, got>>
tally == <<misread, refused, heard>>
signalVars == <<cache, warm, todo, work, signals, tally>>

Fault == faults < MaxFaults /\ faults' = faults + 1

Nothing(t) == t \in {None, Unknown}

(* The signal of the first of these tickets that is known to have one. *)
Found(refs, known) ==
  LET hits == {i \in DOMAIN refs : ~Nothing(known[refs[i]])}
  IN  IF hits = {} THEN None ELSE known[refs[Min(hits)]]

(* The n-th of these positions. *)
Nth(positions, n) ==
  CHOOSE i \in positions : Cardinality({j \in positions : j <= i}) = n

(* What source s asks for when it finds no signal for m in the cache: JIRA   *)
(* what is not cached, the others all the message names, GitHub up to a cap. *)
Wanted(m, s, known) ==
  LET refs == Refs[m][s]
      missing == {i \in DOMAIN refs : known[refs[i]] = Unknown}
  IN  CASE Kind[s] = "jira"   -> [n \in 1..Cardinality(missing) |-> refs[Nth(missing, n)]]
        [] Kind[s] = "github" -> SubSeq(refs, 1, Min({Len(refs), MaxLookups}))
        [] OTHER              -> refs

\* Faulty variant: a source whose tickets are all cached is asked again.
FaultyIsPassed(m, s, known) ==
  Found(Refs[m][s], known) = None /\ Refs[m][s] = <<>>

(* A source that has nothing to say about m, and nothing to ask. *)
IsPassed(m, s, known) ==
  Found(Refs[m][s], known) = None /\ Wanted(m, s, known) = <<>>

SignalInit ==
  /\ FetchInit
  /\ cache = [t \in Tickets |-> Unknown]
  /\ stage = 1
  /\ misses = {}
  /\ answers = [t \in Tickets |-> Unknown]
  /\ todo = {}
  /\ job = [w \in Calls |-> None]
  /\ at = [w \in Calls |-> 1]
  /\ batch = [w \in Calls |-> <<>>]
  /\ got = [w \in Calls |-> <<>>]
  /\ signals = [m \in Messages |-> None]
  /\ misread = {}
  /\ refused = {}
  /\ heard = [t \in Tickets |-> 0]

(* The tickets of source s in these messages. *)
Named(ms, s) == UNION {Range(Refs[m][s]) : m \in ms}

(* resolve_external_signals begins, with a resolver built for this run. *)
BeginSignals(ms) ==
  /\ FetchReset
  /\ cache' = [t \in Tickets |-> Unknown]
  /\ stage' = 1
  /\ misses' = Named(ms, 1)
  /\ answers' = [t \in Tickets |-> Unknown]
  /\ todo' = ms
  /\ job' = [w \in Calls |-> None]
  /\ at' = [w \in Calls |-> 1]
  /\ batch' = [w \in Calls |-> <<>>]
  /\ got' = [w \in Calls |-> <<>>]
  /\ signals' = [m \in Messages |-> None]
  /\ misread' = {}
  /\ refused' = {}
  /\ heard' = [t \in Tickets |-> 0]

-----------------------------------------------------------------------------
(* Warming. *)

WarmTake(w) ==
  /\ pc = "warm"
  /\ job[w] = None
  /\ \E t \in misses :
       /\ misses' = misses \ {t}
       /\ job' = [job EXCEPT ![w] = t]
       /\ batch' = [batch EXCEPT ![w] = <<t>>]
  /\ at' = [at EXCEPT ![w] = stage]
  /\ got' = [got EXCEPT ![w] = <<>>]
  /\ UNCHANGED <<fetchVars, pc, cache, stage, answers, todo, signals, tally, faults>>

\* Faulty variant: what brought no answer is cached too, as saying nothing.
FaultyWarmed(t) == IF answers[t] = Unknown THEN None ELSE answers[t]

(* Only a ticket there was an answer for is cached (#6084). *)
Warmed(t) == IF answers[t] = Unknown THEN cache[t] ELSE answers[t]

(* warm_generic fills the cache once all its requests are over; then the     *)
(* next source's misses are collected, and after the last one the messages   *)
(* are resolved.                                                             *)
WarmNext ==
  /\ pc = "warm"
  /\ misses = {}
  /\ \A w \in Calls : job[w] = None
  /\ cache' = [t \in Tickets |-> IF t \in Named(todo, stage) THEN Warmed(t) ELSE cache[t]]
  /\ IF stage < Len(Kind)
     THEN /\ stage' = stage + 1
          /\ misses' = {t \in Named(todo, stage + 1) : cache[t] = Unknown}
          /\ UNCHANGED pc
     ELSE pc' = "apply" /\ UNCHANGED <<stage, misses>>
  /\ UNCHANGED <<fetchVars, answers, todo, work, signals, tally, faults>>

-----------------------------------------------------------------------------
(* Resolving. *)

(* From source s on, message m is looked up in the cache, up to the first    *)
(* source that has a signal for it or something to ask.                      *)
Consult(w, m, s, known) ==
  LET left == {q \in s..Len(Kind) : ~IsPassed(m, q, known)}
      q == Min(left)
      signal == IF left = {} THEN None ELSE Found(Refs[m][q], known)
  IN  IF left = {} \/ signal # None
      THEN /\ signals' = [signals EXCEPT ![m] = signal]
           /\ job' = [job EXCEPT ![w] = None]
           /\ batch' = [batch EXCEPT ![w] = <<>>]
           /\ got' = [got EXCEPT ![w] = <<>>]
           /\ at' = [at EXCEPT ![w] = 1]
      ELSE /\ job' = [job EXCEPT ![w] = m]
           /\ at' = [at EXCEPT ![w] = q]
           /\ batch' = [batch EXCEPT ![w] = Wanted(m, q, known)]
           /\ got' = [got EXCEPT ![w] = <<>>]
           /\ UNCHANGED signals

ResolveTake(w) ==
  /\ pc = "apply"
  /\ job[w] = None
  /\ \E m \in todo : todo' = todo \ {m} /\ Consult(w, m, 1, cache)
  /\ UNCHANGED <<fetchVars, pc, cache, warm, tally, faults>>

(* A batch that found nothing hands the message to the next source. *)
Settle(w, seen) ==
  LET known == [t \in Tickets |->
                  IF \E i \in DOMAIN seen : batch[w][i] = t
                  THEN seen[CHOOSE i \in DOMAIN seen : batch[w][i] = t]
                  ELSE cache[t]]
      asked == SubSeq(batch[w], 1, Len(seen))
      signal == Found(asked, known)
  IN  /\ cache' = known
      /\ IF signal # None
         THEN /\ signals' = [signals EXCEPT ![job[w]] = signal]
              /\ job' = [job EXCEPT ![w] = None]
              /\ batch' = [batch EXCEPT ![w] = <<>>]
              /\ got' = [got EXCEPT ![w] = <<>>]
              /\ at' = [at EXCEPT ![w] = 1]
         ELSE Consult(w, job[w], at[w] + 1, known)

-----------------------------------------------------------------------------
(* The requests of both passes. *)

Asking(w) == batch[w][Len(got[w]) + 1]

Ask(w) ==
  /\ job[w] # None
  /\ phase[w] = "free"
  /\ IF Kind[at[w]] = "github"
     THEN Enter(w)
     ELSE Become(w, "sent") /\ UNCHANGED <<budget, attempt, late>>
  /\ UNCHANGED <<signalVars, pc, faults>>

(* The services answer, well or badly, if they answer at all: the clients    *)
(* are built without a timeout.                                              *)
Service(w) ==
  /\ \/ Answer(w, "answered") /\ UNCHANGED faults
     \/ Answer(w, "failed") /\ Fault
     \/ /\ Kind[at[w]] = "github"
        /\ (\E delay \in Delays : RateLimited(w, delay)) \/ Transient(w)
        /\ Fault
  /\ UNCHANGED <<signalVars, pc>>

(* A call that waited GitHub out sends again. *)
Rouse(w) == Wake(w) /\ UNCHANGED <<signalVars, pc, faults>>

(* What a finished request tells of its ticket. A failure says nothing, as   *)
(* if the ticket did; GitHub tells a rate limit or a transport error apart.  *)
Readings(w) ==
  CASE phase[w] = "answered"  -> {Signal[Asking(w)]}
    [] phase[w] = "throttled" -> {Unknown}
    [] OTHER -> IF Kind[at[w]] = "github" THEN {None, Unknown} ELSE {None}

(* A batch stops at the first ticket it gets no answer for. *)
Receive(w) ==
  /\ job[w] # None
  /\ Take(w)
  /\ \E v \in Readings(w) :
       LET t == Asking(w)
           seen == IF v = Unknown THEN got[w] ELSE Append(got[w], v)
       IN  /\ misread' = IF v = None /\ phase[w] = "failed" THEN misread \union {t} ELSE misread
           /\ refused' = IF v = Unknown THEN refused \union {t} ELSE refused
           /\ heard' = IF Nothing(v) THEN heard
                       ELSE [heard EXCEPT ![t] = Min({@ + 1, 2})]
           /\ IF pc = "warm"
              THEN /\ answers' = [answers EXCEPT ![t] = v]
                   /\ job' = [job EXCEPT ![w] = None]
                   /\ batch' = [batch EXCEPT ![w] = <<>>]
                   /\ at' = [at EXCEPT ![w] = 1]
                   /\ UNCHANGED <<got, cache, signals>>
              ELSE /\ IF v # Unknown /\ Len(seen) < Len(batch[w])
                      THEN got' = [got EXCEPT ![w] = seen]
                           /\ UNCHANGED <<cache, job, at, batch, signals>>
                      ELSE Settle(w, seen)
                   /\ UNCHANGED answers
  /\ UNCHANGED <<pc, stage, misses, todo, faults>>

(* What the resolver does without waiting for anybody. *)
OwnStep ==
  \/ WarmNext
  \/ \E w \in Calls : WarmTake(w) \/ ResolveTake(w) \/ Ask(w) \/ Rouse(w) \/ Receive(w)

SignalStep == OwnStep \/ \E w \in Calls : Service(w)

(* Every message has been resolved. *)
SignalsOver == pc = "apply" /\ todo = {} /\ \A w \in Calls : job[w] = None

-----------------------------------------------------------------------------
SignalType ==
  /\ FetchType
  /\ cache \in [Tickets -> Range(Signal) \union {None, Unknown}]
  /\ answers \in [Tickets -> Range(Signal) \union {None, Unknown}]
  /\ stage \in Nat \ {0}
  /\ misses \subseteq Tickets
  /\ todo \subseteq Messages
  /\ job \in [Calls -> Messages \union Tickets \union {None}]
  /\ at \in [Calls -> Nat \ {0}]
  /\ batch \in [Calls -> Seq(Tickets)]
  /\ got \in [Calls -> Seq(Range(Signal) \union {None})]
  /\ \A w \in Calls : job[w] # None => Len(got[w]) < Len(batch[w])
  /\ signals \in [Messages -> Range(Signal) \union {None}]
  /\ misread \subseteq Tickets
  /\ refused \subseteq Tickets
  /\ heard \in [Tickets -> 0..2]
  /\ faults \in 0..MaxFaults

=============================================================================
