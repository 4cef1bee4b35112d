------------------------ MODULE Classification_proofs ------------------------
(***************************************************************************)
(* Theorems about classification runs, for any sources, tickets, messages,  *)
(* commits, requests in flight, faults and deaths: which verdicts are on    *)
(* the bill, what a refused request leaves in the cache, how long GitHub's  *)
(* requests wait, the types, how often a ticket is brought, and that what   *)
(* the tickets say goes before the rules and the LLM.                       *)
(***************************************************************************)
EXTENDS Classification, FiniteSetTheorems, WellFoundedInduction, TLAPS

-----------------------------------------------------------------------------
(* The bill. Before the calls no verdict is the LLM's; then those that are   *)
(* answered a call that counts, and then the call is billed.                 *)
BillInv ==
  /\ pc \in {"idle", "warm", "apply", "llm"} => \A c \in Commits : results[c].by # "llm"
  /\ pc = "bill" => \A c \in Commits : results[c].by = "llm" => reply[c] = "better"
  /\ pc = "write" => \A c \in Commits : results[c].by = "llm" => c \in billed
  /\ BilledBeforeStored

LEMMA SignalStepKeepsBill ==
  ASSUME BillInv, Resolve
  PROVE  BillInv'
<1>1. UNCHANGED <<stored, billed, results, reply>>
  BY DEF Resolve, run
<1>2. pc' = pc \/ (pc = "warm" /\ pc' = "apply")
  BY DEF Resolve, SignalStep, OwnStep, WarmNext, WarmTake, ResolveTake, Ask, Service, Rouse, Receive
<1>. QED BY <1>1, <1>2 DEF BillInv, BilledBeforeStored

LEMMA ForgetKeepsBill ==
  ASSUME Forget, BilledBeforeStored'
  PROVE  BillInv'
BY DEF Forget, BillInv, NoVerdict, Verdict

LEMMA WriteKeepsBill == ASSUME BillInv, WriteChunk PROVE BillInv'
<1>. PICK chunk \in Chunks :
       stored' = [c \in Commits |-> IF c \in chunk THEN results[c] ELSE stored[c]]
  BY DEF WriteChunk
<1>1. pc = "write" /\ billed' = billed
  BY DEF WriteChunk
<1>2. BilledBeforeStored'
  BY <1>1 DEF BillInv, BilledBeforeStored
<1>3. CASE Forget
  BY <1>2, <1>3, ForgetKeepsBill
<1>4. CASE UNCHANGED <<pc, results, reply>>
  BY <1>1, <1>2, <1>4 DEF BillInv
<1>. QED BY <1>3, <1>4 DEF WriteChunk

LEMMA BillKept == ASSUME BillInv, [Next]_vars PROVE BillInv'
<1>1. CASE UNCHANGED vars
  BY <1>1 DEF vars, run, BillInv, BilledBeforeStored
<1>2. CASE Resolve
  BY <1>2, SignalStepKeepsBill
<1>3. CASE ApplySignals
  <2>1. \A c \in Commits : results'[c].by # "llm"
    BY <1>3 DEF ApplySignals, SignalsOver, BillInv, Verdict
  <2>2. pc' = "llm" /\ UNCHANGED <<stored, billed>>
    BY <1>3 DEF ApplySignals
  <2>. QED BY <2>1, <2>2 DEF BillInv, BilledBeforeStored
<1>4. ASSUME NEW c \in Commits, CallLlm(c) PROVE BillInv'
  BY <1>4 DEF CallLlm, BillInv, BilledBeforeStored
<1>5. CASE Adopt
  <2>1. \A c \in Commits : results'[c].by = "llm" => reply[c] = "better"
    BY <1>5 DEF Adopt, BillInv, Verdict
  <2>2. pc' = "bill" /\ UNCHANGED <<stored, billed, reply>>
    BY <1>5 DEF Adopt
  <2>. QED BY <2>1, <2>2 DEF BillInv, BilledBeforeStored
<1>6. CASE RecordUsage
  <2>1. \A c \in Commits : results[c].by = "llm" => c \in billed'
    BY <1>6 DEF RecordUsage, BillInv
  <2>2. pc' = "write" /\ UNCHANGED <<stored, results>> /\ billed \subseteq billed'
    BY <1>6 DEF RecordUsage
  <2>. QED BY <2>1, <2>2 DEF BillInv, BilledBeforeStored
<1>7. CASE WriteChunk
  BY <1>7, WriteKeepsBill
<1>8. ASSUME NEW force \in BOOLEAN, Start(force) PROVE BillInv'
  <2>1. \A c \in Commits : results'[c].by # "llm"
    BY <1>8 DEF Start, RuleVerdict, NoVerdict, Verdict
  <2>2. pc' \in {"llm", "warm"} /\ UNCHANGED <<stored, billed>>
    BY <1>8 DEF Start
  <2>. QED BY <2>1, <2>2 DEF BillInv, BilledBeforeStored
<1>9. CASE Die
  <2>1. BilledBeforeStored'
    BY <1>9 DEF Die, BillInv, BilledBeforeStored
  <2>. QED BY <1>9, <2>1, ForgetKeepsBill DEF Die
<1>. QED BY <1>1, <1>2, <1>3, <1>4, <1>5, <1>6, <1>7, <1>8, <1>9 DEF Next, RunStep

(* Wherever a run dies, a verdict of the LLM is in the database only with    *)
(* the record of its call.                                                   *)
THEOREM LlmVerdictsAreBilled == Spec => []BilledBeforeStored
<1>1. Init => BillInv
  BY DEF Init, BillInv, BilledBeforeStored, NoVerdict, Verdict
<1>2. BillInv => BilledBeforeStored
  BY DEF BillInv
<1>. QED BY <1>1, <1>2, BillKept, PTL DEF Spec

-----------------------------------------------------------------------------
(* The cache. Whatever says nothing of a ticket was told by an answer or is  *)
(* the misreading of a failure: in the cache, among the answers of the warm  *)
(* pass, and in what each request loop has got so far.                       *)
Told(t) == Signal[t] = None \/ t \in misread

GotInv(w) ==
  /\ \E S : got[w] \in Seq(S)
  /\ \A i \in DOMAIN got[w] : got[w][i] = None => Told(batch[w][i])

CacheInv ==
  /\ DOMAIN answers = Tickets
  /\ DOMAIN got = Calls /\ DOMAIN batch = Calls
  /\ RefusalIsNotCached
  /\ \A t \in Tickets : answers[t] = None => Told(t)
  /\ \A w \in Calls : GotInv(w)
  /\ pc = "warm" => \A w \in Calls : got[w] = <<>>

LEMMA UnknownIsNotNone == Unknown # None
  BY SignalAssumption

LEMMA EmptyIsSeq == <<>> \in Seq({}) /\ DOMAIN <<>> = {}
  OBVIOUS

LEMMA EmptyGot == ASSUME NEW w, got'[w] = <<>> PROVE GotInv(w)'
  BY EmptyIsSeq DEF GotInv

(* Another reading at the end of what was got. *)
LEMMA AppendIs ==
  ASSUME NEW S, NEW s \in Seq(S), NEW v
  PROVE  /\ Append(s, v) \in Seq(S \union {v})
         /\ DOMAIN Append(s, v) = DOMAIN s \union {Len(s) + 1}
         /\ Append(s, v)[Len(s) + 1] = v
         /\ \A i \in DOMAIN s : Append(s, v)[i] = s[i]
<1>1. s \in Seq(S \union {v})
  OBVIOUS
<1>. QED BY <1>1

LEMMA BeginKeepsCache == ASSUME NEW ms, BeginSignals(ms) PROVE CacheInv'
<1>1. /\ DOMAIN answers' = Tickets /\ DOMAIN got' = Calls /\ DOMAIN batch' = Calls
      /\ \A t \in Tickets : answers'[t] = Unknown /\ cache'[t] = Unknown
      /\ \A w \in Calls : got'[w] = <<>>
  BY DEF BeginSignals
<1>2. ASSUME NEW w \in Calls PROVE GotInv(w)'
  BY <1>1, EmptyGot
<1>. QED BY <1>1, <1>2, UnknownIsNotNone DEF CacheInv, RefusalIsNotCached

(* The next message leaves the cache alone and starts a loop afresh.         *)
LEMMA ConsultKeepsGot ==
  ASSUME CacheInv, NEW w \in Calls, NEW m, NEW s, NEW known, Consult(w, m, s, known)
  PROVE  /\ DOMAIN got' = Calls /\ DOMAIN batch' = Calls
         /\ got'[w] = <<>>
         /\ \A x \in Calls \ {w} : got'[x] = got[x] /\ batch'[x] = batch[x]
BY DEF Consult, CacheInv

LEMMA StillTold == ASSUME misread \subseteq misread', NEW t, Told(t) PROVE Told(t)'
  BY DEF Told

LEMMA OthersGot ==
  ASSUME NEW x, GotInv(x), got'[x] = got[x], batch'[x] = batch[x], misread \subseteq misread'
  PROVE  GotInv(x)'
  BY StillTold DEF GotInv

(* When a loop is over, what it got goes into the cache.                     *)
LEMMA SettleKeepsCache ==
  ASSUME CacheInv, NEW w \in Calls, NEW seen, Settle(w, seen),
         misread \subseteq misread', answers' = answers, pc' # "warm",
         \A i \in DOMAIN seen :
           seen[i] = None => Signal[batch[w][i]] = None \/ batch[w][i] \in misread'
  PROVE  CacheInv'
<1>1. ASSUME NEW t \in Tickets, cache'[t] = None PROVE Told(t)'
  <2>1. CASE \E i \in DOMAIN seen : batch[w][i] = t
    <3>. DEFINE j == CHOOSE i \in DOMAIN seen : batch[w][i] = t
    <3>1. j \in DOMAIN seen /\ batch[w][j] = t
      BY <2>1
    <3>2. cache'[t] = seen[j]
      BY <2>1 DEF Settle
    <3>. QED BY <1>1, <3>1, <3>2 DEF Told
  <2>2. CASE ~\E i \in DOMAIN seen : batch[w][i] = t
    <3>1. cache'[t] = cache[t]
      BY <2>2 DEF Settle
    <3>. QED BY <1>1, <3>1, StillTold DEF CacheInv, RefusalIsNotCached, Told
  <2>. QED BY <2>1, <2>2
<1>2. /\ DOMAIN got' = Calls /\ DOMAIN batch' = Calls
      /\ got'[w] = <<>>
      /\ \A x \in Calls \ {w} : got'[x] = got[x] /\ batch'[x] = batch[x]
  <2>1. CASE \E m, s, known : Consult(w, m, s, known)
    BY <2>1, ConsultKeepsGot
  <2>2. CASE /\ batch' = [batch EXCEPT ![w] = <<>>]
             /\ got' = [got EXCEPT ![w] = <<>>]
    BY <2>2 DEF CacheInv
  <2>. QED BY <2>1, <2>2 DEF Settle
<1>3. ASSUME NEW x \in Calls PROVE GotInv(x)'
  <2>1. CASE x = w
    BY <1>2, <2>1, EmptyGot
  <2>2. CASE x # w
    BY <1>2, <2>2, OthersGot DEF CacheInv
  <2>. QED BY <2>1, <2>2
<1>4. \A t \in Tickets : answers'[t] = None => Told(t)'
  BY StillTold DEF CacheInv
<1>. QED BY <1>1, <1>2, <1>3, <1>4 DEF CacheInv, RefusalIsNotCached, Told

(* A reading that says nothing is an answer that says so or a misreading.    *)
LEMMA ReadingIsTold ==
  ASSUME NEW w \in Calls, NEW v \in Readings(w), phase[w] \in Over, v = None,
         misread' = IF v = None /\ phase[w] = "failed"
                    THEN misread \union {Asking(w)} ELSE misread
  PROVE  Signal[Asking(w)] = None \/ Asking(w) \in misread'
<1>1. CASE phase[w] = "answered"
  BY <1>1 DEF Readings
<1>2. CASE phase[w] = "throttled"
  BY <1>2, UnknownIsNotNone DEF Readings
<1>3. CASE phase[w] = "failed"
  BY <1>3
<1>. QED BY <1>1, <1>2, <1>3 DEF Over

LEMMA ReceiveKeepsCache == ASSUME CacheInv, NEW w \in Calls, Receive(w) PROVE CacheInv'
<1>. DEFINE t == Asking(w)
            more(v) == IF v = Unknown THEN got[w] ELSE Append(got[w], v)
<1>1. PICK v \in Readings(w) :
        /\ misread' = IF v = None /\ phase[w] = "failed" THEN misread \union {t} ELSE misread
        /\ IF pc = "warm"
           THEN /\ answers' = [answers EXCEPT ![t] = v]
                /\ batch' = [batch EXCEPT ![w] = <<>>]
                /\ UNCHANGED <<got, cache>>
           ELSE /\ IF v # Unknown /\ Len(more(v)) < Len(batch[w])
                   THEN got' = [got EXCEPT ![w] = more(v)] /\ UNCHANGED <<cache, batch>>
                   ELSE Settle(w, more(v))
                /\ UNCHANGED answers
  BY DEF Receive
<1>2. pc' = pc /\ phase[w] \in Over
  BY DEF Receive, Take
<1>3. misread \subseteq misread'
  BY <1>1
<1>4. v = None => Signal[t] = None \/ t \in misread'
  BY <1>1, <1>2, ReadingIsTold
<1>5. CASE pc = "warm"
  <2>1. \A x \in Tickets : answers'[x] = None => Told(x)'
    BY <1>1, <1>3, <1>4, <1>5 DEF CacheInv, Told
  <2>2. \A x \in Calls : got'[x] = <<>>
    BY <1>1, <1>5 DEF CacheInv
  <2>3. ASSUME NEW x \in Calls PROVE GotInv(x)'
    BY <2>2, EmptyGot
  <2>4. DOMAIN answers' = Tickets /\ DOMAIN got' = Calls /\ DOMAIN batch' = Calls
    BY <1>1, <1>5 DEF CacheInv
  <2>5. RefusalIsNotCached'
    BY <1>1, <1>3, <1>5 DEF CacheInv, RefusalIsNotCached
  <2>. QED BY <2>1, <2>2, <2>3, <2>4, <2>5 DEF CacheInv
<1>6. CASE pc # "warm"
  <2>1. PICK S : got[w] \in Seq(S)
    BY DEF CacheInv, GotInv
  <2>2. \A i \in DOMAIN got[w] :
          got[w][i] = None => Signal[batch[w][i]] = None \/ batch[w][i] \in misread'
    BY <1>3 DEF CacheInv, GotInv, Told
  <2>3. /\ \E Q : more(v) \in Seq(Q)
        /\ \A i \in DOMAIN more(v) :
             more(v)[i] = None => Signal[batch[w][i]] = None \/ batch[w][i] \in misread'
    <3>1. CASE v = Unknown
      BY <2>1, <2>2, <3>1
    <3>2. CASE v # Unknown
      <4>1. more(v) = Append(got[w], v)
        BY <3>2
      <4>. HIDE DEF more
      <4>5. /\ more(v) \in Seq(S \union {v})
            /\ DOMAIN more(v) = DOMAIN got[w] \union {Len(got[w]) + 1}
            /\ more(v)[Len(got[w]) + 1] = v
            /\ \A i \in DOMAIN got[w] : more(v)[i] = got[w][i]
        BY <2>1, <4>1, AppendIs
      <4>6. ASSUME NEW i \in DOMAIN more(v), more(v)[i] = None
            PROVE  Signal[batch[w][i]] = None \/ batch[w][i] \in misread'
        <5>1. CASE i = Len(got[w]) + 1
          BY <1>4, <4>5, <4>6, <5>1 DEF Asking
        <5>2. CASE i \in DOMAIN got[w]
          BY <2>2, <4>5, <4>6, <5>2
        <5>. QED BY <4>5, <5>1, <5>2
      <4>. QED BY <4>5, <4>6
    <3>. QED BY <3>1, <3>2
  <2>. HIDE DEF more
  <2>4. CASE Settle(w, more(v)) /\ UNCHANGED answers
    BY <1>2, <1>3, <1>6, <2>3, <2>4, SettleKeepsCache
  <2>5. CASE got' = [got EXCEPT ![w] = more(v)] /\ UNCHANGED <<cache, batch, answers>>
    <3>1. ASSUME NEW x \in Calls PROVE GotInv(x)'
      <4>1. CASE x = w
        BY <2>3, <2>5, <4>1 DEF GotInv, Told, CacheInv
      <4>2. CASE x # w
        BY <1>3, <2>5, <4>2, OthersGot DEF CacheInv
      <4>. QED BY <4>1, <4>2
    <3>2. RefusalIsNotCached' /\ \A x \in Tickets : answers'[x] = None => Told(x)'
      BY <1>3, <2>5, StillTold DEF CacheInv, RefusalIsNotCached, Told
    <3>. QED BY <1>2, <1>6, <2>5, <3>1, <3>2 DEF CacheInv
  <2>. QED BY <1>1, <1>6, <2>4, <2>5
<1>. QED BY <1>5, <1>6

(* The warm pass caches what was answered, and nothing else.                 *)
LEMMA WarmNextKeepsCache == ASSUME CacheInv, WarmNext PROVE CacheInv'
<1>1. /\ UNCHANGED <<answers, batch, got, misread>> /\ pc = "warm"
      /\ cache' = [t \in Tickets |-> IF t \in Named(todo, stage) THEN Warmed(t) ELSE cache[t]]
  BY DEF WarmNext, work, tally
<1>2. RefusalIsNotCached'
  BY <1>1 DEF RefusalIsNotCached, Warmed, CacheInv, Told
<1>3. \A w \in Calls : GotInv(w)'
  BY <1>1, OthersGot DEF CacheInv
<1>. QED BY <1>1, <1>2, <1>3 DEF CacheInv, Told

LEMMA TakeKeepsCache ==
  ASSUME CacheInv, NEW w \in Calls, WarmTake(w) \/ ResolveTake(w)
  PROVE  CacheInv'
<1>1. /\ UNCHANGED <<pc, cache, answers, misread>>
      /\ DOMAIN got' = Calls /\ DOMAIN batch' = Calls
      /\ got'[w] = <<>>
      /\ \A x \in Calls \ {w} : got'[x] = got[x] /\ batch'[x] = batch[x]
  <2>1. CASE WarmTake(w)
    BY <2>1 DEF WarmTake, tally, CacheInv
  <2>2. CASE ResolveTake(w)
    BY <2>2, ConsultKeepsGot DEF ResolveTake, warm, tally
  <2>. QED BY <2>1, <2>2
<1>2. ASSUME NEW x \in Calls PROVE GotInv(x)'
  BY <1>1, EmptyGot, OthersGot DEF CacheInv
<1>3. RefusalIsNotCached' /\ \A t \in Tickets : answers'[t] = None => Told(t)'
  BY <1>1 DEF CacheInv, RefusalIsNotCached, Told
<1>4. pc' = "warm" => \A x \in Calls : got'[x] = <<>>
  BY <1>1 DEF CacheInv
<1>. QED BY <1>1, <1>2, <1>3, <1>4 DEF CacheInv

LEMMA CacheStaysPut ==
  ASSUME CacheInv, UNCHANGED <<cache, answers, batch, got, misread>>, pc' # "warm" \/ pc' = pc
  PROVE  CacheInv'
<1>1. \A w \in Calls : GotInv(w)'
  BY OthersGot DEF CacheInv
<1>. QED BY <1>1 DEF CacheInv, RefusalIsNotCached, Told

LEMMA CacheKept == ASSUME CacheInv, [Next]_vars PROVE CacheInv'
<1>1. CASE UNCHANGED vars
  BY <1>1, CacheStaysPut DEF vars, signalVars, warm, work, tally
<1>2. CASE Resolve
  <2>1. ASSUME NEW w \in Calls, Ask(w) \/ Service(w) \/ Rouse(w) PROVE CacheInv'
    BY <2>1, CacheStaysPut DEF Ask, Service, Rouse, signalVars, warm, work, tally
  <2>. QED BY <1>2, <2>1, WarmNextKeepsCache, TakeKeepsCache, ReceiveKeepsCache
         DEF Resolve, SignalStep, OwnStep
<1>3. CASE ApplySignals \/ Adopt \/ RecordUsage
  BY <1>3, CacheStaysPut DEF ApplySignals, Adopt, RecordUsage, signalVars, warm, work, tally
<1>4. ASSUME NEW c \in Commits, CallLlm(c) PROVE CacheInv'
  BY <1>4, CacheStaysPut DEF CallLlm, signalVars, warm, work, tally
<1>5. CASE WriteChunk
  <2>1. CASE Forget
    BY <2>1, BeginKeepsCache DEF Forget
  <2>2. CASE UNCHANGED <<signalVars, pc>>
    BY <2>2, CacheStaysPut DEF signalVars, warm, work, tally
  <2>. QED BY <1>5, <2>1, <2>2 DEF WriteChunk
<1>6. ASSUME NEW force \in BOOLEAN, Start(force) PROVE CacheInv'
  BY <1>6, BeginKeepsCache DEF Start
<1>7. CASE Die
  BY <1>7, BeginKeepsCache DEF Die, Forget
<1>. QED BY <1>1, <1>2, <1>3, <1>4, <1>5, <1>6, <1>7 DEF Next, RunStep

LEMMA CacheStarts == Init => CacheInv
<1>. SUFFICES ASSUME Init PROVE CacheInv
  OBVIOUS
<1>1. /\ DOMAIN answers = Tickets /\ DOMAIN got = Calls /\ DOMAIN batch = Calls
      /\ \A t \in Tickets : answers[t] = Unknown /\ cache[t] = Unknown
      /\ \A w \in Calls : got[w] = <<>>
  BY DEF Init, SignalInit
<1>2. ASSUME NEW w \in Calls PROVE GotInv(w)
  BY <1>1, EmptyIsSeq DEF GotInv
<1>. QED BY <1>1, <1>2, UnknownIsNotNone DEF CacheInv, RefusalIsNotCached

(* A request that was refused is never remembered as a ticket that says      *)
(* nothing, in the warm pass or after it.                                    *)
THEOREM RefusalsAreNotCached == Spec => []RefusalIsNotCached
<1>1. CacheInv => RefusalIsNotCached
  BY DEF CacheInv
<1>. QED BY <1>1, CacheStarts, CacheKept, PTL DEF Spec

-----------------------------------------------------------------------------
(* Positions. The least of some numbers is one of them and bounds the rest.  *)
LEMMA MinIs ==
  ASSUME NEW S \in SUBSET Nat, S # {}
  PROVE  Min(S) \in S /\ \A y \in S : Min(S) <= y
<1>1. PICK x \in S : \A y \in S : <<y, x>> \notin OpToRel(<, Nat)
  BY NatLessThanWellFounded, WFMin, Zenon
<1>2. ASSUME NEW y \in S PROVE x <= y
  <2>1. ~(y < x)
    BY <1>1 DEF OpToRel
  <2>. QED BY <2>1
<1>. QED BY <1>2 DEF Min

LEMMA MinOf ==
  ASSUME NEW S \in SUBSET Nat, NEW x \in S, \A y \in S : x <= y
  PROVE  Min(S) = x
<1>1. Min(S) \in S /\ Min(S) <= x
  BY MinIs
<1>2. Min(S) \in Nat /\ x \in Nat /\ x <= Min(S)
  BY <1>1
<1>. QED BY <1>1, <1>2

LEMMA MinOfTwo ==
  ASSUME NEW a \in Nat, NEW b \in Nat
  PROVE  Min({a, b}) \in {a, b} /\ Min({a, b}) <= a /\ Min({a, b}) <= b
BY MinIs

(* The n-th position is one of the positions: the first up to which there    *)
(* are n of them.                                                            *)
LEMMA NthIs ==
  ASSUME NEW n \in Nat, NEW S \in SUBSET (1..n), NEW k \in 1..Cardinality(S)
  PROVE  Nth(S, k) \in S
<1>. DEFINE UpTo(i) == {j \in S : j <= i}
            rank(i) == Cardinality(UpTo(i))
            enough == {i \in 1..n : k <= rank(i)}
<1>1. IsFiniteSet(S) /\ Cardinality(S) \in Nat /\ k \in Nat \ {0} /\ k <= Cardinality(S)
  <2>1. IsFiniteSet(1..n)
    BY FS_Interval
  <2>2. IsFiniteSet(S)
    BY <2>1, FS_Subset
  <2>3. Cardinality(S) \in Nat
    BY <2>2, FS_CardinalityType
  <2>. QED BY <2>2, <2>3
<1>2. ASSUME NEW i \in Int PROVE IsFiniteSet(UpTo(i)) /\ rank(i) \in Nat
  <2>1. UpTo(i) \subseteq S
    OBVIOUS
  <2>. HIDE DEF UpTo
  <2>. QED BY <1>1, <2>1, FS_Subset, FS_CardinalityType
<1>3. n \in enough
  <2>1. S # {}
    BY <1>1, FS_EmptySet
  <2>2. n \in 1..n
    <3>1. PICK j \in 1..n : TRUE
      BY <2>1
    <3>. QED BY <3>1
  <2>3. \A j \in S : j <= n
    OBVIOUS
  <2>4. UpTo(n) = S
    BY <2>3
  <2>. QED BY <1>1, <2>2, <2>4
<1>. DEFINE i == Min(enough)
<1>4. i \in enough /\ \A y \in enough : i <= y
  <2>1. enough \subseteq 1..n
    OBVIOUS
  <2>. HIDE DEF enough
  <2>2. enough \in SUBSET Nat /\ enough # {}
    BY <1>3, <2>1
  <2>. QED BY <2>2, MinIs
<1>. HIDE DEF i
<1>5. i \in 1..n /\ i - 1 \in Nat /\ k <= rank(i)
  BY <1>4
<1>6. rank(i) \in Nat /\ rank(i - 1) \in Nat /\ IsFiniteSet(UpTo(i - 1))
  <2>1. i \in Int /\ i - 1 \in Int
    BY <1>5
  <2>. HIDE DEF rank, UpTo
  <2>. QED BY <1>2, <2>1
<1>7. rank(i - 1) < k
  <2>1. CASE i = 1
    <3>1. \A j \in S : ~(j <= i - 1)
      BY <2>1
    <3>2. UpTo(i - 1) = {}
      BY <3>1
    <3>. QED BY <1>1, <3>2, FS_EmptySet
  <2>2. CASE i # 1
    <3>1. i - 1 \in 1..n /\ ~(i <= i - 1)
      BY <1>5, <2>2
    <3>2. ~(k <= rank(i - 1))
      BY <1>4, <3>1
    <3>. HIDE DEF rank
    <3>. QED BY <1>1, <1>6, <3>2
  <2>. QED BY <2>1, <2>2
<1>8. i \in S
  <2>. SUFFICES ASSUME i \notin S PROVE FALSE
    OBVIOUS
  <2>1. \A j \in S : j <= i <=> j <= i - 1
    BY <1>5
  <2>2. UpTo(i) = UpTo(i - 1)
    BY <2>1
  <2>. HIDE DEF UpTo
  <2>. QED BY <1>1, <1>5, <1>6, <1>7, <2>2
<1>9. rank(i) = rank(i - 1) + 1
  <2>1. \A j \in S : j <= i <=> j <= i - 1 \/ j = i
    BY <1>5
  <2>2. i <= i /\ ~(i <= i - 1)
    BY <1>5
  <2>3. UpTo(i) = UpTo(i - 1) \union {i} /\ i \notin UpTo(i - 1)
    BY <1>8, <2>1, <2>2
  <2>. HIDE DEF UpTo
  <2>. QED BY <1>6, <2>3, FS_AddElement
<1>10. rank(i) = k
  <2>. HIDE DEF rank
  <2>. QED BY <1>1, <1>5, <1>6, <1>7, <1>9
<1>. QED BY <1>8, <1>10 DEF Nth

(* What a source asks for are tickets of it that the message names.          *)
LEMMA RefsAre ==
  ASSUME NEW m \in Messages, NEW s \in Sources
  PROVE  /\ Refs[m][s] \in Seq(Tickets)
         /\ Len(Refs[m][s]) \in Nat
         /\ DOMAIN Refs[m][s] = 1..Len(Refs[m][s])
<1>1. Refs[m] \in [Sources -> Seq(Tickets)]
  BY SignalAssumption
<1>2. Refs[m][s] \in Seq(Tickets)
  BY <1>1
<1>. QED BY <1>2

LEMMA WantedIs ==
  ASSUME NEW m \in Messages, NEW s \in Sources, NEW known
  PROVE  /\ Wanted(m, s, known) \in Seq(Tickets)
         /\ \A i \in DOMAIN Wanted(m, s, known) :
              \E j \in DOMAIN Refs[m][s] : Wanted(m, s, known)[i] = Refs[m][s][j]
<1>. DEFINE refs == Refs[m][s]
            missing == {i \in DOMAIN refs : known[refs[i]] = Unknown}
<1>1. refs \in Seq(Tickets) /\ Len(refs) \in Nat /\ DOMAIN refs = 1..Len(refs)
  BY RefsAre
<1>. HIDE DEF refs
<1>2. CASE Kind[s] = "jira"
  <2>. DEFINE q == [n \in 1..Cardinality(missing) |-> refs[Nth(missing, n)]]
  <2>1. Wanted(m, s, known) = q
    BY <1>2 DEF Wanted, refs
  <2>2. missing \in SUBSET (1..Len(refs))
    BY <1>1
  <2>3. Cardinality(missing) \in Nat
    <3>. HIDE DEF missing
    <3>1. IsFiniteSet(1..Len(refs))
      BY <1>1, FS_Interval
    <3>. QED BY <2>2, <3>1, FS_Subset, FS_CardinalityType
  <2>4. ASSUME NEW n \in 1..Cardinality(missing) PROVE Nth(missing, n) \in DOMAIN refs
    <3>. HIDE DEF missing
    <3>. QED BY <1>1, <2>2, <2>4, NthIs
  <2>. HIDE DEF missing
  <2>5. q \in Seq(Tickets)
    BY <1>1, <2>3, <2>4
  <2>. QED BY <2>1, <2>4, <2>5 DEF refs
<1>3. CASE Kind[s] = "github"
  <2>. DEFINE k == Min({Len(refs), MaxLookups})
  <2>1. k \in Nat /\ k <= Len(refs)
    BY <1>1, MinOfTwo, SignalAssumption
  <2>2. Wanted(m, s, known) = SubSeq(refs, 1, k)
    BY <1>3 DEF Wanted, refs
  <2>. HIDE DEF k
  <2>3. /\ SubSeq(refs, 1, k) \in Seq(Tickets)
        /\ DOMAIN SubSeq(refs, 1, k) = 1..k
        /\ \A i \in 1..k : SubSeq(refs, 1, k)[i] = refs[i]
    BY <1>1, <2>1
  <2>. QED BY <1>1, <2>1, <2>2, <2>3 DEF refs
<1>4. CASE Kind[s] \notin {"jira", "github"}
  <2>1. Wanted(m, s, known) = refs
    BY <1>4 DEF Wanted, refs
  <2>. QED BY <1>1, <2>1 DEF refs
<1>. QED BY <1>2, <1>3, <1>4

(* A list of tickets has a signal if and only if one of them has.            *)
LEMMA FoundIs ==
  ASSUME NEW refs \in Seq(Tickets), NEW known
  PROVE  /\ Found(refs, known) = None \/ \E i \in DOMAIN refs : Found(refs, known) = known[refs[i]]
         /\ Found(refs, known) = None <=> \A i \in DOMAIN refs : Nothing(known[refs[i]])
         /\ Found(refs, known) # Unknown
<1>. DEFINE hits == {i \in DOMAIN refs : ~Nothing(known[refs[i]])}
<1>1. Unknown # None
  BY SignalAssumption
<1>2. hits # {} => Min(hits) \in hits
  <2>1. hits \in SUBSET Nat
    OBVIOUS
  <2>. HIDE DEF hits
  <2>. QED BY <2>1, MinIs
<1>3. Found(refs, known) = IF hits = {} THEN None ELSE known[refs[Min(hits)]]
  BY DEF Found
<1>. QED BY <1>1, <1>2, <1>3 DEF Nothing

LEMMA FoundSame ==
  ASSUME NEW refs \in Seq(Tickets), NEW one, NEW other, \A i \in DOMAIN refs : one[refs[i]] = other[refs[i]]
  PROVE  Found(refs, one) = Found(refs, other)
<1>. DEFINE hits == {i \in DOMAIN refs : ~Nothing(one[refs[i]])}
<1>1. hits = {i \in DOMAIN refs : ~Nothing(other[refs[i]])}
  OBVIOUS
<1>2. /\ Found(refs, one) = IF hits = {} THEN None ELSE one[refs[Min(hits)]]
      /\ Found(refs, other) = IF hits = {} THEN None ELSE other[refs[Min(hits)]]
  BY <1>1 DEF Found
<1>3. CASE hits # {} /\ Min(hits) \in DOMAIN refs
  BY <1>2, <1>3
<1>4. hits # {} => Min(hits) \in DOMAIN refs
  <2>1. hits \subseteq DOMAIN refs /\ DOMAIN refs \subseteq Nat
    OBVIOUS
  <2>. HIDE DEF hits
  <2>. QED BY <2>1, MinIs
<1>. QED BY <1>2, <1>3, <1>4
USE BudgetAssumption

-----------------------------------------------------------------------------
(* The requests, and the allowance that those to GitHub share. A call that   *)
(* sent a request after the latch does not wait again, and one that waits    *)
(* has attempts left.                                                        *)
FetchInv ==
  /\ FetchType
  /\ SleepWithinAllowance
  /\ late \in [Calls -> 0..1]
  /\ \A w \in Calls :
       /\ late[w] = 1 => tripped /\ phase[w] # "asleep"
       /\ phase[w] = "asleep" => attempt[w] < MaxRetries

(* What a step of a run does to them. *)
FetchNext ==
  \/ UNCHANGED fetchVars
  \/ FetchReset
  \/ \E c \in Calls :
       \/ Enter(c) \/ Take(c) \/ Answer(c, "answered") \/ Trouble(c) \/ Wake(c)
       \/ phase[c] = "free" /\ Become(c, "sent") /\ UNCHANGED <<budget, attempt, late>>

LEMMA NextFetches == ASSUME Next PROVE FetchNext
<1>1. ASSUME NEW w \in Calls, Ask(w) PROVE FetchNext
  BY <1>1 DEF Ask, FetchNext
<1>2. ASSUME NEW w \in Calls, Service(w) \/ Rouse(w) PROVE FetchNext
  BY <1>2 DEF Service, Rouse, FetchNext, Trouble
<1>3. ASSUME NEW w \in Calls, Receive(w) PROVE FetchNext
  BY <1>3 DEF Receive, FetchNext
<1>4. ASSUME WarmNext \/ \E w \in Calls : WarmTake(w) \/ ResolveTake(w) PROVE FetchNext
  BY <1>4 DEF WarmNext, WarmTake, ResolveTake, FetchNext
<1>5. CASE Resolve
  BY <1>1, <1>2, <1>3, <1>4, <1>5 DEF Resolve, SignalStep, OwnStep
<1>6. CASE ApplySignals \/ Adopt \/ RecordUsage \/ \E c \in Commits : CallLlm(c)
  BY <1>6 DEF ApplySignals, Adopt, RecordUsage, CallLlm, FetchNext
<1>7. CASE WriteChunk
  BY <1>7 DEF WriteChunk, Forget, BeginSignals, FetchNext
<1>8. CASE Die \/ \E force \in BOOLEAN : Start(force)
  BY <1>8 DEF Die, Forget, Start, BeginSignals, FetchNext
<1>. QED BY <1>5, <1>6, <1>7, <1>8 DEF Next, RunStep

(* A wait is committed only if it fits, and only by a call with attempts     *)
(* left.                                                                     *)
LEMMA ReserveKeeps ==
  ASSUME FetchInv, NEW c \in Calls, NEW delay \in Nat,
         phase[c] = "sent", attempt[c] # MaxRetries, Reserve(c, delay),
         UNCHANGED <<attempt, late>>
  PROVE  FetchInv'
<1>1. phase' = [phase EXCEPT ![c] = phase'[c]] /\ phase'[c] \in {"throttled", "asleep"}
  BY DEF FetchInv, FetchType, Reserve, Become
<1>2. phase' \in [Calls -> {"free", "sent", "asleep"} \union Over]
  BY <1>1 DEF FetchInv, FetchType, Over
<1>5. slept' \in Nat /\ slept' <= SleepBudget /\ tripped' \in BOOLEAN
  <2>1. slept' \in Nat /\ slept' <= SleepBudget
    BY DEF FetchInv, FetchType, SleepWithinAllowance, Reserve
  <2>2. tripped' \in BOOLEAN
    BY DEF FetchInv, FetchType, Reserve
  <2>. QED BY <2>1, <2>2
<1>6. FetchType' /\ SleepWithinAllowance'
  BY <1>2, <1>5 DEF FetchInv, FetchType, SleepWithinAllowance
<1>3. late[c] = 1 => phase'[c] # "asleep"
  BY DEF FetchInv, FetchType, Reserve, Become
<1>4. tripped => tripped'
  BY DEF Reserve
<1>. QED BY <1>1, <1>6, <1>3, <1>4 DEF FetchInv, FetchType

LEMMA FetchKeeps == ASSUME FetchInv, FetchNext PROVE FetchInv'
<1>1. ASSUME UNCHANGED fetchVars PROVE FetchInv'
  BY <1>1 DEF FetchInv, FetchType, SleepWithinAllowance, fetchVars, budget, call
<1>2. ASSUME FetchReset PROVE FetchInv'
  <2>1. FetchType' /\ SleepWithinAllowance' /\ (late \in [Calls -> 0..1])'
    <3>1. FetchType'
      <4>1. tripped' \in BOOLEAN
        BY <1>2 DEF FetchReset
      <4>2. slept' \in Nat /\ late' \in [Calls -> Nat]
        BY <1>2 DEF FetchReset
      <4>3. phase' \in [Calls -> {"free", "sent", "asleep"} \union Over]
        BY <1>2 DEF FetchReset
      <4>4. attempt' \in [Calls -> 0..MaxRetries]
        BY <1>2 DEF FetchReset
      <4>. QED BY <4>1, <4>2, <4>3, <4>4 DEF FetchType
    <3>. QED BY <1>2, <3>1 DEF FetchReset, SleepWithinAllowance
  <2>2. \A w \in Calls : late'[w] = 0 /\ phase'[w] = "free"
    BY <1>2 DEF FetchReset
  <2>. QED BY <2>1, <2>2 DEF FetchInv
<1>3. ASSUME NEW c \in Calls, Enter(c) PROVE FetchInv'
  <2>1. FetchType' /\ SleepWithinAllowance' /\ (late \in [Calls -> 0..1])'
    BY <1>3 DEF Enter, Become, FetchInv, FetchType, SleepWithinAllowance, budget, Over
  <2>2. phase' = [phase EXCEPT ![c] = phase'[c]] /\ phase'[c] # "asleep"
    BY <1>3 DEF Enter, Become, FetchInv, FetchType
  <2>3. \A w \in Calls : phase'[w] = "asleep" => phase[w] = "asleep" /\ w # c
    BY <2>2 DEF FetchInv, FetchType
  <2>4. \A w \in Calls \ {c} : attempt'[w] = attempt[w]
    BY <1>3 DEF Enter, FetchInv, FetchType
  <2>. QED BY <1>3, <2>1, <2>3, <2>4 DEF FetchInv, Enter, budget
<1>4. ASSUME NEW c \in Calls, Take(c) PROVE FetchInv'
  BY <1>4 DEF Take, Become, FetchInv, FetchType, SleepWithinAllowance, budget
<1>5. ASSUME NEW c \in Calls, NEW p, Answer(c, p) PROVE FetchInv'
  BY <1>5 DEF Answer, Become, FetchInv, FetchType, SleepWithinAllowance, budget, Over
<1>6. ASSUME NEW c \in Calls, NEW delay \in Delays, RateLimited(c, delay) PROVE FetchInv'
  <2>1. CASE attempt[c] = MaxRetries
    BY <1>6, <2>1 DEF RateLimited, Become, FetchInv, FetchType, SleepWithinAllowance, Over
  <2>2. CASE attempt[c] # MaxRetries
    BY <1>6, <2>2, ReserveKeeps DEF RateLimited
  <2>. QED BY <2>1, <2>2
<1>7. ASSUME NEW c \in Calls, Transient(c) PROVE FetchInv'
  <2>1. CASE attempt[c] = MaxRetries
    BY <1>7, <2>1 DEF Transient, Become, FetchInv, FetchType, SleepWithinAllowance, Over, budget
  <2>2. CASE attempt[c] # MaxRetries
    <3>1. Backoff[attempt[c]] \in Nat
      BY DEF FetchInv, FetchType
    <3>. QED BY <1>7, <2>2, <3>1, ReserveKeeps DEF Transient
  <2>. QED BY <2>1, <2>2
<1>8. ASSUME NEW c \in Calls, Wake(c) PROVE FetchInv'
  <2>1. late[c] = 0 /\ attempt[c] + 1 \in 0..MaxRetries
    BY <1>8 DEF Wake, FetchInv, FetchType
  <2>. QED BY <1>8, <2>1 DEF Wake, Become, FetchInv, FetchType, SleepWithinAllowance, budget
<1>9. ASSUME NEW c \in Calls, phase[c] = "free", Become(c, "sent"),
             UNCHANGED <<budget, attempt, late>>
      PROVE  FetchInv'
  BY <1>9 DEF Become, FetchInv, FetchType, SleepWithinAllowance, budget
<1>. QED BY <1>1, <1>2, <1>3, <1>4, <1>5, <1>6, <1>7, <1>8, <1>9 DEF FetchNext, Trouble

LEMMA FetchStarts == Init => FetchInv
<1>. SUFFICES ASSUME Init PROVE FetchInv
  OBVIOUS
<1>1. FetchType /\ SleepWithinAllowance /\ late \in [Calls -> 0..1]
  <2>1. FetchType
    <3>1. tripped \in BOOLEAN
      BY DEF Init, SignalInit, FetchInit
    <3>2. slept \in Nat /\ late \in [Calls -> Nat]
      BY DEF Init, SignalInit, FetchInit
    <3>3. phase \in [Calls -> {"free", "sent", "asleep"} \union Over]
      BY DEF Init, SignalInit, FetchInit
    <3>4. attempt \in [Calls -> 0..MaxRetries]
      BY DEF Init, SignalInit, FetchInit
    <3>. QED BY <3>1, <3>2, <3>3, <3>4 DEF FetchType
  <2>. QED BY <2>1 DEF Init, SignalInit, FetchInit, SleepWithinAllowance
<1>2. \A w \in Calls : late[w] = 0 /\ phase[w] = "free"
  BY DEF Init, SignalInit, FetchInit
<1>. QED BY <1>1, <1>2 DEF FetchInv

LEMMA FetchKept == ASSUME FetchInv, [Next]_vars PROVE FetchInv'
<1>1. ASSUME UNCHANGED vars PROVE FetchNext
  BY <1>1 DEF vars, FetchNext
<1>. QED BY <1>1, NextFetches, FetchKeeps

(* The requests of both passes wait no longer than the allowance, however    *)
(* many run together, and after the latch each call slot sends at most one.  *)
THEOREM ResolverKeepsAllowance == Spec => [](SleepWithinAllowance /\ LatchStopsTraffic)
<1>1. FetchInv => SleepWithinAllowance /\ LatchStopsTraffic
  BY DEF FetchInv, LatchStopsTraffic
<1>. QED BY <1>1, FetchStarts, FetchKept, PTL DEF Spec

-----------------------------------------------------------------------------
(* How a message goes from source to source.                                 *)
LEMMA SourcesAre == Len(Kind) \in Nat \ {0} /\ Sources = 1..Len(Kind)
BY SignalAssumption DEF Sources

(* A slot is free for the next ticket or message.                            *)
Freed(w) ==
  /\ job' = [job EXCEPT ![w] = None]
  /\ at' = [at EXCEPT ![w] = 1]
  /\ batch' = [batch EXCEPT ![w] = <<>>]
  /\ got' = [got EXCEPT ![w] = <<>>]

(* Every source from s on is passed, or one of them has a signal and those   *)
(* before it none, or one has something to ask and none so far a signal.     *)
LEMMA ConsultIs ==
  ASSUME NEW w \in Calls, NEW m \in Messages, NEW s \in Nat \ {0}, NEW known,
         Consult(w, m, s, known)
  PROVE  \/ /\ \A p \in s..Len(Kind) : Found(Refs[m][p], known) = None
            /\ signals' = [signals EXCEPT ![m] = None]
            /\ Freed(w)
         \/ \E q \in s..Len(Kind) :
              /\ \A p \in s..(q - 1) : Found(Refs[m][p], known) = None
              /\ Found(Refs[m][q], known) # None
              /\ signals' = [signals EXCEPT ![m] = Found(Refs[m][q], known)]
              /\ Freed(w)
         \/ \E q \in s..Len(Kind) :
              /\ \A p \in s..q : Found(Refs[m][p], known) = None
              /\ Wanted(m, q, known) # <<>>
              /\ job' = [job EXCEPT ![w] = m]
              /\ at' = [at EXCEPT ![w] = q]
              /\ batch' = [batch EXCEPT ![w] = Wanted(m, q, known)]
              /\ got' = [got EXCEPT ![w] = <<>>]
              /\ UNCHANGED signals
<1>. DEFINE telling == {q \in s..Len(Kind) : ~IsPassed(m, q, known)}
            q == Min(telling)
            signal == IF telling = {} THEN None ELSE Found(Refs[m][q], known)
<1>1. IF telling = {} \/ signal # None
      THEN signals' = [signals EXCEPT ![m] = signal] /\ Freed(w)
      ELSE /\ job' = [job EXCEPT ![w] = m]
           /\ at' = [at EXCEPT ![w] = q]
           /\ batch' = [batch EXCEPT ![w] = Wanted(m, q, known)]
           /\ got' = [got EXCEPT ![w] = <<>>]
           /\ UNCHANGED signals
  BY DEF Consult, Freed
<1>2. \A p \in s..Len(Kind) : p \notin telling => Found(Refs[m][p], known) = None
  BY DEF IsPassed
<1>3. CASE telling = {}
  BY <1>1, <1>2, <1>3
<1>4. CASE telling # {}
  <2>1. telling \subseteq s..Len(Kind) /\ Len(Kind) \in Nat
    BY SourcesAre
  <2>2. \A p \in telling : ~IsPassed(m, p, known)
    OBVIOUS
  <2>. HIDE DEF telling
  <2>3. q \in telling /\ \A p \in telling : q <= p
    <3>1. telling \in SUBSET Nat
      BY <2>1
    <3>. QED BY <1>4, <3>1, MinIs
  <2>. HIDE DEF q
  <2>4. q \in s..Len(Kind) /\ \A p \in s..(q - 1) : p \in s..Len(Kind) /\ p \notin telling
    BY <2>1, <2>3
  <2>5. \A p \in s..(q - 1) : Found(Refs[m][p], known) = None
    BY <1>2, <2>4
  <2>6. CASE Found(Refs[m][q], known) # None
    BY <1>1, <1>4, <2>4, <2>5, <2>6
  <2>7. CASE Found(Refs[m][q], known) = None
    <3>1. Wanted(m, q, known) # <<>>
      BY <2>2, <2>3, <2>7 DEF IsPassed
    <3>2. \A p \in s..q : p = q \/ p \in s..(q - 1)
      BY <2>4
    <3>3. \A p \in s..q : Found(Refs[m][p], known) = None
      BY <2>5, <2>7, <3>2
    <3>. QED BY <1>1, <1>4, <2>4, <2>7, <3>1, <3>3
  <2>. QED BY <2>6, <2>7
<1>. QED BY <1>3, <1>4

(* When a loop is over, the cache has what it got, and its message has the   *)
(* signal of a ticket it asked for or goes to the next source.               *)
LEMMA SettleIs ==
  ASSUME NEW w \in Calls, batch[w] \in Seq(Tickets), NEW X, NEW seen \in Seq(X),
         Len(seen) <= Len(batch[w]), Settle(w, seen)
  PROVE  /\ cache' \in [Tickets -> {cache'[t] : t \in Tickets}]
         /\ \A t \in Tickets :
              \/ cache'[t] = cache[t]
              \/ \E i \in 1..Len(seen) : batch[w][i] = t /\ cache'[t] = seen[i]
         /\ \/ /\ \E i \in 1..Len(seen) :
                    /\ batch[w][i] \in Tickets /\ ~Nothing(cache'[batch[w][i]])
                    /\ signals' = [signals EXCEPT ![job[w]] = cache'[batch[w][i]]]
               /\ Freed(w)
            \/ Consult(w, job[w], at[w] + 1, cache')
<1>. DEFINE asked == SubSeq(batch[w], 1, Len(seen))
            signal == Found(asked, cache')
<1>1. Len(seen) \in Nat /\ DOMAIN seen = 1..Len(seen) /\ Len(batch[w]) \in Nat
  OBVIOUS
<1>2. cache' = [t \in Tickets |->
                  IF \E i \in DOMAIN seen : batch[w][i] = t
                  THEN seen[CHOOSE i \in DOMAIN seen : batch[w][i] = t]
                  ELSE cache[t]]
  BY DEF Settle
<1>3. IF signal # None
      THEN signals' = [signals EXCEPT ![job[w]] = signal] /\ Freed(w)
      ELSE Consult(w, job[w], at[w] + 1, cache')
  BY DEF Settle, Freed
<1>4. ASSUME NEW t \in Tickets
      PROVE  \/ cache'[t] = cache[t]
             \/ \E i \in 1..Len(seen) : batch[w][i] = t /\ cache'[t] = seen[i]
  BY <1>1, <1>2
<1>5. cache' \in [Tickets -> {cache'[t] : t \in Tickets}]
  BY <1>2
<1>6. CASE signal = None
  BY <1>3, <1>4, <1>5, <1>6
<1>7. CASE signal # None
  <2>1. /\ asked \in Seq(Tickets) /\ DOMAIN asked = 1..Len(seen)
        /\ \A i \in 1..Len(seen) : asked[i] = batch[w][i] /\ asked[i] \in Tickets
    BY <1>1
  <2>. HIDE DEF asked
  <2>2. PICK i \in 1..Len(seen) : signal = cache'[asked[i]]
    BY <1>7, <2>1, FoundIs
  <2>3. ~Nothing(signal)
    BY <1>7, <2>1, FoundIs DEF Nothing
  <2>4. signals' = [signals EXCEPT ![job[w]] = signal] /\ Freed(w)
    BY <1>3, <1>7
  <2>. HIDE DEF signal
  <2>5. /\ batch[w][i] \in Tickets /\ ~Nothing(cache'[batch[w][i]])
        /\ signals' = [signals EXCEPT ![job[w]] = cache'[batch[w][i]]]
    BY <2>1, <2>2, <2>3, <2>4
  <2>. QED BY <1>4, <1>5, <2>4, <2>5
<1>. QED BY <1>6, <1>7

(* What a finished request tells: the truth, or something for the record of  *)
(* what went wrong.                                                          *)
LEMMA ReadingIs ==
  ASSUME NEW w \in Calls, phase[w] \in Over, NEW v \in Readings(w)
  PROVE  v = Signal[Asking(w)] \/ (v = None /\ phase[w] = "failed") \/ v = Unknown
BY DEF Readings, Over
-----------------------------------------------------------------------------
(* Types. A slot works on a ticket while the cache is warmed, on a message   *)
(* and one of its sources while messages are resolved, and on nothing else.  *)
Values == Range(Signal) \union {None}

SlotType ==
  /\ job \in [Calls -> Messages \union Tickets \union {None}]
  /\ at \in [Calls -> Nat \ {0}]
  /\ batch \in [Calls -> Seq(Tickets)]
  /\ got \in [Calls -> Seq(Values)]
  /\ \A w \in Calls :
       /\ job[w] # None => Len(got[w]) < Len(batch[w])
       /\ pc = "warm" => job[w] \in Tickets \union {None}
       /\ pc = "apply" => job[w] = None \/ (job[w] \in Messages /\ at[w] \in Sources)
       /\ pc \notin {"warm", "apply"} => job[w] = None

CacheType ==
  /\ cache \in [Tickets -> Values \union {Unknown}]
  /\ answers \in [Tickets -> Values \union {Unknown}]
  /\ signals \in [Messages -> Values]

TallyType ==
  /\ misread \subseteq Tickets
  /\ refused \subseteq Tickets
  /\ heard \in [Tickets -> 0..2]
  /\ faults \in 0..MaxFaults

QueueType ==
  /\ stage \in Sources
  /\ misses \subseteq Tickets
  /\ todo \subseteq Messages

RunType ==
  /\ pc \in {"idle", "warm", "apply", "llm", "bill", "write"}
  /\ stored \in [Commits -> Verdicts]
  /\ billed \subseteq Commits
  /\ forced \in BOOLEAN
  /\ picked \subseteq Commits
  /\ results \in [Commits -> Verdicts]
  /\ reply \in [Commits -> {"none", "better", "worse", "unsent"}]
  /\ left \subseteq picked

TypeInv == FetchInv /\ SlotType /\ CacheType /\ TallyType /\ QueueType /\ RunType

LEMMA TypeInvIsTypeOK == TypeInv => TypeOK
<1>1. stage \in Sources => stage \in Nat \ {0}
  BY SourcesAre
<1>. QED BY <1>1 DEF TypeInv, FetchInv, SlotType, CacheType, TallyType, QueueType, RunType,
                     Values, TypeOK, SignalType

(* A slot takes something up, goes on with it, or is freed.                  *)
LEMMA SlotKept ==
  ASSUME SlotType, NEW w \in Calls, pc' = pc,
         NEW j \in Messages \union Tickets \union {None}, NEW a \in Nat \ {0},
         NEW b \in Seq(Tickets), NEW g \in Seq(Values),
         job' = [job EXCEPT ![w] = j], at' = [at EXCEPT ![w] = a],
         batch' = [batch EXCEPT ![w] = b], got' = [got EXCEPT ![w] = g],
         j # None => Len(g) < Len(b),
         pc = "warm" => j \in Tickets \union {None},
         pc = "apply" => j = None \/ (j \in Messages /\ a \in Sources),
         pc \notin {"warm", "apply"} => j = None
  PROVE  SlotType'
BY DEF SlotType

LEMMA EmptyIs == /\ <<>> \in Seq(Tickets) /\ <<>> \in Seq(Values) /\ Len(<<>>) = 0
OBVIOUS

LEMMA FreedKeepsType ==
  ASSUME SlotType, NEW w \in Calls, pc' = pc, Freed(w)
  PROVE  SlotType'
<1>1. 1 \in Nat \ {0} /\ None \in Messages \union Tickets \union {None}
  OBVIOUS
<1>. QED BY <1>1, SlotKept, EmptyIs DEF Freed

LEMMA FoundValue ==
  ASSUME NEW m \in Messages, NEW s \in Sources, NEW known \in [Tickets -> Values \union {Unknown}]
  PROVE  Found(Refs[m][s], known) \in Values
<1>1. Refs[m][s] \in Seq(Tickets)
  BY RefsAre
<1>2. \A i \in DOMAIN Refs[m][s] : known[Refs[m][s][i]] \in Values \union {Unknown}
  BY <1>1
<1>. QED BY <1>1, <1>2, FoundIs DEF Values

LEMMA ConsultType ==
  ASSUME SlotType, CacheType, NEW w \in Calls, NEW m \in Messages, NEW s \in Nat \ {0},
         NEW known \in [Tickets -> Values \union {Unknown}], Consult(w, m, s, known),
         pc = "apply", pc' = pc
  PROVE  SlotType' /\ signals' \in [Messages -> Values]
<1>1. Len(Kind) \in Nat \ {0} /\ Sources = 1..Len(Kind)
  BY SourcesAre
<1>2. \A q \in s..Len(Kind) : q \in Sources /\ q \in Nat \ {0}
  BY <1>1
<1>3. CASE \E v \in Values : signals' = [signals EXCEPT ![m] = v] /\ Freed(w)
  BY <1>3, FreedKeepsType DEF CacheType
<1>4. ASSUME NEW q \in s..Len(Kind), Wanted(m, q, known) # <<>>,
             job' = [job EXCEPT ![w] = m], at' = [at EXCEPT ![w] = q],
             batch' = [batch EXCEPT ![w] = Wanted(m, q, known)],
             got' = [got EXCEPT ![w] = <<>>], UNCHANGED signals
      PROVE  SlotType' /\ signals' \in [Messages -> Values]
  <2>1. Wanted(m, q, known) \in Seq(Tickets)
    BY <1>2, WantedIs
  <2>2. 0 < Len(Wanted(m, q, known))
    BY <1>4, <2>1
  <2>3. SlotType'
    BY <1>2, <1>4, <2>1, <2>2, EmptyIs, SlotKept
  <2>. QED BY <1>4, <2>3 DEF CacheType
<1>5. None \in Values /\ \A q \in s..Len(Kind) : Found(Refs[m][q], known) \in Values
  BY <1>2, FoundValue DEF Values
<1>. QED BY <1>3, <1>4, <1>5, ConsultIs

LEMMA SettleType ==
  ASSUME SlotType, CacheType, NEW w \in Calls, job[w] # None, pc = "apply", pc' = pc,
         NEW seen \in Seq(Values), Len(seen) <= Len(batch[w]), Settle(w, seen)
  PROVE  /\ SlotType' /\ signals' \in [Messages -> Values]
         /\ cache' \in [Tickets -> Values \union {Unknown}]
<1>1. batch[w] \in Seq(Tickets) /\ job[w] \in Messages /\ at[w] \in Nat
  BY DEF SlotType
<1>2. /\ cache' \in [Tickets -> {cache'[t] : t \in Tickets}]
      /\ \A t \in Tickets :
           \/ cache'[t] = cache[t]
           \/ \E i \in 1..Len(seen) : batch[w][i] = t /\ cache'[t] = seen[i]
      /\ \/ /\ \E i \in 1..Len(seen) :
                 /\ batch[w][i] \in Tickets /\ ~Nothing(cache'[batch[w][i]])
                 /\ signals' = [signals EXCEPT ![job[w]] = cache'[batch[w][i]]]
            /\ Freed(w)
         \/ Consult(w, job[w], at[w] + 1, cache')
  BY <1>1, SettleIs
<1>3. \A t \in Tickets : cache'[t] \in Values \union {Unknown}
  BY <1>2 DEF CacheType
<1>4. cache' \in [Tickets -> Values \union {Unknown}]
  BY <1>2, <1>3
<1>5. CASE Consult(w, job[w], at[w] + 1, cache')
  BY <1>1, <1>4, <1>5, ConsultType
<1>6. CASE /\ \E i \in 1..Len(seen) :
                /\ batch[w][i] \in Tickets /\ ~Nothing(cache'[batch[w][i]])
                /\ signals' = [signals EXCEPT ![job[w]] = cache'[batch[w][i]]]
           /\ Freed(w)
  <2>1. signals' \in [Messages -> Values]
    BY <1>3, <1>6 DEF CacheType, Nothing
  <2>. QED BY <1>4, <1>6, <2>1, FreedKeepsType
<1>. QED BY <1>2, <1>5, <1>6

(* A run begins, or ends, with nothing known and nothing to do but to ask.   *)
LEMMA NamedAre ==
  ASSUME NEW ms \in SUBSET Messages, NEW s \in Sources
  PROVE  Named(ms, s) \subseteq Tickets
<1>1. ASSUME NEW m \in ms PROVE Range(Refs[m][s]) \subseteq Tickets
  BY RefsAre DEF Range
<1>. QED BY <1>1 DEF Named

LEMMA BeginType ==
  ASSUME NEW ms \in SUBSET Messages, BeginSignals(ms), faults' \in 0..MaxFaults
  PROVE  SlotType' /\ CacheType' /\ TallyType' /\ QueueType'
<1>1. 1 \in Sources
  BY SourcesAre
<1>2. SlotType'
  <2>1. job' \in [Calls -> Messages \union Tickets \union {None}]
    BY DEF BeginSignals
  <2>2. at' \in [Calls -> Nat \ {0}]
    BY DEF BeginSignals
  <2>3. batch' \in [Calls -> Seq(Tickets)] /\ got' \in [Calls -> Seq(Values)]
    BY EmptyIs DEF BeginSignals
  <2>4. \A w \in Calls : job'[w] = None
    BY DEF BeginSignals
  <2>. QED BY <2>1, <2>2, <2>3, <2>4 DEF SlotType
<1>3. CacheType'
  <2>1. cache' \in [Tickets -> Values \union {Unknown}]
    BY DEF BeginSignals
  <2>2. answers' \in [Tickets -> Values \union {Unknown}]
    BY DEF BeginSignals
  <2>3. signals' \in [Messages -> Values]
    BY DEF BeginSignals, Values
  <2>. QED BY <2>1, <2>2, <2>3 DEF CacheType
<1>4. TallyType'
  <2>1. heard' \in [Tickets -> 0..2]
    BY DEF BeginSignals
  <2>. QED BY <2>1 DEF BeginSignals, TallyType
<1>5. QueueType'
  BY <1>1, NamedAre DEF BeginSignals, QueueType
<1>. QED BY <1>2, <1>3, <1>4, <1>5

LEMMA MessagedAre == ASSUME NEW cs \in SUBSET Commits PROVE Messaged(cs) \subseteq Messages
BY CommitAssumption DEF Messaged

LEMMA VerdictsAre ==
  /\ NoVerdict \in Verdicts
  /\ \A c : RuleVerdict(c) \in Verdicts
  /\ Verdict("llm", None) \in Verdicts
  /\ \A v \in Values : Verdict("ticket", v) \in Verdicts
BY DEF NoVerdict, RuleVerdict, Verdict, Verdicts, Values

LEMMA StartType == ASSUME TypeInv, NEW force \in BOOLEAN, Start(force) PROVE TypeInv'
<1>1. picked' \subseteq Commits
  BY DEF Start, Candidates
<1>2. Messaged(picked') \in SUBSET Messages
  BY <1>1, MessagedAre
<1>3. SlotType' /\ CacheType' /\ TallyType' /\ QueueType'
  BY <1>2, BeginType DEF Start, TypeInv, TallyType
<1>4. results' \in [Commits -> Verdicts]
  BY VerdictsAre DEF Start
<1>5. reply' \in [Commits -> {"none", "better", "worse", "unsent"}]
  BY DEF Start
<1>6. RunType'
  BY <1>1, <1>4, <1>5 DEF Start, TypeInv, RunType
<1>7. FetchInv'
  BY FetchKept DEF TypeInv, Next
<1>. QED BY <1>3, <1>6, <1>7 DEF TypeInv

LEMMA ForgetType ==
  ASSUME TypeInv, Forget, faults' \in 0..MaxFaults, left' = {}, billed' = billed,
         stored' \in [Commits -> Verdicts], FetchInv'
  PROVE  TypeInv'
<1>1. SlotType' /\ CacheType' /\ TallyType' /\ QueueType'
  BY BeginType DEF Forget
<1>2. results' \in [Commits -> Verdicts]
  BY VerdictsAre DEF Forget
<1>3. reply' \in [Commits -> {"none", "better", "worse", "unsent"}]
  BY DEF Forget
<1>4. RunType'
  BY <1>2, <1>3 DEF Forget, TypeInv, RunType
<1>. QED BY <1>1, <1>4 DEF TypeInv

LEMMA TakeOneType ==
  ASSUME TypeInv, NEW w \in Calls, WarmTake(w)
  PROVE  SlotType' /\ CacheType' /\ TallyType' /\ QueueType'
<1>1. PICK t \in misses :
        /\ misses' = misses \ {t}
        /\ job' = [job EXCEPT ![w] = t]
        /\ batch' = [batch EXCEPT ![w] = <<t>>]
  BY DEF WarmTake
<1>2. t \in Tickets /\ stage \in Nat \ {0}
  BY SourcesAre DEF TypeInv, QueueType
<1>3. <<t>> \in Seq(Tickets) /\ Len(<<t>>) = 1
  BY <1>2
<1>4. at' = [at EXCEPT ![w] = stage] /\ got' = [got EXCEPT ![w] = <<>>] /\ pc' = pc /\ pc = "warm"
  BY DEF WarmTake
<1>5. SlotType'
  <2>. HIDE DEF Values
  <2>1. t \in Messages \union Tickets \union {None} /\ Len(<<>>) < Len(<<t>>) /\ t \in Tickets \union {None}
    BY <1>2, <1>3, EmptyIs
  <2>2. SlotType /\ <<>> \in Seq(Values)
    BY EmptyIs DEF TypeInv
  <2>. QED BY <1>1, <1>2, <1>3, <1>4, <2>1, <2>2, SlotKept
<1>6. CacheType' /\ TallyType' /\ QueueType'
  BY <1>1 DEF WarmTake, TypeInv, CacheType, TallyType, QueueType, tally
<1>. QED BY <1>5, <1>6

LEMMA WarmNextType ==
  ASSUME TypeInv, WarmNext
  PROVE  SlotType' /\ CacheType' /\ TallyType' /\ QueueType'
<1>1. pc' \in {"warm", "apply"} /\ UNCHANGED <<job, at, batch, got>> /\ \A w \in Calls : job[w] = None
  BY DEF WarmNext, work
<1>2. SlotType'
  BY <1>1 DEF TypeInv, SlotType
<1>3. CacheType'
  <2>1. \A t \in Tickets : Warmed(t) \in Values \union {Unknown}
    BY DEF Warmed, TypeInv, CacheType
  <2>. QED BY <2>1 DEF WarmNext, TypeInv, CacheType
<1>4. QueueType'
  <2>1. CASE stage < Len(Kind)
    <3>1. stage + 1 \in Sources
      BY <2>1, SourcesAre DEF TypeInv, QueueType
    <3>2. Named(todo, stage + 1) \subseteq Tickets
      BY <3>1, NamedAre DEF TypeInv, QueueType
    <3>. QED BY <2>1, <3>1, <3>2 DEF WarmNext, TypeInv, QueueType
  <2>2. CASE ~(stage < Len(Kind))
    BY <2>2 DEF WarmNext, TypeInv, QueueType
  <2>. QED BY <2>1, <2>2
<1>5. TallyType'
  BY DEF WarmNext, TypeInv, TallyType, tally
<1>. QED BY <1>2, <1>3, <1>4, <1>5

LEMMA ResolveTakeType ==
  ASSUME TypeInv, NEW w \in Calls, ResolveTake(w)
  PROVE  SlotType' /\ CacheType' /\ TallyType' /\ QueueType'
<1>1. PICK m \in todo : todo' = todo \ {m} /\ Consult(w, m, 1, cache)
  BY DEF ResolveTake
<1>2. m \in Messages /\ 1 \in Nat \ {0} /\ cache \in [Tickets -> Values \union {Unknown}]
  BY DEF TypeInv, QueueType, CacheType
<1>3. SlotType' /\ signals' \in [Messages -> Values]
  BY <1>1, <1>2, ConsultType DEF ResolveTake, TypeInv
<1>4. CacheType'
  BY <1>3 DEF ResolveTake, TypeInv, CacheType, warm
<1>5. TallyType' /\ QueueType'
  BY <1>1 DEF ResolveTake, TypeInv, TallyType, QueueType, warm, tally
<1>. QED BY <1>3, <1>4, <1>5

(* The ticket a loop is at is one of its tickets.                            *)
LEMMA AskingIs ==
  ASSUME SlotType, NEW w \in Calls, job[w] # None
  PROVE  /\ Len(got[w]) \in Nat /\ Len(got[w]) + 1 \in 1..Len(batch[w])
         /\ Asking(w) \in Tickets
<1>1. batch[w] \in Seq(Tickets) /\ got[w] \in Seq(Values) /\ Len(got[w]) < Len(batch[w])
  BY DEF SlotType
<1>2. Len(got[w]) \in Nat /\ Len(batch[w]) \in Nat
  BY <1>1
<1>. QED BY <1>1, <1>2 DEF Asking

(* A step of the request loop w: what it reads, and what becomes of it.      *)
More(w, v) == IF v = Unknown THEN got[w] ELSE Append(got[w], v)

Reads(w, v) ==
  /\ v \in Readings(w) /\ v \in Values \union {Unknown}
  /\ v = Unknown \/ (More(w, v) = Append(got[w], v) /\ v \in Values)
  /\ More(w, v) \in Seq(Values) /\ Len(More(w, v)) <= Len(batch[w])
  /\ misread' = IF v = None /\ phase[w] = "failed" THEN misread \union {Asking(w)} ELSE misread
  /\ refused' = IF v = Unknown THEN refused \union {Asking(w)} ELSE refused
  /\ heard' = IF Nothing(v) THEN heard
              ELSE [heard EXCEPT ![Asking(w)] = Min({@ + 1, 2})]
  /\ \/ /\ pc = "warm"
        /\ answers' = [answers EXCEPT ![Asking(w)] = v]
        /\ job' = [job EXCEPT ![w] = None]
        /\ batch' = [batch EXCEPT ![w] = <<>>]
        /\ at' = [at EXCEPT ![w] = 1]
        /\ UNCHANGED <<got, cache, signals>>
     \/ /\ pc # "warm" /\ v # Unknown /\ Len(More(w, v)) < Len(batch[w])
        /\ got' = [got EXCEPT ![w] = More(w, v)]
        /\ UNCHANGED <<cache, job, at, batch, signals, answers>>
     \/ /\ pc # "warm" /\ UNCHANGED answers
        /\ Settle(w, More(w, v))

LEMMA ReceiveIs ==
  ASSUME TypeInv, NEW w \in Calls, Receive(w)
  PROVE  /\ Asking(w) \in Tickets /\ phase[w] \in Over /\ job[w] # None
         /\ UNCHANGED <<pc, stage, misses, todo, faults>>
         /\ \E v : Reads(w, v)
<1>1. job[w] # None /\ phase[w] \in Over /\ UNCHANGED <<pc, stage, misses, todo, faults>>
  BY DEF Receive, Take
<1>2. Asking(w) \in Tickets /\ Len(got[w]) \in Nat /\ Len(got[w]) + 1 \in 1..Len(batch[w])
  BY <1>1, AskingIs DEF TypeInv
<1>3. Signal[Asking(w)] \in Values /\ None \in Values
  BY <1>2, SignalAssumption DEF Values, Range
<1>4. Unknown \notin Values
  BY SignalAssumption DEF Values
<1>5. ASSUME NEW v \in Readings(w)
      PROVE  /\ v \in Values \union {Unknown}
             /\ v = Unknown \/ (More(w, v) = Append(got[w], v) /\ v \in Values)
             /\ More(w, v) \in Seq(Values) /\ Len(More(w, v)) <= Len(batch[w])
  <2>1. v \in Values \union {Unknown}
    BY <1>1, <1>3, ReadingIs
  <2>2. got[w] \in Seq(Values) /\ Len(batch[w]) \in Nat
    BY DEF TypeInv, SlotType
  <2>3. CASE v = Unknown
    BY <1>2, <2>1, <2>2, <2>3 DEF More
  <2>4. CASE v \in Values
    <3>1. More(w, v) = Append(got[w], v)
      BY <1>4, <2>4 DEF More
    <3>2. Append(got[w], v) \in Seq(Values) /\ Len(Append(got[w], v)) = Len(got[w]) + 1
      BY <2>2, <2>4
    <3>. QED BY <1>2, <2>1, <2>2, <2>4, <3>1, <3>2
  <2>. QED BY <2>1, <2>3, <2>4
<1>6. \E v \in Readings(w) :
        /\ misread' = IF v = None /\ phase[w] = "failed" THEN misread \union {Asking(w)} ELSE misread
        /\ refused' = IF v = Unknown THEN refused \union {Asking(w)} ELSE refused
        /\ heard' = IF Nothing(v) THEN heard
                    ELSE [heard EXCEPT ![Asking(w)] = Min({@ + 1, 2})]
        /\ IF pc = "warm"
           THEN /\ answers' = [answers EXCEPT ![Asking(w)] = v]
                /\ job' = [job EXCEPT ![w] = None]
                /\ batch' = [batch EXCEPT ![w] = <<>>]
                /\ at' = [at EXCEPT ![w] = 1]
                /\ UNCHANGED <<got, cache, signals>>
           ELSE /\ IF v # Unknown /\ Len(More(w, v)) < Len(batch[w])
                   THEN got' = [got EXCEPT ![w] = More(w, v)]
                        /\ UNCHANGED <<cache, job, at, batch, signals>>
                   ELSE Settle(w, More(w, v))
                /\ UNCHANGED answers
  BY DEF Receive, More
<1>7. \E v : Reads(w, v)
  BY <1>5, <1>6 DEF Reads
<1>. QED BY <1>1, <1>2, <1>7

LEMMA ReceiveType ==
  ASSUME TypeInv, NEW w \in Calls, Receive(w)
  PROVE  SlotType' /\ CacheType' /\ TallyType' /\ QueueType'
<1>1. /\ Asking(w) \in Tickets /\ phase[w] \in Over /\ job[w] # None
      /\ UNCHANGED <<pc, stage, misses, todo, faults>>
  BY ReceiveIs
<1>2. PICK v : Reads(w, v)
  BY ReceiveIs
<1>3. TallyType'
  <2>1. heard \in [Tickets -> 0..2]
    BY DEF TypeInv, TallyType
  <2>2. Min({heard[Asking(w)] + 1, 2}) \in 0..2
    <3>1. heard[Asking(w)] + 1 \in Nat /\ heard[Asking(w)] \in 0..2
      BY <1>1, <2>1
    <3>2. Min({heard[Asking(w)] + 1, 2}) \in {heard[Asking(w)] + 1, 2} /\ Min({heard[Asking(w)] + 1, 2}) <= 2
      BY <3>1, MinOfTwo
    <3>. QED BY <3>1, <3>2
  <2>3. heard' \in [Tickets -> 0..2]
    BY <1>1, <1>2, <2>1, <2>2 DEF Reads
  <2>4. misread' \subseteq Tickets /\ refused' \subseteq Tickets
    BY <1>1, <1>2 DEF Reads, TypeInv, TallyType
  <2>. QED BY <1>1, <2>3, <2>4 DEF TypeInv, TallyType
<1>4. QueueType'
  BY <1>1 DEF TypeInv, QueueType
<1>5. SlotType /\ CacheType
  BY DEF TypeInv
<1>6. CASE /\ pc = "warm"
           /\ answers' = [answers EXCEPT ![Asking(w)] = v]
           /\ job' = [job EXCEPT ![w] = None]
           /\ batch' = [batch EXCEPT ![w] = <<>>]
           /\ at' = [at EXCEPT ![w] = 1]
           /\ UNCHANGED <<got, cache, signals>>
  <2>1. SlotType'
    <3>1. batch' \in [Calls -> Seq(Tickets)]
      BY <1>5, <1>6, EmptyIs DEF SlotType
    <3>2. /\ job' \in [Calls -> Messages \union Tickets \union {None}]
          /\ at' \in [Calls -> Nat \ {0}] /\ got' \in [Calls -> Seq(Values)]
      BY <1>5, <1>6 DEF SlotType
    <3>3. \A x \in Calls : job'[x] # None => job'[x] = job[x] /\ batch'[x] = batch[x] /\ x # w
      BY <1>5, <1>6 DEF SlotType
    <3>4. \A x \in Calls : job'[x] = None \/ job'[x] = job[x]
      BY <3>3
    <3>5. pc' = "warm" /\ got' = got
      BY <1>1, <1>6
    <3>. QED BY <1>5, <1>6, <3>1, <3>2, <3>3, <3>4, <3>5 DEF SlotType
  <2>2. CacheType'
    BY <1>1, <1>2, <1>5, <1>6 DEF CacheType, Reads
  <2>. QED BY <1>3, <1>4, <2>1, <2>2
<1>7. CASE /\ pc # "warm" /\ v # Unknown /\ Len(More(w, v)) < Len(batch[w])
           /\ got' = [got EXCEPT ![w] = More(w, v)]
           /\ UNCHANGED <<cache, job, at, batch, signals, answers>>
  <2>1. SlotType'
    <3>1. got' \in [Calls -> Seq(Values)]
      BY <1>2, <1>5, <1>7 DEF SlotType, Reads
    <3>2. \A x \in Calls : got'[x] = IF x = w THEN More(w, v) ELSE got[x]
      BY <1>5, <1>7 DEF SlotType
    <3>. QED BY <1>1, <1>5, <1>7, <3>1, <3>2 DEF SlotType
  <2>2. CacheType'
    BY <1>5, <1>7 DEF CacheType
  <2>. QED BY <1>3, <1>4, <2>1, <2>2
<1>8. CASE pc # "warm" /\ UNCHANGED answers /\ Settle(w, More(w, v))
  <2>1. pc = "apply"
    BY <1>1, <1>5, <1>8 DEF SlotType
  <2>2. /\ SlotType' /\ signals' \in [Messages -> Values]
        /\ cache' \in [Tickets -> Values \union {Unknown}]
    BY <1>1, <1>2, <1>5, <1>8, <2>1, SettleType DEF Reads
  <2>3. CacheType'
    BY <1>5, <1>8, <2>2 DEF CacheType
  <2>. QED BY <1>3, <1>4, <2>2, <2>3
<1>. QED BY <1>2, <1>6, <1>7, <1>8 DEF Reads

LEMMA ResolveType == ASSUME TypeInv, Resolve PROVE TypeInv'
<1>1. FetchInv'
  BY FetchKept DEF TypeInv, Next, RunStep
<1>2. RunType'
  <2>1. pc' = pc \/ pc' = "apply"
    BY DEF Resolve, SignalStep, OwnStep, WarmNext, WarmTake, ResolveTake, Ask, Service, Rouse, Receive
  <2>. QED BY <2>1 DEF Resolve, TypeInv, RunType, run
<1>3. ASSUME NEW w \in Calls, Ask(w) \/ Service(w) \/ Rouse(w)
      PROVE  SlotType' /\ CacheType' /\ TallyType' /\ QueueType'
  <2>1. UNCHANGED <<signalVars, pc>> /\ (faults' = faults \/ Fault)
    BY <1>3 DEF Ask, Service, Rouse
  <2>2. faults' \in 0..MaxFaults
    BY <2>1, SignalAssumption DEF Fault, TypeInv, TallyType
  <2>. QED BY <2>1, <2>2 DEF TypeInv, SlotType, CacheType, TallyType, QueueType,
                            signalVars, warm, work, tally
<1>4. SlotType' /\ CacheType' /\ TallyType' /\ QueueType'
  BY <1>3, TakeOneType, WarmNextType, ResolveTakeType, ReceiveType DEF Resolve, SignalStep, OwnStep
<1>. QED BY <1>1, <1>2, <1>4 DEF TypeInv

LEMMA SignalsStay ==
  ASSUME TypeInv, UNCHANGED <<signalVars, faults>>, pc' = pc \/ \A w \in Calls : job[w] = None
  PROVE  SlotType' /\ CacheType' /\ TallyType' /\ QueueType'
BY DEF TypeInv, SlotType, CacheType, TallyType, QueueType, signalVars, warm, work, tally

LEMMA TypeKept == ASSUME TypeInv, [Next]_vars PROVE TypeInv'
<1>1. FetchInv'
  BY FetchKept DEF TypeInv
<1>2. CASE UNCHANGED vars
  <2>1. RunType'
    BY <1>2 DEF vars, run, TypeInv, RunType
  <2>2. SlotType' /\ CacheType' /\ TallyType' /\ QueueType'
    BY <1>2, SignalsStay DEF vars
  <2>. QED BY <1>1, <2>1, <2>2 DEF TypeInv
<1>3. CASE ApplySignals
  <2>1. results' \in [Commits -> Verdicts]
    <3>1. \A c \in Commits : Message[c] \in Messages
      BY CommitAssumption
    <3>2. \A c \in Commits : signals[Message[c]] \in Values
      BY <3>1 DEF TypeInv, CacheType
    <3>3. \A c \in Commits : Verdict("ticket", signals[Message[c]]) \in Verdicts
      BY <3>2, VerdictsAre
    <3>. QED BY <1>3, <3>3 DEF ApplySignals, TypeInv, RunType
  <2>2. RunType'
    BY <1>3, <2>1 DEF ApplySignals, TypeInv, RunType
  <2>3. SlotType' /\ CacheType' /\ TallyType' /\ QueueType'
    BY <1>3, SignalsStay DEF ApplySignals, SignalsOver
  <2>. QED BY <1>1, <2>2, <2>3 DEF TypeInv
<1>4. ASSUME NEW c \in Commits, CallLlm(c) PROVE TypeInv'
  <2>1. reply' \in [Commits -> {"none", "better", "worse", "unsent"}]
    BY <1>4 DEF CallLlm, TypeInv, RunType
  <2>2. RunType'
    BY <1>4, <2>1 DEF CallLlm, TypeInv, RunType
  <2>3. SlotType' /\ CacheType' /\ TallyType' /\ QueueType'
    BY <1>4, SignalsStay DEF CallLlm
  <2>. QED BY <1>1, <2>2, <2>3 DEF TypeInv
<1>5. CASE Adopt
  <2>1. results' \in [Commits -> Verdicts]
    BY <1>5, VerdictsAre DEF Adopt, TypeInv, RunType
  <2>2. RunType'
    BY <1>5, <2>1 DEF Adopt, TypeInv, RunType
  <2>3. SlotType' /\ CacheType' /\ TallyType' /\ QueueType'
    BY <1>5, SignalsStay DEF Adopt, TypeInv, SlotType
  <2>. QED BY <1>1, <2>2, <2>3 DEF TypeInv
<1>6. CASE RecordUsage
  <2>1. RunType'
    BY <1>6 DEF RecordUsage, TypeInv, RunType
  <2>2. SlotType' /\ CacheType' /\ TallyType' /\ QueueType'
    BY <1>6, SignalsStay DEF RecordUsage, TypeInv, SlotType
  <2>. QED BY <1>1, <2>1, <2>2 DEF TypeInv
<1>7. CASE WriteChunk
  <2>. PICK chunk \in Chunks :
         /\ stored' = [c \in Commits |-> IF c \in chunk THEN results[c] ELSE stored[c]]
         /\ left' = IF Cardinality(left) <= ChunkSize THEN {} ELSE left \ chunk
    BY <1>7 DEF WriteChunk
  <2>1. stored' \in [Commits -> Verdicts]
    BY DEF TypeInv, RunType
  <2>2. CASE left' = {}
    BY <1>1, <1>7, <2>1, <2>2, ForgetType DEF WriteChunk, TypeInv, TallyType
  <2>3. CASE left' # {}
    <3>1. UNCHANGED <<fetchVars, signalVars, pc, forced, picked, results, reply, faults, billed>>
      BY <1>7, <2>3 DEF WriteChunk
    <3>2. RunType'
      BY <2>1, <3>1 DEF TypeInv, RunType
    <3>3. SlotType' /\ CacheType' /\ TallyType' /\ QueueType'
      BY <3>1, SignalsStay
    <3>. QED BY <1>1, <3>2, <3>3 DEF TypeInv
  <2>. QED BY <2>2, <2>3
<1>8. CASE Die
  <2>1. faults' \in 0..MaxFaults
    BY <1>8, SignalAssumption DEF Die, Fault, TypeInv, TallyType
  <2>. QED BY <1>1, <1>8, <2>1, ForgetType DEF Die, TypeInv, RunType
<1>. QED BY <1>2, <1>3, <1>4, <1>5, <1>6, <1>7, <1>8, ResolveType, StartType DEF Next, RunStep

LEMMA TypeStarts == Init => TypeInv
<1>. SUFFICES ASSUME Init PROVE TypeInv
  OBVIOUS
<1>1. FetchInv
  BY FetchStarts
<1>2. SlotType
  <2>1. job \in [Calls -> Messages \union Tickets \union {None}] /\ at \in [Calls -> Nat \ {0}]
    BY DEF Init, SignalInit
  <2>2. batch \in [Calls -> Seq(Tickets)] /\ got \in [Calls -> Seq(Values)]
    BY EmptyIs DEF Init, SignalInit
  <2>3. \A w \in Calls : job[w] = None
    BY DEF Init, SignalInit
  <2>. QED BY <2>1, <2>2, <2>3 DEF SlotType
<1>3. CacheType
  <2>1. cache \in [Tickets -> Values \union {Unknown}]
    BY DEF Init, SignalInit
  <2>2. answers \in [Tickets -> Values \union {Unknown}]
    BY DEF Init, SignalInit
  <2>3. signals \in [Messages -> Values]
    BY DEF Init, SignalInit, Values
  <2>. QED BY <2>1, <2>2, <2>3 DEF CacheType
<1>4. TallyType
  <2>1. heard \in [Tickets -> 0..2]
    BY DEF Init, SignalInit
  <2>. QED BY <2>1, SignalAssumption DEF Init, SignalInit, TallyType
<1>5. QueueType
  <2>1. 1 \in Sources
    BY SourcesAre
  <2>. QED BY <2>1 DEF Init, SignalInit, QueueType
<1>6. RunType
  <2>1. stored \in [Commits -> Verdicts] /\ results \in [Commits -> Verdicts]
    BY VerdictsAre DEF Init
  <2>2. reply \in [Commits -> {"none", "better", "worse", "unsent"}]
    BY DEF Init
  <2>. QED BY <2>1, <2>2 DEF Init, RunType
<1>. QED BY <1>1, <1>2, <1>3, <1>4, <1>5, <1>6 DEF TypeInv

(* The types hold throughout; among them, that a request loop never asks     *)
(* past the last of its tickets.                                             *)
THEOREM TypeCorrect == Spec => []TypeOK
<1>. QED BY TypeStarts, TypeKept, TypeInvIsTypeOK, PTL DEF Spec

-----------------------------------------------------------------------------
(* What the tickets say. A value told of a ticket is its own signal, unless  *)
(* a request for it went wrong; a message no request of which went wrong is  *)
(* silent up to a source if none of its tickets there has a signal, and gets *)
(* the signal of the first that has one.                                     *)
Honest(t, v) == v = Signal[t] \/ t \in misread \union refused

Silent(m, s) == Troubled(m) \/ \A p \in 1..s : Found(Refs[m][p], Signal) = None

Right(m) == Troubled(m) \/ signals[m] = FirstSignal(m)

Worse == misread \subseteq misread' /\ refused \subseteq refused'

LEMMA WorseKeeps ==
  ASSUME Worse
  PROVE  /\ \A t, v : Honest(t, v) => Honest(t, v)'
         /\ \A m, s : Silent(m, s) => Silent(m, s)'
         /\ \A m : Troubled(m) => Troubled(m)'
         /\ \A m : Right(m) /\ signals'[m] = signals[m] => Right(m)'
<1>1. \A t, v : Honest(t, v) => Honest(t, v)'
  BY DEF Worse, Honest
<1>2. \A m : Troubled(m) => Troubled(m)'
  BY DEF Worse, Troubled
<1>3. \A m, s : Silent(m, s) => Silent(m, s)'
  BY <1>2 DEF Silent
<1>4. \A m : Right(m) /\ signals'[m] = signals[m] => Right(m)'
  BY <1>2 DEF Right, FirstSignal
<1>. QED BY <1>1, <1>2, <1>3, <1>4

LEMMA RangeIs ==
  ASSUME NEW m \in Messages, NEW s \in Sources
  PROVE  /\ \A i \in DOMAIN Refs[m][s] : Refs[m][s][i] \in Range(Refs[m][s])
         /\ \A t \in Range(Refs[m][s]) : t \in Tickets /\ \E i \in DOMAIN Refs[m][s] : Refs[m][s][i] = t
BY RefsAre DEF Range

LEMMA SignalIsKnown == \A t \in Tickets : Signal[t] # Unknown
BY SignalAssumption DEF Range

(* A lookup of honest values finds what the tickets say, if nothing went     *)
(* wrong, and one that finds nothing tells of silent tickets.                *)
LEMMA HonestFound ==
  ASSUME NEW m \in Messages, NEW s \in Sources, NEW known, NEW wrong,
         \A t \in Range(Refs[m][s]) : known[t] = Signal[t] \/ t \in wrong
  PROVE  /\ Range(Refs[m][s]) \intersect wrong = {} =>
              Found(Refs[m][s], known) = Found(Refs[m][s], Signal)
         /\ Found(Refs[m][s], known) = None =>
              \A t \in Range(Refs[m][s]) : None = Signal[t] \/ t \in wrong
<1>1. Refs[m][s] \in Seq(Tickets)
  BY RefsAre
<1>2. ASSUME Range(Refs[m][s]) \intersect wrong = {}
      PROVE  Found(Refs[m][s], known) = Found(Refs[m][s], Signal)
  <2>1. \A i \in DOMAIN Refs[m][s] : known[Refs[m][s][i]] = Signal[Refs[m][s][i]]
    BY <1>2, RangeIs
  <2>. QED BY <1>1, <2>1, FoundSame
<1>3. ASSUME Found(Refs[m][s], known) = None, NEW t \in Range(Refs[m][s])
      PROVE  None = Signal[t] \/ t \in wrong
  <2>1. t \in Tickets /\ \E i \in DOMAIN Refs[m][s] : Refs[m][s][i] = t
    BY RangeIs
  <2>2. Nothing(known[t])
    BY <1>1, <1>3, <2>1, FoundIs
  <2>. QED BY <2>1, <2>2, SignalIsKnown DEF Nothing
<1>. QED BY <1>2, <1>3

(* The signal of the first source that is not silent.                        *)
LEMMA FirstIs ==
  ASSUME NEW m \in Messages, NEW q \in Sources,
         \A p \in 1..(q - 1) : Found(Refs[m][p], Signal) = None,
         Found(Refs[m][q], Signal) # None
  PROVE  FirstSignal(m) = Found(Refs[m][q], Signal)
<1>. DEFINE says == {s \in Sources : Found(Refs[m][s], Signal) # None}
<1>1. q \in says /\ \A p \in says : p \notin 1..(q - 1)
  OBVIOUS
<1>2. says \in SUBSET Nat /\ q \in Nat /\ \A p \in says : p \in Nat \ {0}
  BY SourcesAre
<1>3. \A p \in says : q <= p
  BY <1>1, <1>2
<1>4. FirstSignal(m) = IF says = {} THEN None ELSE Found(Refs[m][Min(says)], Signal)
  BY DEF FirstSignal
<1>. HIDE DEF says
<1>5. Min(says) = q
  BY <1>1, <1>2, <1>3, MinOf
<1>. QED BY <1>1, <1>4, <1>5

LEMMA NoneIsFirst ==
  ASSUME NEW m \in Messages, \A p \in Sources : Found(Refs[m][p], Signal) = None
  PROVE  FirstSignal(m) = None
BY DEF FirstSignal

(* The slots at work on messages. A slot asks for tickets of its message     *)
(* that were silent when last looked up, and what it got of them is honest;  *)
(* up to the source it is at, its message is silent.                         *)
Loop(w) ==
  /\ job[w] \in Messaged(picked)
  /\ \A i \in DOMAIN batch[w] :
       batch[w][i] \in Range(Refs[job[w]][at[w]]) /\ Honest(batch[w][i], None)
  /\ \A i \in DOMAIN got[w] : Honest(batch[w][i], got[w][i])
  /\ Silent(job[w], at[w])

ApplyInv ==
  /\ todo \subseteq Messaged(picked)
  /\ \A m \in Messaged(picked), s \in Sources : \A t \in Range(Refs[m][s]) : Honest(t, cache[t])
  /\ \A w \in Calls : job[w] # None => Loop(w)
  /\ \A m \in Messaged(picked) \ todo : Right(m) \/ \E w \in Calls : job[w] = m

(* What a slot does with its message, or with the next one: it keeps it      *)
(* under the same conditions, or leaves it with the right signal.            *)
Goes(w, m) ==
  /\ job'[w] \in {m, None}
  /\ job'[w] # None => Loop(w)' /\ UNCHANGED signals
  /\ job'[w] = None => Right(m)'
  /\ \A n \in Messages \ {m} : signals'[n] = signals[n]
  /\ \A x \in Calls \ {w} : /\ job'[x] = job[x] /\ at'[x] = at[x]
                            /\ batch'[x] = batch[x] /\ got'[x] = got[x]

LEMMA ConsultGoes ==
  ASSUME SlotType, CacheType, NEW w \in Calls, NEW m \in Messages, NEW s \in Nat \ {0}, NEW known,
         Consult(w, m, s, known), m \in Messaged(picked)',
         \A p \in Sources : \A t \in Range(Refs[m][p]) : Honest(t, known[t])',
         Silent(m, s - 1)'
  PROVE  Goes(w, m)
<1>1. Len(Kind) \in Nat \ {0} /\ Sources = 1..Len(Kind)
  BY SourcesAre
<1>2. \A p \in Sources :
        /\ ~Troubled(m)' => Found(Refs[m][p], known) = Found(Refs[m][p], Signal)
        /\ Found(Refs[m][p], known) = None =>
             \A t \in Range(Refs[m][p]) : Honest(t, None)'
  <2>. DEFINE wrong == misread' \union refused'
  <2>1. \A p \in Sources : \A t \in Range(Refs[m][p]) : known[t] = Signal[t] \/ t \in wrong
    BY DEF Honest
  <2>2. ~Troubled(m)' => \A p \in Sources : Range(Refs[m][p]) \intersect wrong = {}
    BY DEF Troubled
  <2>3. \A t : Honest(t, None)' <=> None = Signal[t] \/ t \in wrong
    BY DEF Honest
  <2>. HIDE DEF wrong
  <2>. QED BY <2>1, <2>2, <2>3, HonestFound
<1>3. Troubled(m)' \/ \A p \in 1..(s - 1) : Found(Refs[m][p], Signal) = None
  BY DEF Silent
<1>4. signals \in [Messages -> Values] /\ None \notin Messages
  BY SignalAssumption DEF CacheType
<1>5. CASE /\ \A p \in s..Len(Kind) : Found(Refs[m][p], known) = None
           /\ signals' = [signals EXCEPT ![m] = None]
           /\ Freed(w)
  <2>1. Right(m)'
    <3>1. CASE Troubled(m)'
      BY <3>1 DEF Right
    <3>2. CASE ~Troubled(m)'
      <4>1. \A p \in Sources : p \in 1..(s - 1) \/ p \in s..Len(Kind)
        BY <1>1
      <4>2. \A p \in Sources : Found(Refs[m][p], Signal) = None
        BY <1>2, <1>3, <1>5, <3>2, <4>1
      <4>3. FirstSignal(m) = None
        BY <4>2, NoneIsFirst
      <4>. QED BY <1>4, <1>5, <4>3 DEF Right, FirstSignal
    <3>. QED BY <3>1, <3>2
  <2>2. /\ job'[w] = None
        /\ \A x \in Calls \ {w} : /\ job'[x] = job[x] /\ at'[x] = at[x]
                                  /\ batch'[x] = batch[x] /\ got'[x] = got[x]
    BY <1>5 DEF SlotType, Freed
  <2>3. \A n \in Messages \ {m} : signals'[n] = signals[n]
    BY <1>4, <1>5
  <2>. QED BY <2>1, <2>2, <2>3 DEF Goes
<1>6. ASSUME NEW q \in s..Len(Kind),
             \A p \in s..(q - 1) : Found(Refs[m][p], known) = None,
             Found(Refs[m][q], known) # None,
             signals' = [signals EXCEPT ![m] = Found(Refs[m][q], known)],
             Freed(w)
      PROVE  Goes(w, m)
  <2>. q \in Sources /\ q \in Nat
    BY <1>1
  <2>1. Right(m)'
    <3>1. CASE Troubled(m)'
      BY <3>1 DEF Right
    <3>2. CASE ~Troubled(m)'
      <4>1. \A p \in 1..(q - 1) : p \in 1..(s - 1) \/ (p \in s..(q - 1) /\ p \in Sources)
        BY <1>1
      <4>2. \A p \in 1..(q - 1) : Found(Refs[m][p], Signal) = None
        BY <1>2, <1>3, <1>6, <3>2, <4>1
      <4>3. Found(Refs[m][q], known) = Found(Refs[m][q], Signal)
        BY <1>2, <3>2
      <4>4. FirstSignal(m) = Found(Refs[m][q], Signal)
        BY <1>6, <4>2, <4>3, FirstIs
      <4>5. signals'[m] = Found(Refs[m][q], known)
        BY <1>4, <1>6
      <4>. QED BY <4>3, <4>4, <4>5 DEF Right, FirstSignal
    <3>. QED BY <3>1, <3>2
  <2>2. /\ job'[w] = None
        /\ \A x \in Calls \ {w} : /\ job'[x] = job[x] /\ at'[x] = at[x]
                                  /\ batch'[x] = batch[x] /\ got'[x] = got[x]
    BY <1>6 DEF SlotType, Freed
  <2>3. \A n \in Messages \ {m} : signals'[n] = signals[n]
    BY <1>4, <1>6
  <2>. QED BY <2>1, <2>2, <2>3 DEF Goes
<1>7. ASSUME NEW q \in s..Len(Kind),
             \A p \in s..q : Found(Refs[m][p], known) = None,
             job' = [job EXCEPT ![w] = m], at' = [at EXCEPT ![w] = q],
             batch' = [batch EXCEPT ![w] = Wanted(m, q, known)],
             got' = [got EXCEPT ![w] = <<>>], UNCHANGED signals
      PROVE  Goes(w, m)
  <2>. q \in Sources /\ q \in Nat
    BY <1>1
  <2>1. /\ job'[w] = m /\ at'[w] = q /\ batch'[w] = Wanted(m, q, known) /\ got'[w] = <<>>
        /\ \A x \in Calls \ {w} : /\ job'[x] = job[x] /\ at'[x] = at[x]
                                  /\ batch'[x] = batch[x] /\ got'[x] = got[x]
    BY <1>7 DEF SlotType
  <2>2. Found(Refs[m][q], known) = None
    <3>1. q \in s..q
      OBVIOUS
    <3>2. \A p \in s..q : Found(Refs[m][p], known) = None
      BY <1>7, Zenon
    <3>. QED BY <3>1, <3>2, Zenon
  <2>3. \A i \in DOMAIN Wanted(m, q, known) :
          /\ Wanted(m, q, known)[i] \in Range(Refs[m][q])
          /\ Honest(Wanted(m, q, known)[i], None)'
    <3>1. \A i \in DOMAIN Wanted(m, q, known) : Wanted(m, q, known)[i] \in Range(Refs[m][q])
      BY WantedIs, RangeIs
    <3>. QED BY <1>2, <2>2, <3>1 DEF Honest
  <2>4. Silent(m, q)'
    <3>1. CASE Troubled(m)'
      BY <3>1 DEF Silent
    <3>2. CASE ~Troubled(m)'
      <4>1. \A p \in 1..q : p \in 1..(s - 1) \/ (p \in s..q /\ p \in Sources)
        BY <1>1
      <4>2. \A p \in 1..q : Found(Refs[m][p], Signal) = None
        BY <1>2, <1>3, <1>7, <3>2, <4>1
      <4>. QED BY <4>2 DEF Silent
    <3>. QED BY <3>1, <3>2
  <2>5. DOMAIN got'[w] = {}
    BY <2>1
  <2>6. Loop(w)'
    <3>1. (\A i \in DOMAIN batch[w] :
             batch[w][i] \in Range(Refs[job[w]][at[w]]) /\ Honest(batch[w][i], None))'
      BY <2>1, <2>3 DEF Honest
    <3>2. Silent(job[w], at[w])' /\ (job[w] \in Messaged(picked))'
      BY <2>1, <2>4 DEF Silent, Troubled
    <3>. QED BY <2>5, <3>1, <3>2 DEF Loop, Honest, Silent, Troubled
  <2>. QED BY <1>4, <1>7, <2>1, <2>6 DEF Goes
<1>8. \/ /\ \A p \in s..Len(Kind) : Found(Refs[m][p], known) = None
         /\ signals' = [signals EXCEPT ![m] = None]
         /\ Freed(w)
      \/ \E q \in s..Len(Kind) :
           /\ \A p \in s..(q - 1) : Found(Refs[m][p], known) = None
           /\ Found(Refs[m][q], known) # None
           /\ signals' = [signals EXCEPT ![m] = Found(Refs[m][q], known)]
           /\ Freed(w)
      \/ \E q \in s..Len(Kind) :
           /\ \A p \in s..q : Found(Refs[m][p], known) = None
           /\ job' = [job EXCEPT ![w] = m]
           /\ at' = [at EXCEPT ![w] = q]
           /\ batch' = [batch EXCEPT ![w] = Wanted(m, q, known)]
           /\ got' = [got EXCEPT ![w] = <<>>]
           /\ UNCHANGED signals
  BY ConsultIs
<1>. QED BY <1>5, <1>6, <1>7, <1>8

LEMMA LoopStays ==
  ASSUME Worse, NEW x \in Calls, Loop(x), picked' = picked, job'[x] = job[x], at'[x] = at[x],
         batch'[x] = batch[x], got'[x] = got[x]
  PROVE  Loop(x)'
<1>1. (job[x] \in Messaged(picked))' /\ Silent(job[x], at[x])'
  BY WorseKeeps DEF Loop, Messaged, Silent, Troubled, Worse
<1>2. /\ (\A i \in DOMAIN batch[x] :
            batch[x][i] \in Range(Refs[job[x]][at[x]]) /\ Honest(batch[x][i], None))'
      /\ (\A i \in DOMAIN got[x] : Honest(batch[x][i], got[x][i]))'
  BY DEF Loop, Honest, Worse
<1>. QED BY <1>1, <1>2 DEF Loop

LEMMA GoesSpeaks ==
  ASSUME TypeInv, ApplyInv, Worse, UNCHANGED picked, NEW w \in Calls, NEW m \in Messaged(picked),
         Goes(w, m), job[w] \in {None, m}, todo' \in {todo, todo \ {m}},
         \A n \in Messaged(picked)', s \in Sources : \A t \in Range(Refs[n][s]) : Honest(t, cache[t])'
  PROVE  ApplyInv'
<1>1. Messaged(picked)' = Messaged(picked) /\ Messaged(picked) \subseteq Messages
  BY MessagedAre DEF Messaged, TypeInv, RunType
<1>2. ASSUME NEW x \in Calls, job'[x] # None PROVE Loop(x)'
  BY <1>2, LoopStays DEF Goes, ApplyInv
<1>3. ASSUME NEW n \in Messaged(picked) \ todo' PROVE Right(n)' \/ \E x \in Calls : job'[x] = n
  <2>1. CASE n = m
    BY <2>1 DEF Goes
  <2>2. CASE n # m
    <3>1. n \in Messages /\ signals'[n] = signals[n]
      BY <1>1, <2>2 DEF Goes
    <3>2. Right(n) \/ \E x \in Calls : job[x] = n
      BY <1>3, <2>2 DEF ApplyInv
    <3>3. ASSUME NEW x \in Calls, job[x] = n PROVE job'[x] = n
      BY <2>2, <3>1, <3>3, SignalAssumption DEF Goes
    <3>. QED BY <3>1, <3>2, <3>3, WorseKeeps
  <2>. QED BY <2>1, <2>2
<1>4. todo' \subseteq Messaged(picked)
  BY DEF ApplyInv
<1>. QED BY <1>1, <1>2, <1>3, <1>4 DEF ApplyInv

(* The next message is looked up in the cache.                               *)
LEMMA ResolveTakeSpeaks ==
  ASSUME TypeInv, ApplyInv, NEW w \in Calls, ResolveTake(w), UNCHANGED picked
  PROVE  ApplyInv'
<1>1. PICK m \in todo : todo' = todo \ {m} /\ Consult(w, m, 1, cache)
  BY DEF ResolveTake
<1>2. /\ UNCHANGED <<misread, refused, cache, picked>> /\ Worse /\ job[w] = None
      /\ m \in Messages /\ m \in Messaged(picked) /\ Messaged(picked)' = Messaged(picked)
  BY <1>1 DEF ResolveTake, tally, Worse, ApplyInv, TypeInv, QueueType, Messaged
<1>3. \A n \in Messaged(picked)', s \in Sources : \A t \in Range(Refs[n][s]) : Honest(t, cache[t])'
  BY <1>2 DEF ApplyInv, Honest
<1>4. Goes(w, m)
  <2>1. \A p \in Sources : \A t \in Range(Refs[m][p]) : Honest(t, cache[t])'
    BY <1>2, <1>3
  <2>2. Silent(m, 1 - 1)'
    BY DEF Silent
  <2>. QED BY <1>1, <1>2, <2>1, <2>2, ConsultGoes DEF TypeInv, Honest
<1>. QED BY <1>1, <1>2, <1>3, <1>4, GoesSpeaks

(* What a loop has got so far is honest, and so is what it reads next, or it *)
(* goes on record as gone wrong.                                             *)
LEMMA ReadsHonestly ==
  ASSUME NEW w \in Calls, phase[w] \in Over, NEW v, Reads(w, v)
  PROVE  Worse /\ (v = Signal[Asking(w)] \/ Asking(w) \in misread' \union refused')
<1>1. v = Signal[Asking(w)] \/ (v = None /\ phase[w] = "failed") \/ v = Unknown
  BY ReadingIs DEF Reads
<1>. QED BY <1>1 DEF Reads, Worse

LEMMA MoreIsHonest ==
  ASSUME TypeInv, NEW w \in Calls, Loop(w), phase[w] \in Over, NEW v, Reads(w, v)
  PROVE  \A i \in DOMAIN More(w, v) :
           More(w, v)[i] = Signal[batch[w][i]] \/ batch[w][i] \in misread' \union refused'
<1>1. Worse /\ (v = Signal[Asking(w)] \/ Asking(w) \in misread' \union refused')
  BY ReadsHonestly
<1>2. got[w] \in Seq(Values) /\ Asking(w) = batch[w][Len(got[w]) + 1]
  BY DEF TypeInv, SlotType, Asking
<1>3. \A i \in DOMAIN got[w] :
        got[w][i] = Signal[batch[w][i]] \/ batch[w][i] \in misread' \union refused'
  BY <1>1 DEF Loop, Honest, Worse
<1>4. CASE v = Unknown
  BY <1>3, <1>4 DEF More
<1>5. CASE v # Unknown
  <2>1. More(w, v) = Append(got[w], v)
    BY <1>5 DEF More
  <2>2. /\ DOMAIN More(w, v) = DOMAIN got[w] \union {Len(got[w]) + 1}
        /\ More(w, v)[Len(got[w]) + 1] = v
        /\ \A i \in DOMAIN got[w] : More(w, v)[i] = got[w][i]
    BY <1>2, <2>1, AppendIs
  <2>. QED BY <1>1, <1>2, <1>3, <2>2
<1>. QED BY <1>4, <1>5

(* A loop goes on, with one more honest answer.                              *)
LEMMA MoreSpeaks ==
  ASSUME TypeInv, ApplyInv, NEW w \in Calls, NEW v, Reads(w, v),
         job[w] # None, phase[w] \in Over,
         got' = [got EXCEPT ![w] = More(w, v)],
         UNCHANGED <<cache, job, at, batch, signals, todo, picked>>
  PROVE  ApplyInv'
<1>1. Worse
  BY ReadsHonestly
<1>2. got'[w] = More(w, v) /\ \A x \in Calls \ {w} : got'[x] = got[x]
  BY DEF TypeInv, SlotType
<1>3. Loop(w)'
  <2>1. Loop(w)
    BY DEF ApplyInv
  <2>2. (job[w] \in Messaged(picked))' /\ Silent(job[w], at[w])'
    BY <1>1, <2>1, WorseKeeps DEF Loop, Messaged, Silent, Troubled, Worse
  <2>3. (\A i \in DOMAIN batch[w] :
           batch[w][i] \in Range(Refs[job[w]][at[w]]) /\ Honest(batch[w][i], None))'
    BY <1>1, <2>1 DEF Loop, Honest, Worse
  <2>4. (\A i \in DOMAIN got[w] : Honest(batch[w][i], got[w][i]))'
    BY <1>2, <2>1, MoreIsHonest DEF Honest
  <2>. QED BY <2>2, <2>3, <2>4 DEF Loop
<1>4. ASSUME NEW x \in Calls, job'[x] # None PROVE Loop(x)'
  BY <1>1, <1>2, <1>3, <1>4, LoopStays DEF ApplyInv
<1>5. \A m \in Messaged(picked)', s \in Sources : \A u \in Range(Refs[m][s]) : Honest(u, cache[u])'
  BY <1>1 DEF ApplyInv, Honest, Worse, Messaged
<1>6. \A m \in Messaged(picked)' \ todo' : Right(m)' \/ \E x \in Calls : job'[x] = m
  BY <1>1, WorseKeeps DEF ApplyInv, Messaged
<1>. QED BY <1>4, <1>5, <1>6 DEF ApplyInv, Messaged

(* A loop is over: what it got goes into the cache, and the message to the   *)
(* next source, unless something went wrong with a ticket of it.             *)
LEMMA SettleSpeaks ==
  ASSUME TypeInv, ApplyInv, NEW w \in Calls, NEW v, Reads(w, v),
         pc = "apply", job[w] # None, phase[w] \in Over,
         Settle(w, More(w, v)), UNCHANGED <<todo, picked>>
  PROVE  ApplyInv'
<1>. PICK m : m = job[w]
  OBVIOUS
<1>. PICK seen : seen = More(w, v)
  OBVIOUS
<1>1. Worse
  BY ReadsHonestly
<1>2. /\ batch[w] \in Seq(Tickets)
      /\ m \in Messages /\ at[w] \in Sources /\ at[w] \in Nat \ {0}
      /\ seen \in Seq(Values) /\ Len(seen) <= Len(batch[w])
  BY DEF TypeInv, SlotType, Reads
<1>3. Loop(w) /\ m \in Messaged(picked) /\ Messaged(picked)' = Messaged(picked)
  BY DEF ApplyInv, Loop, Messaged
<1>4. \A i \in 1..Len(seen) : seen[i] = Signal[batch[w][i]] \/ batch[w][i] \in misread' \union refused'
  BY <1>2, <1>3, MoreIsHonest
<1>5. /\ \A t \in Tickets :
           \/ cache'[t] = cache[t]
           \/ \E i \in 1..Len(seen) : batch[w][i] = t /\ cache'[t] = seen[i]
      /\ \/ /\ \E i \in 1..Len(seen) :
                 /\ batch[w][i] \in Tickets /\ ~Nothing(cache'[batch[w][i]])
                 /\ signals' = [signals EXCEPT ![m] = cache'[batch[w][i]]]
            /\ Freed(w)
         \/ Consult(w, m, at[w] + 1, cache')
  BY <1>2, SettleIs
<1>6. \A n \in Messaged(picked)', s \in Sources : \A u \in Range(Refs[n][s]) : Honest(u, cache[u])'
  <2>. SUFFICES ASSUME NEW n \in Messaged(picked)', NEW s \in Sources, NEW u \in Range(Refs[n][s])
                PROVE  Honest(u, cache[u])'
    OBVIOUS
  <2>1. u \in Tickets /\ Honest(u, cache[u])
    BY <1>3, MessagedAre, RangeIs DEF ApplyInv, TypeInv, RunType
  <2>. QED BY <1>1, <1>4, <1>5, <2>1 DEF Honest, Worse
<1>7. ASSUME \E i \in 1..Len(seen) :
               /\ batch[w][i] \in Tickets /\ ~Nothing(cache'[batch[w][i]])
               /\ signals' = [signals EXCEPT ![m] = cache'[batch[w][i]]],
             Freed(w)
      PROVE  Goes(w, m)
  <2>. PICK i \in 1..Len(seen) : /\ ~Nothing(cache'[batch[w][i]])
                                 /\ signals' = [signals EXCEPT ![m] = cache'[batch[w][i]]]
    BY <1>7
  <2>1. batch[w][i] \in Range(Refs[m][at[w]]) /\ Honest(batch[w][i], None)
    BY <1>2, <1>3 DEF Loop
  <2>2. cache'[batch[w][i]] = Signal[batch[w][i]] \/ batch[w][i] \in misread' \union refused'
    BY <1>2, <1>3, <1>6, <2>1 DEF Honest
  <2>3. batch[w][i] \in misread' \union refused'
    BY <1>1, <2>1, <2>2 DEF Honest, Worse, Nothing
  <2>4. Right(m)'
    BY <1>2, <2>1, <2>3 DEF Right, Troubled
  <2>5. /\ job'[w] = None
        /\ \A x \in Calls \ {w} : /\ job'[x] = job[x] /\ at'[x] = at[x]
                                  /\ batch'[x] = batch[x] /\ got'[x] = got[x]
    BY <1>7 DEF TypeInv, SlotType, Freed
  <2>6. \A n \in Messages \ {m} : signals'[n] = signals[n]
    BY DEF TypeInv, CacheType
  <2>. QED BY <2>4, <2>5, <2>6 DEF Goes
<1>8. ASSUME Consult(w, m, at[w] + 1, cache') PROVE Goes(w, m)
  <2>1. \A p \in Sources : \A t \in Range(Refs[m][p]) : Honest(t, cache[t])'
    BY <1>3, <1>6
  <2>2. PICK known : known = cache'
    OBVIOUS
  <2>3. \A p \in Sources : \A t \in Range(Refs[m][p]) : Honest(t, known[t])'
    BY <2>1, <2>2 DEF Honest
  <2>4. PICK s \in Nat \ {0} : s = at[w] + 1 /\ s - 1 = at[w]
    <3>1. at[w] + 1 \in Nat \ {0} /\ (at[w] + 1) - 1 = at[w]
      BY <1>2
    <3>. QED BY <3>1
  <2>5. Silent(m, s - 1)'
    BY <1>1, <1>3, <2>4, WorseKeeps DEF Loop
  <2>6. Consult(w, m, s, known) /\ m \in Messaged(picked)' /\ SlotType /\ CacheType
    BY <1>3, <1>8, <2>2, <2>4 DEF TypeInv
  <2>. QED BY <1>2, <2>3, <2>5, <2>6, ConsultGoes
<1>9. Goes(w, m)
  BY <1>5, <1>7, <1>8
<1>. QED BY <1>1, <1>3, <1>6, <1>9, GoesSpeaks

(* The warm pass. It deals with one source after the other, and asks for     *)
(* each of its tickets once: what is not yet answered was not heard of.      *)
Awaited(t) == t \in misses \/ \E w \in Calls : job[w] = t

WarmInv ==
  /\ todo = Messaged(picked)
  /\ misses \subseteq Named(todo, stage)
  /\ \A w \in Calls : job[w] # None =>
       /\ batch[w] = <<job[w]>>
       /\ job[w] \in Named(todo, stage) \ misses
       /\ \A x \in Calls \ {w} : job[x] # job[w]
  /\ \A t \in Named(todo, stage) : IF Awaited(t) THEN heard[t] = 0 ELSE Honest(t, answers[t])
  /\ \A s \in Sources : \A t \in Named(todo, s) :
       /\ s < stage => Honest(t, cache[t])
       /\ s > stage => heard[t] = 0
       /\ s >= stage => cache[t] = Unknown

LEMMA SourcesApart ==
  ASSUME NEW ms \in SUBSET Messages, NEW s \in Sources, NEW q \in Sources, s # q
  PROVE  Named(ms, s) \intersect Named(ms, q) = {}
<1>. SUFFICES ASSUME NEW t \in Named(ms, s), t \in Named(ms, q) PROVE FALSE
  OBVIOUS
<1>1. PICK m \in ms : t \in Range(Refs[m][s])
  BY DEF Named
<1>2. PICK n \in ms : t \in Range(Refs[n][q])
  BY DEF Named
<1>3. Range(Refs[m][s]) \intersect Range(Refs[n][q]) = {}
  BY SignalAssumption
<1>. QED BY <1>1, <1>2, <1>3

LEMMA StartWarms == ASSUME NEW force, Start(force) PROVE pc' = "warm" => WarmInv'
<1>1. Messaged(picked') \subseteq Messages
  <2>1. picked' \subseteq Commits
    BY DEF Start, Candidates
  <2>. QED BY <2>1, MessagedAre
<1>2. /\ todo' = Messaged(picked') /\ stage' = 1 /\ misses' = Named(todo', 1)
      /\ \A w \in Calls : job'[w] = None
      /\ \A t \in Tickets : cache'[t] = Unknown /\ heard'[t] = 0
  BY DEF Start, BeginSignals
<1>3. \A s \in Sources : s \in Nat \ {0} /\ Named(todo', s) \subseteq Tickets
  BY <1>1, <1>2, SourcesAre, NamedAre
<1>4. 1 \in Sources
  BY SourcesAre
<1>5. (\A t \in Named(todo, stage) : IF Awaited(t) THEN heard[t] = 0 ELSE Honest(t, answers[t]))'
  BY <1>2, <1>3, <1>4 DEF Awaited
<1>6. (\A s \in Sources : \A t \in Named(todo, s) :
         /\ s < stage => Honest(t, cache[t])
         /\ s > stage => heard[t] = 0
         /\ s >= stage => cache[t] = Unknown)'
  BY <1>2, <1>3
<1>7. (\A w \in Calls : job[w] # None =>
         /\ batch[w] = <<job[w]>>
         /\ job[w] \in Named(todo, stage) \ misses
         /\ \A x \in Calls \ {w} : job[x] # job[w])'
  BY <1>2
<1>8. (todo = Messaged(picked))'
  BY <1>2 DEF Messaged
<1>. QED BY <1>2, <1>5, <1>6, <1>7, <1>8 DEF WarmInv

LEMMA WarmTakeWarms ==
  ASSUME TypeInv, WarmInv, NEW w \in Calls, WarmTake(w), UNCHANGED picked
  PROVE  WarmInv'
<1>1. PICK t \in misses :
        /\ misses' = misses \ {t}
        /\ job' = [job EXCEPT ![w] = t]
        /\ batch' = [batch EXCEPT ![w] = <<t>>]
  BY DEF WarmTake
<1>2. /\ UNCHANGED <<cache, stage, answers, todo, heard, misread, refused, picked>>
      /\ job[w] = None
  BY DEF WarmTake, tally
<1>3. /\ job'[w] = t /\ batch'[w] = <<t>>
      /\ \A x \in Calls \ {w} : job'[x] = job[x] /\ batch'[x] = batch[x]
  BY <1>1 DEF TypeInv, SlotType
<1>4. t \in Named(todo, stage) /\ t \in Tickets /\ t # None
  BY SignalAssumption DEF WarmInv, TypeInv, QueueType
<1>5. \A u : Awaited(u)' => Awaited(u)
  BY <1>1, <1>3 DEF Awaited
<1>6. \A u \in Tickets : Awaited(u) => Awaited(u)'
  BY <1>1, <1>2, <1>3, SignalAssumption DEF Awaited
<1>7. (\A x \in Calls : job[x] # None =>
         /\ batch[x] = <<job[x]>>
         /\ job[x] \in Named(todo, stage) \ misses
         /\ \A y \in Calls \ {x} : job[y] # job[x])'
  <2>. SUFFICES ASSUME NEW x \in Calls, job'[x] # None
                PROVE  /\ batch'[x] = <<job'[x]>>
                       /\ job'[x] \in Named(todo, stage) \ misses'
                       /\ \A y \in Calls \ {x} : job'[y] # job'[x]
    BY <1>2 DEF Named
  <2>1. CASE x = w
    BY <1>1, <1>3, <1>4, <2>1 DEF WarmInv
  <2>2. CASE x # w
    BY <1>1, <1>3, <1>4, <2>2 DEF WarmInv
  <2>. QED BY <2>1, <2>2
<1>8. (\A u \in Named(todo, stage) : IF Awaited(u) THEN heard[u] = 0 ELSE Honest(u, answers[u]))'
  <2>1. Named(todo, stage)' = Named(todo, stage) /\ Named(todo, stage) \subseteq Tickets
    BY <1>2, NamedAre DEF Named, TypeInv, QueueType
  <2>. QED BY <1>2, <1>5, <1>6, <2>1 DEF WarmInv, Honest
<1>9. (\A s \in Sources : \A u \in Named(todo, s) :
         /\ s < stage => Honest(u, cache[u])
         /\ s > stage => heard[u] = 0
         /\ s >= stage => cache[u] = Unknown)'
  BY <1>2 DEF WarmInv, Honest, Named
<1>10. (todo = Messaged(picked) /\ misses \subseteq Named(todo, stage))'
  BY <1>1, <1>2 DEF WarmInv, Messaged, Named
<1>. QED BY <1>7, <1>8, <1>9, <1>10 DEF WarmInv

(* An answer of the warm pass: the ticket is heard of for the first time.    *)
LEMMA ReceiveWarms ==
  ASSUME TypeInv, WarmInv, BroughtOnce, NEW w \in Calls, \A x \in Calls : got[x] = <<>>,
         NEW v, Reads(w, v), pc = "warm", job[w] # None, phase[w] \in Over,
         UNCHANGED <<stage, misses, todo, picked>>
  PROVE  WarmInv' /\ BroughtOnce'
<1>. PICK t : t = job[w]
  OBVIOUS
<1>1. /\ Asking(w) = t /\ t \in Named(todo, stage) /\ t \notin misses
      /\ \A x \in Calls \ {w} : job[x] # t
      /\ t \in Tickets
  <2>1. Asking(w) = batch[w][1] /\ batch[w] = <<t>>
    BY DEF Asking, WarmInv
  <2>2. t \in Tickets
    BY SignalAssumption DEF TypeInv, SlotType
  <2>. QED BY <2>1, <2>2 DEF WarmInv
<1>2. /\ Worse /\ (v = Signal[t] \/ t \in misread' \union refused')
  BY <1>1, ReadsHonestly
<1>3. /\ answers' = [answers EXCEPT ![t] = v]
      /\ job' = [job EXCEPT ![w] = None]
      /\ batch' = [batch EXCEPT ![w] = <<>>]
      /\ heard' = IF Nothing(v) THEN heard ELSE [heard EXCEPT ![t] = Min({@ + 1, 2})]
      /\ cache' = cache
  BY <1>1 DEF Reads
<1>4. heard[t] = 0
  BY <1>1 DEF WarmInv, Awaited
<1>5. /\ \A u \in Tickets \ {t} : heard'[u] = heard[u] /\ answers'[u] = answers[u]
      /\ heard'[t] \in {0, 1} /\ answers'[t] = v
  <2>1. Min({0 + 1, 2}) = 1
    BY MinOf
  <2>. QED BY <1>1, <1>3, <1>4, <2>1 DEF TypeInv, TallyType, CacheType
<1>6. BroughtOnce'
  BY <1>2, <1>5 DEF BroughtOnce, Worse
<1>7. /\ job'[w] = None
      /\ \A x \in Calls \ {w} : job'[x] = job[x] /\ batch'[x] = batch[x]
  BY <1>3 DEF TypeInv, SlotType
<1>8. \A u \in Tickets : Awaited(u)' <=> Awaited(u) /\ u # t
  BY <1>1, <1>7, SignalAssumption DEF Awaited
<1>9. \A ms, s : Named(ms, s)' = Named(ms, s)
  BY DEF Named
<1>10. Named(todo, stage) \subseteq Tickets /\ \A s \in Sources : Named(todo, s) \subseteq Tickets
  BY NamedAre DEF TypeInv, QueueType
<1>11. (\A u \in Named(todo, stage) : IF Awaited(u) THEN heard[u] = 0 ELSE Honest(u, answers[u]))'
  <2>. SUFFICES ASSUME NEW u \in Named(todo, stage)
                PROVE  IF Awaited(u)' THEN heard'[u] = 0 ELSE Honest(u, answers[u])'
    BY DEF Named
  <2>1. CASE u = t
    BY <1>2, <1>5, <1>8, <1>10, <2>1 DEF Honest
  <2>2. CASE u # t
    BY <1>2, <1>5, <1>8, <1>10, <2>2 DEF WarmInv, Honest, Worse
  <2>. QED BY <2>1, <2>2
<1>12. (\A s \in Sources : \A u \in Named(todo, s) :
         /\ s < stage => Honest(u, cache[u])
         /\ s > stage => heard[u] = 0
         /\ s >= stage => cache[u] = Unknown)'
  <2>. SUFFICES ASSUME NEW s \in Sources, NEW u \in Named(todo, s)
                PROVE  /\ s < stage => Honest(u, cache[u])'
                       /\ s > stage => heard'[u] = 0
                       /\ s >= stage => cache'[u] = Unknown
    BY DEF Named
  <2>1. s > stage => u # t
    <3>1. s > stage => s # stage
      BY SourcesAre DEF TypeInv, QueueType
    <3>. QED BY <1>1, <3>1, SourcesApart DEF TypeInv, QueueType
  <2>2. Honest(u, cache[u]) => Honest(u, cache[u])'
    BY <1>2, <1>3 DEF Honest, Worse
  <2>. QED BY <1>3, <1>5, <1>10, <2>1, <2>2 DEF WarmInv
<1>13. (\A x \in Calls : job[x] # None =>
         /\ batch[x] = <<job[x]>>
         /\ job[x] \in Named(todo, stage) \ misses
         /\ \A y \in Calls \ {x} : job[y] # job[x])'
  BY <1>7 DEF WarmInv, Named
<1>14. (todo = Messaged(picked) /\ misses \subseteq Named(todo, stage))'
  BY DEF WarmInv, Messaged, Named
<1>. QED BY <1>6, <1>11, <1>12, <1>13, <1>14 DEF WarmInv

(* The answers for a source go into the cache, which has nothing yet of the  *)
(* next one; after the last one, it is honest about all.                     *)
LEMMA WarmNextSpeaks ==
  ASSUME TypeInv, WarmInv, WarmNext, UNCHANGED picked
  PROVE  IF stage < Len(Kind) THEN pc' = pc /\ WarmInv' ELSE pc' = "apply" /\ ApplyInv'
<1>1. /\ misses = {} /\ \A w \in Calls : job[w] = None /\ job'[w] = None
      /\ UNCHANGED <<answers, todo, heard, misread, refused, picked>>
      /\ Named(todo, stage) \subseteq Tickets
      /\ \A t \in Tickets : cache'[t] = IF t \in Named(todo, stage) THEN Warmed(t) ELSE cache[t]
  BY NamedAre DEF WarmNext, tally, work, TypeInv, QueueType
<1>2. /\ stage \in Sources /\ stage \in Nat \ {0} /\ Len(Kind) \in Nat
      /\ \A s \in Sources : s \in Nat /\ s <= Len(Kind) /\ Named(todo, s) \subseteq Tickets
  BY SourcesAre, NamedAre DEF TypeInv, QueueType
<1>3. ASSUME NEW t \in Named(todo, stage) PROVE Honest(t, cache'[t])
  <2>1. t \in Tickets /\ Honest(t, answers[t])
    BY <1>1, SignalAssumption DEF WarmInv, Awaited
  <2>2. answers[t] = Unknown => t \in misread \union refused
    BY <2>1, SignalIsKnown DEF Honest
  <2>. QED BY <1>1, <2>1, <2>2 DEF Warmed, Honest
<1>4. ASSUME NEW s \in Sources, s # stage, NEW t \in Named(todo, s) PROVE cache'[t] = cache[t]
  <2>1. t \notin Named(todo, stage)
    BY <1>2, <1>4, SourcesApart DEF TypeInv, QueueType
  <2>. QED BY <1>1, <1>2, <2>1
<1>5. \A t, v : Honest(t, v)' <=> Honest(t, v)
  BY <1>1 DEF Honest
<1>6. ASSUME NEW s \in Sources, s <= stage, NEW t \in Named(todo, s) PROVE Honest(t, cache'[t])
  <2>1. CASE s = stage
    BY <1>3, <1>6, <2>1
  <2>2. CASE s # stage
    BY <1>2, <1>4, <1>6, <2>2 DEF WarmInv
  <2>. QED BY <2>1, <2>2
<1>7. CASE stage < Len(Kind)
  <2>1. /\ stage' = stage + 1 /\ pc' = pc
        /\ misses' = {t \in Named(todo, stage + 1) : cache[t] = Unknown}
    BY <1>7 DEF WarmNext
  <2>2. stage + 1 \in Sources /\ stage + 1 > stage
    BY <1>2, <1>7, SourcesAre
  <2>3. \A t \in Named(todo, stage + 1) : cache[t] = Unknown /\ heard[t] = 0
    BY <1>2, <2>2 DEF WarmInv
  <2>4. misses' = Named(todo, stage + 1)
    BY <2>1, <2>3
  <2>5. \A s : Named(todo, s)' = Named(todo, s)
    BY <1>1 DEF Named
  <2>6. (\A t \in Named(todo, stage) : IF Awaited(t) THEN heard[t] = 0 ELSE Honest(t, answers[t]))'
    BY <1>1, <2>1, <2>3, <2>4 DEF Awaited, Named
  <2>7. ASSUME NEW s \in Sources, NEW t \in Named(todo, s)
        PROVE  /\ s < stage' => cache'[t] = Signal[t] \/ t \in misread' \union refused'
               /\ s > stage' => heard'[t] = 0
               /\ s >= stage' => cache'[t] = Unknown
    <3>1. s \in Nat /\ (s < stage' => s <= stage) /\ (s >= stage' => s # stage /\ s >= stage)
          /\ (s > stage' => s > stage)
      BY <1>2, <2>1
    <3>2. s < stage' => Honest(t, cache'[t])
      BY <1>6, <3>1
    <3>3. s > stage' => heard'[t] = 0
      BY <1>1, <3>1 DEF WarmInv
    <3>4. s >= stage' => cache'[t] = Unknown
      BY <1>4, <3>1 DEF WarmInv
    <3>. QED BY <1>1, <3>2, <3>3, <3>4 DEF Honest
  <2>8. (\A s \in Sources : \A t \in Named(todo, s) :
           /\ s < stage => Honest(t, cache[t])
           /\ s > stage => heard[t] = 0
           /\ s >= stage => cache[t] = Unknown)'
    BY <1>1, <2>7 DEF Honest, Named
  <2>9. (todo = Messaged(picked))'
    BY <1>1 DEF WarmInv, Messaged
  <2>10. (misses \subseteq Named(todo, stage))'
    BY <1>1, <2>1, <2>4 DEF Named
  <2>11. WarmInv'
    BY <1>1, <2>6, <2>8, <2>9, <2>10 DEF WarmInv
  <2>. QED BY <1>7, <2>1, <2>11
<1>8. CASE ~(stage < Len(Kind))
  <2>1. pc' = "apply" /\ \A s \in Sources : s <= stage
    BY <1>2, <1>8 DEF WarmNext
  <2>2. ASSUME NEW m \in Messaged(picked), NEW s \in Sources, NEW t \in Range(Refs[m][s])
        PROVE  Honest(t, cache'[t])
    <3>1. t \in Named(todo, s)
      BY DEF Named, WarmInv
    <3>. QED BY <1>6, <2>1, <3>1
  <2>3. (\A m \in Messaged(picked), s \in Sources : \A t \in Range(Refs[m][s]) : Honest(t, cache[t]))'
    BY <1>1, <2>2 DEF Honest, Messaged
  <2>4. todo' = Messaged(picked)'
    BY <1>1 DEF WarmInv, Messaged
  <2>5. ApplyInv'
    BY <1>1, <2>3, <2>4 DEF ApplyInv
  <2>. QED BY <1>8, <2>1, <2>5
<1>. QED BY <1>7, <1>8

(* The verdicts. Until the LLM is asked they are those of the rules, then    *)
(* the ticket's where one spoke, and the LLM displaces only a weak one.      *)
Spoken(c) ==
  \/ Troubled(Message[c])
  \/ results[c] = IF FirstSignal(Message[c]) # None
                  THEN Verdict("ticket", FirstSignal(Message[c]))
                  ELSE Verdict("rule", None)

VerdictInv ==
  /\ pc \in {"warm", "apply"} =>
       \A c \in Commits : reply[c] = "none" /\ (c \in picked => results[c] = RuleVerdict(c))
  /\ pc = "llm" =>
       /\ \A c \in Commits : reply[c] = "better" => IsWeak(c)
       /\ \A c \in picked \ Overridden : Spoken(c)
  /\ TicketsSpeak

SpeakInv ==
  /\ TypeInv /\ CacheInv /\ BroughtOnce /\ VerdictInv
  /\ pc = "warm" => WarmInv
  /\ pc = "apply" => ApplyInv

LEMMA SpokenStays ==
  ASSUME UNCHANGED <<misread, refused>>, NEW c, results'[c] = results[c], Spoken(c)
  PROVE  Spoken(c)'
BY DEF Spoken, Troubled, FirstSignal

(* The requests of both passes.                                              *)
LEMMA ResolveSpeaks == ASSUME SpeakInv, TypeInv', CacheInv', Resolve PROVE SpeakInv'
<1>1. /\ UNCHANGED <<picked, results, reply>>
      /\ pc' = pc \/ (pc = "warm" /\ pc' = "apply")
      /\ pc \in {"warm", "apply"} \/ UNCHANGED <<misread, refused>>
  <2>1. ASSUME NEW w \in Calls, Receive(w) PROVE pc' = pc /\ pc \in {"warm", "apply"}
    BY <2>1 DEF Receive, SpeakInv, TypeInv, SlotType
  <2>2. pc' = pc \/ (pc = "warm" /\ pc' = "apply")
    BY <2>1 DEF Resolve, SignalStep, OwnStep, WarmNext, WarmTake, ResolveTake, Ask, Service, Rouse
  <2>3. pc \in {"warm", "apply"} \/ UNCHANGED <<misread, refused>>
    BY <2>1 DEF Resolve, SignalStep, OwnStep, WarmNext, WarmTake, ResolveTake, Ask, Service, Rouse, signalVars, tally
  <2>. QED BY <2>2, <2>3 DEF Resolve, run
<1>2. VerdictInv'
  <2>1. pc \in {"warm", "apply"} => VerdictInv'
    BY <1>1 DEF SpeakInv, VerdictInv, TicketsSpeak, RuleVerdict
  <2>2. pc \notin {"warm", "apply"} => VerdictInv'
    BY <1>1, SpokenStays DEF SpeakInv, VerdictInv, TicketsSpeak, RuleVerdict, Troubled, FirstSignal, IsWeak
  <2>. QED BY <2>1, <2>2
<1>3. CASE WarmNext
  <2>1. BroughtOnce'
    BY <1>3 DEF WarmNext, tally, SpeakInv, BroughtOnce
  <2>2. pc = "warm"
    BY <1>3 DEF WarmNext
  <2>. QED BY <1>1, <1>2, <1>3, <2>1, <2>2, WarmNextSpeaks DEF SpeakInv
<1>4. ASSUME NEW w \in Calls, WarmTake(w) PROVE SpeakInv'
  <2>1. BroughtOnce' /\ pc = "warm" /\ pc' = pc
    BY <1>4 DEF WarmTake, tally, SpeakInv, BroughtOnce
  <2>. QED BY <1>1, <1>2, <1>4, <2>1, WarmTakeWarms DEF SpeakInv
<1>5. ASSUME NEW w \in Calls, ResolveTake(w) PROVE SpeakInv'
  <2>1. BroughtOnce' /\ pc = "apply" /\ pc' = pc
    BY <1>5 DEF ResolveTake, tally, SpeakInv, BroughtOnce
  <2>. QED BY <1>1, <1>2, <1>5, <2>1, ResolveTakeSpeaks DEF SpeakInv
<1>6. ASSUME NEW w \in Calls, Ask(w) \/ Service(w) \/ Rouse(w) PROVE SpeakInv'
  <2>1. UNCHANGED <<signalVars, pc, picked>>
    BY <1>1, <1>6 DEF Ask, Service, Rouse
  <2>2. BroughtOnce'
    BY <2>1 DEF signalVars, tally, SpeakInv, BroughtOnce
  <2>3. pc' = "warm" => WarmInv'
    BY <2>1 DEF signalVars, warm, work, tally, SpeakInv, WarmInv, Awaited, Honest, Named, Messaged
  <2>4. pc' = "apply" => ApplyInv'
    <3>1. ASSUME pc = "apply", NEW w2 \in Calls, job'[w2] # None PROVE Loop(w2)'
      BY <2>1, <3>1, LoopStays DEF signalVars, work, tally, Worse, SpeakInv, ApplyInv
    <3>2. pc = "apply" => \A m : Right(m) => Right(m)'
      BY <2>1, WorseKeeps DEF signalVars, tally, Worse
    <3>. QED BY <2>1, <3>1, <3>2 DEF signalVars, work, tally, SpeakInv, ApplyInv, Honest, Messaged
  <2>. QED BY <1>2, <2>2, <2>3, <2>4 DEF SpeakInv
<1>7. ASSUME NEW w \in Calls, Receive(w) PROVE SpeakInv'
  <2>1. /\ phase[w] \in Over /\ job[w] # None
        /\ UNCHANGED <<pc, stage, misses, todo, faults>>
        /\ \E v : Reads(w, v)
    BY <1>7, ReceiveIs DEF SpeakInv
  <2>2. PICK v : Reads(w, v)
    BY <2>1
  <2>3. pc \in {"warm", "apply"}
    BY <2>1 DEF SpeakInv, TypeInv, SlotType
  <2>4. CASE pc = "warm"
    <3>1. \A x \in Calls : got[x] = <<>>
      BY <2>4 DEF SpeakInv, CacheInv
    <3>2. WarmInv' /\ BroughtOnce'
      BY <1>1, <2>1, <2>2, <2>4, <3>1, ReceiveWarms DEF SpeakInv
    <3>. QED BY <1>2, <2>1, <2>4, <3>2 DEF SpeakInv
  <2>5. CASE pc = "apply"
    <3>1. ApplyInv /\ TypeInv
      BY <2>5 DEF SpeakInv
    <3>2. ApplyInv'
      BY <1>1, <2>1, <2>2, <2>5, <3>1, MoreSpeaks, SettleSpeaks DEF Reads
    <3>3. BroughtOnce'
      <4>1. Worse /\ (v = Signal[Asking(w)] \/ Asking(w) \in misread' \union refused')
        BY <2>1, <2>2, ReadsHonestly
      <4>2. Honest(Asking(w), None)
        <5>1. Asking(w) = batch[w][Len(got[w]) + 1] /\ Len(got[w]) + 1 \in DOMAIN batch[w]
          BY <2>1, <3>1, AskingIs DEF Asking, TypeInv, SlotType
        <5>. QED BY <2>1, <3>1, <5>1 DEF ApplyInv, Loop
      <4>3. Nothing(v) \/ Asking(w) \in misread' \union refused'
        BY <4>1, <4>2 DEF Honest, Nothing, Worse
      <4>4. \A t \in Tickets : heard'[t] = heard[t] \/ (t = Asking(w) /\ ~Nothing(v))
        BY <2>2, <3>1 DEF Reads, TypeInv, TallyType
      <4>. QED BY <4>1, <4>3, <4>4 DEF SpeakInv, BroughtOnce, Worse
    <3>. QED BY <1>2, <2>1, <2>5, <3>2, <3>3 DEF SpeakInv
  <2>. QED BY <2>3, <2>4, <2>5
<1>. QED BY <1>3, <1>4, <1>5, <1>6, <1>7 DEF Resolve, SignalStep, OwnStep

(* Every message has been resolved, and its commits get what it was given.   *)
LEMMA ApplySpeaks == ASSUME SpeakInv, TypeInv', CacheInv', ApplySignals PROVE SpeakInv'
<1>1. /\ pc = "apply" /\ pc' = "llm" /\ todo = {} /\ \A w \in Calls : job[w] = None
      /\ UNCHANGED <<picked, reply, misread, refused, heard>>
      /\ results' = [c \in Commits |->
                       IF c \in picked \ Overridden /\ signals[Message[c]] # None
                       THEN Verdict("ticket", signals[Message[c]])
                       ELSE results[c]]
  BY DEF ApplySignals, SignalsOver, signalVars, tally
<1>2. ASSUME NEW c \in picked \ Overridden PROVE Spoken(c)'
  <2>1. c \in Commits /\ Message[c] \in Messaged(picked) /\ Message[c] # None
    BY CommitAssumption, SignalAssumption DEF Messaged, SpeakInv, TypeInv, RunType
  <2>2. Right(Message[c])
    BY <1>1, <2>1 DEF SpeakInv, ApplyInv
  <2>3. results[c] = Verdict("rule", None)
    BY <1>1, <2>1 DEF SpeakInv, VerdictInv, RuleVerdict
  <2>4. results'[c] = IF signals[Message[c]] # None THEN Verdict("ticket", signals[Message[c]])
                      ELSE Verdict("rule", None)
    BY <1>1, <2>1, <2>3
  <2>. QED BY <1>1, <2>2, <2>4 DEF Right, Spoken, Troubled, FirstSignal
<1>3. BroughtOnce'
  BY <1>1 DEF SpeakInv, BroughtOnce
<1>4. VerdictInv'
  BY <1>1, <1>2 DEF SpeakInv, VerdictInv, TicketsSpeak
<1>. QED BY <1>1, <1>3, <1>4 DEF SpeakInv

(* What an adopted reply displaces is a rule's verdict or a weak ticket's.   *)
LEMMA AdoptSpeaks == ASSUME SpeakInv, TypeInv', CacheInv', Adopt PROVE SpeakInv'
<1>1. /\ pc = "llm" /\ pc' = "bill"
      /\ UNCHANGED <<picked, reply, misread, refused, heard>>
      /\ results' = [c \in Commits |->
                       IF reply[c] = "better" THEN Verdict("llm", None) ELSE results[c]]
  BY DEF Adopt, signalVars, tally
<1>2. ASSUME NEW c \in picked \ Overridden, ~Troubled(Message[c])
      PROVE  IF FirstSignal(Message[c]) = None
             THEN results'[c].by \in {"rule", "llm"}
             ELSE \/ results'[c] = Verdict("ticket", FirstSignal(Message[c]))
                  \/ FirstSignal(Message[c]) \in WeakSignals /\ results'[c].by = "llm"
  <2>1. c \in Commits /\ Spoken(c) /\ (reply[c] = "better" => IsWeak(c))
    BY <1>1 DEF SpeakInv, VerdictInv, TypeInv, RunType
  <2>2. CASE FirstSignal(Message[c]) # None
    <3>1. results[c] = Verdict("ticket", FirstSignal(Message[c]))
      BY <1>2, <2>1, <2>2 DEF Spoken
    <3>2. results[c].by = "ticket" /\ results[c].of = FirstSignal(Message[c])
      BY <3>1 DEF Verdict
    <3>3. reply[c] = "better" => FirstSignal(Message[c]) \in WeakSignals
      BY <2>1, <3>2 DEF IsWeak
    <3>4. CASE reply[c] = "better"
      BY <1>1, <2>1, <2>2, <3>3, <3>4 DEF Verdict
    <3>5. CASE reply[c] # "better"
      BY <1>1, <2>1, <2>2, <3>1, <3>5
    <3>. QED BY <3>4, <3>5
  <2>3. CASE FirstSignal(Message[c]) = None
    <3>1. results[c] = Verdict("rule", None)
      BY <1>2, <2>1, <2>3 DEF Spoken
    <3>. QED BY <1>1, <2>1, <2>3, <3>1 DEF Verdict
  <2>. QED BY <2>2, <2>3
<1>3. BroughtOnce'
  BY <1>1 DEF SpeakInv, BroughtOnce
<1>4. TicketsSpeak'
  BY <1>1, <1>2 DEF TicketsSpeak, Troubled, FirstSignal
<1>5. VerdictInv'
  BY <1>1, <1>4 DEF VerdictInv
<1>. QED BY <1>1, <1>3, <1>5 DEF SpeakInv

(* Where a run ends, nothing is claimed of it any more.                      *)
LEMMA ForgetSpeaks == ASSUME TypeInv', CacheInv', Forget PROVE SpeakInv'
<1>1. pc' = "idle" /\ \A t \in Tickets : heard'[t] = 0
  BY DEF Forget, BeginSignals
<1>. QED BY <1>1 DEF SpeakInv, BroughtOnce, VerdictInv, TicketsSpeak

LEMMA SpeakKept == ASSUME SpeakInv, [Next]_vars PROVE SpeakInv'
<1>1. TypeInv' /\ CacheInv'
  BY TypeKept, CacheKept DEF SpeakInv
<1>2. ASSUME UNCHANGED <<signalVars, picked, pc>>, pc \in {"idle", "llm", "bill", "write"}, VerdictInv'
      PROVE  SpeakInv'
  BY <1>1, <1>2 DEF SpeakInv, BroughtOnce, signalVars, tally
<1>3. CASE UNCHANGED vars
  <2>1. UNCHANGED <<signalVars, pc, picked, results, reply>>
    BY <1>3 DEF vars, run
  <2>2. BroughtOnce' /\ VerdictInv'
    BY <2>1 DEF signalVars, tally, SpeakInv, BroughtOnce, VerdictInv, TicketsSpeak, Spoken,
                Troubled, FirstSignal, RuleVerdict, IsWeak
  <2>3. pc' = "warm" => WarmInv'
    BY <2>1 DEF signalVars, warm, work, tally, SpeakInv, WarmInv, Awaited, Honest, Named, Messaged
  <2>4. pc' = "apply" => ApplyInv'
    <3>1. ASSUME pc = "apply", NEW w \in Calls, job'[w] # None PROVE Loop(w)'
      BY <2>1, <3>1, LoopStays DEF signalVars, work, tally, Worse, SpeakInv, ApplyInv
    <3>2. pc = "apply" => \A m : Right(m) => Right(m)'
      BY <2>1, WorseKeeps DEF signalVars, tally, Worse
    <3>. QED BY <2>1, <3>1, <3>2 DEF signalVars, work, tally, SpeakInv, ApplyInv, Honest, Messaged
  <2>. QED BY <1>1, <2>2, <2>3, <2>4 DEF SpeakInv
<1>4. ASSUME NEW c \in Commits, CallLlm(c) PROVE SpeakInv'
  <2>1. /\ pc = "llm" /\ IsWeak(c)
        /\ UNCHANGED <<signalVars, picked, pc, results>>
        /\ \A d \in Commits \ {c} : reply'[d] = reply[d]
    BY <1>4 DEF CallLlm, Pending, SpeakInv, TypeInv, RunType
  <2>2. VerdictInv'
    BY <2>1, SpokenStays DEF signalVars, tally, SpeakInv, VerdictInv, TicketsSpeak, IsWeak
  <2>. QED BY <1>2, <2>1, <2>2
<1>5. CASE RecordUsage
  <2>1. pc = "bill" /\ pc' = "write" /\ UNCHANGED <<signalVars, picked, results>>
    BY <1>5 DEF RecordUsage
  <2>2. VerdictInv' /\ BroughtOnce'
    BY <2>1 DEF signalVars, tally, SpeakInv, BroughtOnce, VerdictInv, TicketsSpeak, Troubled, FirstSignal
  <2>. QED BY <1>1, <2>1, <2>2 DEF SpeakInv
<1>6. CASE WriteChunk
  <2>1. CASE Forget
    BY <1>1, <2>1, ForgetSpeaks
  <2>2. CASE UNCHANGED <<signalVars, pc, picked, results>>
    <3>1. pc = "write"
      BY <1>6 DEF WriteChunk
    <3>2. VerdictInv'
      BY <2>2, <3>1 DEF signalVars, tally, SpeakInv, VerdictInv, TicketsSpeak, Troubled, FirstSignal
    <3>. QED BY <1>2, <2>2, <3>1, <3>2
  <2>. QED BY <1>6, <2>1, <2>2 DEF WriteChunk
<1>7. ASSUME NEW force \in BOOLEAN, Start(force) PROVE SpeakInv'
  <2>1. /\ pc' = IF Messaged(picked') = {} THEN "llm" ELSE "warm"
        /\ \A t \in Tickets : heard'[t] = 0
        /\ \A c \in Commits : reply'[c] = "none"
        /\ \A c \in Commits : c \in picked' => results'[c] = RuleVerdict(c)
    BY <1>7 DEF Start, BeginSignals
  <2>2. Messaged(picked') = {} => picked' \ Overridden = {}
    BY DEF Messaged
  <2>3. VerdictInv'
    BY <2>1, <2>2 DEF VerdictInv, TicketsSpeak, RuleVerdict
  <2>. QED BY <1>1, <1>7, <2>1, <2>3, StartWarms DEF SpeakInv, BroughtOnce
<1>8. CASE Die
  BY <1>1, <1>8, ForgetSpeaks DEF Die
<1>. QED BY <1>1, <1>3, <1>4, <1>5, <1>6, <1>7, <1>8, ResolveSpeaks, ApplySpeaks, AdoptSpeaks
     DEF Next, RunStep

LEMMA SpeakStarts == Init => SpeakInv
<1>. SUFFICES ASSUME Init PROVE SpeakInv
  OBVIOUS
<1>1. pc = "idle" /\ \A t \in Tickets : heard[t] = 0
  BY DEF Init, SignalInit
<1>. QED BY <1>1, TypeStarts, CacheStarts DEF SpeakInv, BroughtOnce, VerdictInv, TicketsSpeak

(* However the requests of both passes and of all messages interleave, a     *)
(* ticket that has a signal is brought once, unless a request for it went    *)
(* wrong: what a message asks for again has none.                            *)
THEOREM TicketsBroughtOnce == Spec => []BroughtOnce
<1>1. SpeakInv => BroughtOnce
  BY DEF SpeakInv
<1>. QED BY <1>1, SpeakStarts, SpeakKept, PTL DEF Spec

(* A commit no request of whose tickets went wrong gets the verdict of the   *)
(* first ticket that has a signal, in the order of the sources: no rule      *)
(* displaces it, and the LLM only where the ticket's is a weak one.          *)
THEOREM TicketsHaveTheSay == Spec => []TicketsSpeak
<1>1. SpeakInv => TicketsSpeak
  BY DEF SpeakInv, VerdictInv
<1>. QED BY <1>1, SpeakStarts, SpeakKept, PTL DEF Spec

=============================================================================
