---------------------------- MODULE FetchBudget ----------------------------
(***************************************************************************)
(* The one allowance a run may sleep away waiting GitHub out, and the calls *)
(* that draw on it: retry_send sends, waits and sends again until it gets   *)
(* an answer, exhausts its attempts, or finds that the allowance has        *)
(* latched, which ends GitHub traffic for the run.                          *)
(***************************************************************************)
EXTENDS Naturals

CONSTANTS
  Calls,        \* the slots for requests in flight together
  MaxRetries,   \* MAX_RETRIES: a call makes one attempt more than this
  SleepBudget,  \* RATE_LIMIT_SLEEP_BUDGET
  Delays,       \* the waits a rate-limited answer may ask for, clamped
  Backoff       \* Backoff[a]: the wait after a transient failure of attempt a

ASSUME BudgetAssumption ==
  /\ MaxRetries \in Nat
  /\ SleepBudget \in Nat
  /\ Delays \subseteq Nat
  /\ Backoff \in [0..MaxRetries -> Nat]

VARIABLES
  slept,    \* the waiting committed against the allowance
  tripped,  \* whether the breaker has latched
  phase,    \* where each call stands in retry_send
  attempt,  \* its attempt
  late      \* the requests each slot sent after the breaker had latched

budget == <<slept, tripped>>
call == <<phase, attempt, late>>
fetchVars == <<budget, call>>

(* A call returns what it was answered, Throttled, or another error. *)
Over == {"answered", "throttled", "failed"}

FetchType ==
  /\ slept \in Nat
  /\ tripped \in BOOLEAN
  /\ phase \in [Calls -> {"free", "sent", "asleep"} \union Over]
  /\ attempt \in [Calls -> 0..MaxRetries]
  /\ late \in [Calls -> Nat]

(* A run starts with its own allowance and nothing in flight. *)
FetchInit ==
  /\ slept = 0
  /\ tripped = FALSE
  /\ phase = [k \in Calls |-> "free"]
  /\ attempt = [k \in Calls |-> 0]
  /\ late = [k \in Calls |-> 0]

FetchReset ==
  /\ slept' = 0
  /\ tripped' = FALSE
  /\ phase' = [k \in Calls |-> "free"]
  /\ attempt' = [k \in Calls |-> 0]
  /\ late' = [k \in Calls |-> 0]

Become(c, p) == phase' = [phase EXCEPT ![c] = p]

\* Faulty variant: enters without asking whether the breaker has latched.
FaultyEnter(c) ==
  /\ phase[c] = "free"
  /\ Become(c, "sent")
  /\ late' = [late EXCEPT ![c] = IF tripped THEN @ + 1 ELSE @]
  /\ attempt' = [attempt EXCEPT ![c] = 0]
  /\ UNCHANGED budget

(* retry_send asks once, on entry, whether the breaker has latched. *)
Enter(c) ==
  /\ phase[c] = "free"
  /\ Become(c, IF tripped THEN "throttled" ELSE "sent")
  /\ attempt' = [attempt EXCEPT ![c] = 0]
  /\ UNCHANGED <<budget, late>>

(* An answer that is neither a rate limit nor transient is the call's own. *)
Answer(c, p) ==
  /\ phase[c] = "sent"
  /\ p \in {"answered", "failed"}
  /\ Become(c, p)
  /\ UNCHANGED <<budget, attempt, late>>

\* Faulty variant: the wait is checked against what is left before it only.
LaxReserve(c, delay) ==
  IF tripped \/ slept > SleepBudget
  THEN tripped' = TRUE /\ Become(c, "throttled") /\ UNCHANGED slept
  ELSE slept' = slept + delay /\ Become(c, "asleep") /\ UNCHANGED tripped

(* reserve: the wait is committed if it fits; if not, the breaker latches.   *)
Reserve(c, delay) ==
  IF tripped \/ slept + delay > SleepBudget
  THEN tripped' = TRUE /\ Become(c, "throttled") /\ UNCHANGED slept
  ELSE slept' = slept + delay /\ Become(c, "asleep") /\ UNCHANGED tripped

\* Faulty variant: goes on after the last attempt.
FaultyRateLimited(c, delay) ==
  /\ phase[c] = "sent"
  /\ Reserve(c, delay)
  /\ UNCHANGED <<attempt, late>>

(* A rate limit on the last attempt latches the breaker at once. *)
RateLimited(c, delay) ==
  /\ phase[c] = "sent"
  /\ IF attempt[c] = MaxRetries
     THEN tripped' = TRUE /\ Become(c, "throttled") /\ UNCHANGED slept
     ELSE Reserve(c, delay)
  /\ UNCHANGED <<attempt, late>>

(* A 5xx or a transport error backs off, and on the last attempt is final. *)
Transient(c) ==
  /\ phase[c] = "sent"
  /\ IF attempt[c] = MaxRetries
     THEN Become(c, "failed") /\ UNCHANGED budget
     ELSE Reserve(c, Backoff[attempt[c]])
  /\ UNCHANGED <<attempt, late>>

(* The wait is over and the next attempt is sent, latched or not. *)
Wake(c) ==
  /\ phase[c] = "asleep"
  /\ Become(c, "sent")
  /\ attempt' = [attempt EXCEPT ![c] = @ + 1]
  /\ late' = [late EXCEPT ![c] = IF tripped THEN @ + 1 ELSE @]
  /\ UNCHANGED budget

(* The caller takes the result. *)
Take(c) ==
  /\ phase[c] \in Over
  /\ Become(c, "free")
  /\ UNCHANGED <<budget, attempt, late>>

(* A bad answer to a request of this call. *)
Trouble(c) ==
  \/ Answer(c, "failed")
  \/ \E delay \in Delays : RateLimited(c, delay)
  \/ Transient(c)

-----------------------------------------------------------------------------
(* All the calls of a run together wait no longer than its allowance, which  *)
(* bounds the whole run and not one client (budget.rs `RunBudget`).          *)
SleepWithinAllowance == slept <= SleepBudget

(* Once the breaker latches, the run sends at most one more request for each *)
(* call that was waiting then, however many calls are still to come, because *)
(* nothing is sent on entry (retry.rs: "the remaining thousands of doomed    *)
(* calls" become "an immediate terminal outcome").                           *)
LatchStopsTraffic == \A c \in Calls : late[c] <= 1

=============================================================================
