------------------------------ MODULE JevBudget ------------------------------
(***************************************************************************)
(* The Jev tier's per-run spend cap. Calls run concurrently; each reserves   *)
(* the worst its retries can bill, sends up to MaxAttempts attempts, any of  *)
(* which the service may bill, and settles to what it was told it used.     *)
(***************************************************************************)
EXTENDS Naturals, FiniteSets

CONSTANTS
  Calls,        \* the classification calls of one run
  Size,         \* Size[c]: the input bound of one attempt (bytes plus slack)
  MaxAttempts,  \* MAX_ATTEMPTS
  Cap,          \* cap_tokens
  Concurrency,  \* calls buffer_unordered keeps in flight
  MaxReported,  \* the most a reply reports (bounds the model)
  Honest,       \* whether a reply reports at most the attempt's bound
  NoUsage       \* a call that ended without a usage block

ASSUME BudgetAssumption ==
  /\ IsFiniteSet(Calls)
  /\ Size \in [Calls -> Nat]
  /\ MaxAttempts \in Nat \ {0}
  /\ Cap \in Nat
  /\ Concurrency \in Nat \ {0}
  /\ MaxReported \in Nat
  /\ Honest \in BOOLEAN
  /\ NoUsage \notin Nat

VARIABLES
  spent,      \* input tokens counted against the cap
  reserved,   \* input tokens held by calls in flight
  input,      \* input tokens replies reported
  exhausted,  \* no later call may start
  pc,         \* ready, sending, replied, settled or skipped
  attempts,   \* attempts a call has sent
  usage,      \* the input its reply reported, or NoUsage
  bill        \* what the service has really billed so far

vars == <<spent, reserved, input, exhausted, pc, attempts, usage, bill>>

Reservation(c) == Size[c] * MaxAttempts

InFlight == {c \in Calls : pc[c] \in {"sending", "replied"}}

Init ==
  /\ spent = 0
  /\ reserved = 0
  /\ input = 0
  /\ exhausted = FALSE
  /\ pc = [c \in Calls |-> "ready"]
  /\ attempts = [c \in Calls |-> 0]
  /\ usage = [c \in Calls |-> NoUsage]
  /\ bill = 0

Goto(c, at) == pc' = [pc EXCEPT ![c] = at]

\* Faulty variant: forgets the reservations of calls in flight.
FitsSpentOnly(c) == ~exhausted /\ spent + Reservation(c) <= Cap

Fits(c) == ~exhausted /\ spent + reserved + Reservation(c) <= Cap

\* reserve() grants the worst case, or latches the budget shut.
Reserve(c) ==
  /\ pc[c] = "ready"
  /\ Cardinality(InFlight) < Concurrency
  /\ \/ /\ Fits(c)
        /\ reserved' = reserved + Reservation(c)
        /\ Goto(c, "sending")
        /\ UNCHANGED exhausted
     \/ /\ ~Fits(c)
        /\ exhausted' = TRUE
        /\ Goto(c, "skipped")
        /\ UNCHANGED reserved
  /\ UNCHANGED <<spent, input, attempts, usage, bill>>

\* The service may bill an attempt whatever became of its reply.
SendAttempt(c, billed) ==
  /\ pc[c] = "sending"
  /\ attempts[c] < MaxAttempts
  /\ attempts' = [attempts EXCEPT ![c] = @ + 1]
  /\ bill' = bill + billed
  /\ UNCHANGED <<spent, reserved, input, exhausted>>

\* Faulty variant: a retry goes on after the last attempt.
RetryForever(c, billed) ==
  /\ pc[c] = "sending"
  /\ attempts' = [attempts EXCEPT ![c] = IF @ < MaxAttempts THEN @ + 1 ELSE 1]
  /\ bill' = bill
  /\ UNCHANGED <<spent, reserved, input, exhausted, pc, usage>>

\* A 429, a 5xx or a transport error with attempts left: sleep and retry.
Retry(c, billed) ==
  /\ SendAttempt(c, billed)
  /\ attempts[c] + 1 < MaxAttempts
  /\ UNCHANGED <<pc, usage>>

\* The last attempt failed, another 4xx, or a reply with no usage block.
Fail(c, billed) ==
  /\ SendAttempt(c, billed)
  /\ Goto(c, "replied")
  /\ UNCHANGED usage

\* A reply that reports its usage; the report is what the service billed.
Answer(c, u) ==
  /\ Honest => u <= Size[c]
  /\ SendAttempt(c, u)
  /\ Goto(c, "replied")
  /\ usage' = [usage EXCEPT ![c] = u]

\* Faulty variant: charges the attempt that answered and no retry before it.
BilledLastOnly(c) == IF usage[c] = NoUsage THEN Size[c] ELSE usage[c]

\* Faulty variant: the attempt count is one too low.
BilledTooFew(c) ==
  IF usage[c] = NoUsage
  THEN Size[c] * (attempts[c] - 1)
  ELSE usage[c] + Size[c] * (attempts[c] - 2)

\* What settle() charges: the bound for every attempt that reported nothing.
Billed(c) ==
  IF usage[c] = NoUsage
  THEN Size[c] * attempts[c]
  ELSE usage[c] + Size[c] * (attempts[c] - 1)

\* settle() gives the reservation back and charges what may have been billed.
Settle(c) ==
  /\ pc[c] = "replied"
  /\ Goto(c, "settled")
  /\ reserved' = IF reserved >= Reservation(c) THEN reserved - Reservation(c)
                 ELSE 0
  /\ spent' = spent + Billed(c)
  /\ input' = IF usage[c] = NoUsage THEN input ELSE input + usage[c]
  /\ exhausted' = (exhausted \/ Billed(c) > Reservation(c))
  /\ UNCHANGED <<attempts, usage, bill>>

Call(c) ==
  \/ Reserve(c)
  \/ \E billed \in 0 .. Size[c] : Retry(c, billed) \/ Fail(c, billed)
  \/ \E u \in 0 .. MaxReported : Answer(c, u)
  \/ Settle(c)

\* Every call of the run has been settled or skipped.
Finished ==
  /\ \A c \in Calls : pc[c] \in {"settled", "skipped"}
  /\ UNCHANGED vars

Next == (\E c \in Calls : Call(c)) \/ Finished

\* buffer_unordered polls every started call, and an attempt ends by its
\* REQUEST_TIMEOUT at the latest, so a call that can go on does.
Fairness == \A c \in Calls : WF_vars(Call(c))

Spec == Init /\ [][Next]_vars

FairSpec == Spec /\ Fairness

-----------------------------------------------------------------------------
(* Properties. The tokens a call holds are written as a set with one element *)
(* per attempt and token, so that what is reserved is a cardinality.         *)

HeldBy(c) == {c} \X ((1 .. MaxAttempts) \X (1 .. Size[c]))

Held == UNION {HeldBy(c) : c \in InFlight}

\* Of those, the tokens its attempts may have billed: all of an attempt that
\* reported nothing, the reported ones of the attempt that did.
SentBy(c) == {t \in HeldBy(c) :
                /\ t[2][1] <= attempts[c]
                /\ t[2][1] = attempts[c] /\ usage[c] # NoUsage
                     => t[2][2] <= usage[c]}

Sent == UNION {SentBy(c) : c \in InFlight}

States == {"ready", "sending", "replied", "settled", "skipped"}

\* Counters are naturals and every call stands somewhere in its life.
TypeOK ==
  /\ spent \in Nat
  /\ reserved \in Nat
  /\ input \in Nat
  /\ exhausted \in BOOLEAN
  /\ pc \in [Calls -> States]
  /\ attempts \in [Calls -> 0 .. MaxAttempts]
  /\ usage \in [Calls -> Nat \cup {NoUsage}]
  /\ bill \in Nat

\* The running total, the reservations of calls in flight included, never
\* passes the cap, in whatever order concurrent calls reserve and settle.
TotalWithinCap == spent + reserved <= Cap

\* What the service has really billed, retries and timed-out attempts
\* included, is covered by what the budget has counted at every moment.
BillCovered == bill <= spent + reserved

\* No reservation leaks and none is given back twice: what is reserved is
\* exactly what the calls in flight hold.
ReservedIsHeld == reserved = Cardinality(Held)

\* Every call ends, and then nothing is reserved any more.
AllSettle ==
  <>[](reserved = 0 /\ \A c \in Calls : pc[c] \in {"settled", "skipped"})

-----------------------------------------------------------------------------
(* The inductive invariant. It holds when a reply never reports more input   *)
(* than the bound of its attempt.                                            *)

\* Where a call stands and what it has sent agree.
CallsConsistent ==
  \A c \in Calls :
    /\ pc[c] \in {"ready", "skipped"} => attempts[c] = 0
    /\ pc[c] = "replied" => attempts[c] > 0
    /\ pc[c] \in {"ready", "sending", "skipped"} => usage[c] = NoUsage
    /\ usage[c] # NoUsage => usage[c] <= Size[c]

BillIsSent == bill <= spent + Cardinality(Sent)

IInv ==
  /\ TypeOK
  /\ CallsConsistent
  /\ ReservedIsHeld
  /\ TotalWithinCap
  /\ BillIsSent

=============================================================================
