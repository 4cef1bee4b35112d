-------------------------- MODULE JevBudget_proofs --------------------------
(***************************************************************************)
(* The spend cap for any number of calls of any size: the running total      *)
(* stays within the cap, and the real bill stays within the running total.   *)
(***************************************************************************)
EXTENDS JevBudget, FiniteSetTheorems, TLAPS

USE BudgetAssumption

(* A block of tokens: n tokens for each of the attempts a .. b of one call.  *)
Block(c, a, b, n) == {c} \X ((a .. b) \X (1 .. n))

(* A block is finite and counts attempts times tokens.                       *)
LEMMA BlockCardinality ==
  ASSUME NEW c, NEW a \in Int, NEW b \in Int, NEW n \in Nat, a <= b + 1
  PROVE  /\ IsFiniteSet(Block(c, a, b, n))
         /\ Cardinality(Block(c, a, b, n)) = (b - a + 1) * n
<1>. DEFINE A == a .. b
            B == 1 .. n
            AB == A \X B
<1>1. IsFiniteSet(A) /\ Cardinality(A) = b - a + 1
  BY FS_Interval
<1>2. IsFiniteSet(B) /\ Cardinality(B) = n
  BY FS_Interval
<1>3. IsFiniteSet({c}) /\ Cardinality({c}) = 1
  BY FS_Singleton
<1>. HIDE DEF A, B
<1>4. IsFiniteSet(AB) /\ Cardinality(AB) = (b - a + 1) * n
  BY <1>1, <1>2, FS_Product
<1>. HIDE DEF AB
<1>5. /\ IsFiniteSet({c} \X AB)
      /\ Cardinality({c} \X AB) = 1 * Cardinality(AB)
  BY <1>3, <1>4, FS_Product
<1>6. (b - a + 1) * n \in Int
  OBVIOUS
<1>7. Cardinality({c} \X AB) = (b - a + 1) * n
  BY <1>4, <1>5, <1>6
<1>. QED BY <1>5, <1>7 DEF A, B, AB, Block

(* The cardinality of a set grown or shrunk by a disjoint or included block. *)
LEMMA DisjointUnion ==
  ASSUME NEW S, NEW T, IsFiniteSet(S), IsFiniteSet(T), S \cap T = {}
  PROVE  /\ IsFiniteSet(S \cup T)
         /\ Cardinality(S \cup T) = Cardinality(S) + Cardinality(T)
<1>1. Cardinality(S) \in Nat /\ Cardinality(T) \in Nat
  BY FS_CardinalityType
<1>2. Cardinality(S \cap T) = 0
  BY FS_EmptySet
<1>3. IsFiniteSet(S \cup T)
  BY FS_Union
<1>4. Cardinality(S \cup T)
        = Cardinality(S) + Cardinality(T) - Cardinality(S \cap T)
  BY FS_Union, Zenon
<1>. QED BY <1>1, <1>2, <1>3, <1>4

(* Taking a subset away subtracts its size.                                  *)
LEMMA IncludedDifference ==
  ASSUME NEW S, NEW T, IsFiniteSet(S), T \subseteq S
  PROVE  /\ IsFiniteSet(S \ T)
         /\ Cardinality(S \ T) = Cardinality(S) - Cardinality(T)
         /\ Cardinality(T) <= Cardinality(S)
<1>1. S \cap T = T
  OBVIOUS
<1>. QED BY <1>1, FS_Difference, FS_Subset

(* What one call holds, and what of it may have been billed.                 *)
LEMMA HeldByCardinality ==
  ASSUME NEW c \in Calls
  PROVE  /\ IsFiniteSet(HeldBy(c))
         /\ Cardinality(HeldBy(c)) = Reservation(c)
<1>1. /\ Size[c] \in Nat /\ MaxAttempts \in Int /\ 1 <= MaxAttempts + 1
      /\ (MaxAttempts - 1 + 1) * Size[c] = Size[c] * MaxAttempts
  OBVIOUS
<1>2. /\ IsFiniteSet(Block(c, 1, MaxAttempts, Size[c]))
      /\ Cardinality(Block(c, 1, MaxAttempts, Size[c]))
           = (MaxAttempts - 1 + 1) * Size[c]
  BY <1>1, BlockCardinality
<1>3. HeldBy(c) = Block(c, 1, MaxAttempts, Size[c])
  BY DEF HeldBy, Block
<1>. QED BY <1>1, <1>2, <1>3 DEF Reservation

(* The tokens a replied call may have been sent number what it is billed.    *)
LEMMA SentByCardinality ==
  ASSUME TypeOK, CallsConsistent, NEW c \in Calls, pc[c] = "replied"
  PROVE  IsFiniteSet(SentBy(c)) /\ Cardinality(SentBy(c)) = Billed(c)
<1>0. /\ attempts[c] \in 1 .. MaxAttempts /\ Size[c] \in Nat
      /\ usage[c] # NoUsage => usage[c] \in 0 .. Size[c]
  BY DEF TypeOK, CallsConsistent
<1>1. CASE usage[c] = NoUsage
  <2>1. SentBy(c) = Block(c, 1, attempts[c], Size[c])
    BY <1>0, <1>1 DEF SentBy, HeldBy, Block
  <2>2. (attempts[c] - 1 + 1) * Size[c] = Size[c] * attempts[c]
    BY <1>0
  <2>3. /\ IsFiniteSet(Block(c, 1, attempts[c], Size[c]))
        /\ Cardinality(Block(c, 1, attempts[c], Size[c]))
             = (attempts[c] - 1 + 1) * Size[c]
    BY <1>0, attempts[c] \in Int, 1 <= attempts[c] + 1, BlockCardinality
  <2>. QED BY <1>1, <2>1, <2>2, <2>3 DEF Billed
<1>2. CASE usage[c] # NoUsage
  <2>. DEFINE k == attempts[c]
              before == Block(c, 1, k - 1, Size[c])
              last == Block(c, k, k, usage[c])
  <2>1. SentBy(c) = before \cup last
    BY <1>0, <1>2 DEF SentBy, HeldBy, Block
  <2>2. before \cap last = {}
    BY <1>0 DEF Block
  <2>3. IsFiniteSet(before) /\ Cardinality(before) = (k - 1 - 1 + 1) * Size[c]
    <3>1. 1 \in Int /\ k - 1 \in Int /\ 1 <= k - 1 + 1 /\ Size[c] \in Nat
      BY <1>0
    <3>. HIDE DEF k
    <3>. QED BY <3>1, BlockCardinality
  <2>4. IsFiniteSet(last) /\ Cardinality(last) = (k - k + 1) * usage[c]
    <3>1. k \in Int /\ k <= k + 1 /\ usage[c] \in Nat
      BY <1>0, <1>2
    <3>. HIDE DEF k
    <3>. QED BY <3>1, BlockCardinality
  <2>5. /\ (k - 1 - 1 + 1) * Size[c] = Size[c] * (k - 1)
        /\ (k - k + 1) * usage[c] = usage[c]
    BY <1>0, <1>2
  <2>6. Size[c] * (k - 1) \in Nat /\ usage[c] \in Nat
    BY <1>0, <1>2
  <2>. HIDE DEF before, last, k
  <2>7. /\ IsFiniteSet(before \cup last)
        /\ Cardinality(before \cup last) = Size[c] * (k - 1) + usage[c]
    BY <2>2, <2>3, <2>4, <2>5, DisjointUnion
  <2>. QED BY <1>2, <2>1, <2>6, <2>7 DEF Billed, k
<1>. QED BY <1>1, <1>2

(* A settled call is charged no more than it reserved.                       *)
LEMMA BilledWithinReservation ==
  ASSUME TypeOK, CallsConsistent, NEW c \in Calls, pc[c] = "replied"
  PROVE  Billed(c) \in Nat /\ Billed(c) <= Reservation(c)
<1>1. /\ IsFiniteSet(SentBy(c)) /\ Cardinality(SentBy(c)) = Billed(c)
  BY SentByCardinality
<1>2. SentBy(c) \subseteq HeldBy(c)
  BY DEF SentBy
<1>. QED BY <1>1, <1>2, HeldByCardinality, FS_Subset, FS_CardinalityType

-----------------------------------------------------------------------------
(* What is held and sent are finite, so that the cardinalities mean something. *)
PInv == IInv /\ IsFiniteSet(Held) /\ IsFiniteSet(Sent)

(* Nothing is held or sent at first.                                         *)
LEMMA InitPInv == Init => PInv
<1>. SUFFICES ASSUME Init PROVE PInv
  OBVIOUS
<1>1. TypeOK /\ CallsConsistent
  <2>1. 0 \in 0 .. MaxAttempts
    OBVIOUS
  <2>2. TypeOK
    BY <2>1 DEF Init, TypeOK, States
  <2>3. CallsConsistent
    BY DEF Init, CallsConsistent
  <2>. QED BY <2>2, <2>3
<1>2. InFlight = {}
  BY DEF Init, InFlight
<1>3. Held = {} /\ Sent = {}
  BY <1>2 DEF Held, Sent
<1>4. IsFiniteSet({}) /\ Cardinality({}) = 0
  BY FS_EmptySet
<1>. QED
  BY <1>1, <1>3, <1>4
  DEF PInv, IInv, Init, ReservedIsHeld, TotalWithinCap, BillIsSent

(* Every action keeps the types and the shape of each call.                  *)
LEMMA ShapeStep ==
  ASSUME TypeOK, CallsConsistent, Honest, [Next]_vars
  PROVE  TypeOK' /\ CallsConsistent'
<1>1. ASSUME NEW c \in Calls, Reserve(c)
      PROVE  TypeOK' /\ CallsConsistent'
  <2>1. Reservation(c) \in Nat
    BY DEF Reservation
  <2>2. pc' \in [Calls -> States]
    BY <1>1 DEF Reserve, Goto, TypeOK, States
  <2>6. reserved' \in Nat
    BY <1>1, <2>1 DEF Reserve, TypeOK
  <2>7. exhausted' \in BOOLEAN
    BY <1>1 DEF Reserve, TypeOK
  <2>3. TypeOK'
    BY <1>1, <2>2, <2>6, <2>7 DEF Reserve, TypeOK
  <2>4. pc' = [pc EXCEPT ![c] = "sending"] \/ pc' = [pc EXCEPT ![c] = "skipped"]
    BY <1>1 DEF Reserve, Goto
  <2>5. CallsConsistent'
    <3>1. \A d \in Calls : pc'[d] \in {pc[d], "sending", "skipped"}
      BY <2>4 DEF TypeOK
    <3>2. attempts[c] = 0 /\ usage[c] = NoUsage
      BY <1>1 DEF Reserve, CallsConsistent
    <3>3. \A d \in Calls : d # c => pc'[d] = pc[d]
      BY <2>4 DEF TypeOK
    <3>4. attempts' = attempts /\ usage' = usage
      BY <1>1 DEF Reserve
    <3>5. pc'[c] # "replied"
      BY <2>4 DEF TypeOK
    <3>. QED BY <3>2, <3>3, <3>4, <3>5 DEF CallsConsistent
  <2>. QED BY <2>3, <2>5
<1>2. ASSUME NEW c \in Calls, NEW billed \in 0 .. Size[c], Retry(c, billed)
      PROVE  TypeOK' /\ CallsConsistent'
  BY <1>2 DEF Retry, SendAttempt, TypeOK, States, CallsConsistent
<1>3. ASSUME NEW c \in Calls, NEW billed \in 0 .. Size[c], Fail(c, billed)
      PROVE  TypeOK' /\ CallsConsistent'
  BY <1>3 DEF Fail, SendAttempt, Goto, TypeOK, States, CallsConsistent
<1>4. ASSUME NEW c \in Calls, NEW u \in 0 .. MaxReported, Answer(c, u)
      PROVE  TypeOK' /\ CallsConsistent'
  BY <1>4 DEF Answer, SendAttempt, Goto, TypeOK, States, CallsConsistent
<1>5. ASSUME NEW c \in Calls, Settle(c)
      PROVE  TypeOK' /\ CallsConsistent'
  <2>1. Reservation(c) \in Nat
    BY DEF Reservation
  <2>2. Billed(c) \in Nat
    BY <1>5, BilledWithinReservation DEF Settle
  <2>. QED
    BY <1>5, <2>1, <2>2 DEF Settle, Goto, TypeOK, States, CallsConsistent
<1>6. ASSUME UNCHANGED vars
      PROVE  TypeOK' /\ CallsConsistent'
  BY <1>6 DEF vars, TypeOK, CallsConsistent
<1>. QED
  BY <1>1, <1>2, <1>3, <1>4, <1>5, <1>6 DEF Next, Call, Finished

(* A granted reservation holds exactly the tokens of its call; a refusal     *)
(* holds nothing.                                                            *)
LEMMA ReserveStep ==
  ASSUME PInv, NEW c \in Calls, Reserve(c)
  PROVE  /\ ReservedIsHeld' /\ TotalWithinCap' /\ BillIsSent'
         /\ IsFiniteSet(Held') /\ IsFiniteSet(Sent')
<1>0. TypeOK /\ CallsConsistent /\ pc[c] = "ready" /\ c \notin InFlight
  BY DEF PInv, IInv, Reserve, InFlight
<1>1. CASE Fits(c) /\ reserved' = reserved + Reservation(c) /\ Goto(c, "sending")
  <2>1. InFlight' = InFlight \cup {c}
    BY <1>0, <1>1 DEF Goto, InFlight, TypeOK
  <2>2. Held' = Held \cup HeldBy(c) /\ Held \cap HeldBy(c) = {}
    <3>1. Held' = Held \cup HeldBy(c)
      BY <2>1 DEF Held, HeldBy
    <3>2. Held \cap HeldBy(c) = {}
      BY <1>0 DEF Held, HeldBy
    <3>. QED BY <3>1, <3>2
  <2>3. Sent' = Sent
    <3>1. \A d \in Calls : SentBy(d)' = SentBy(d)
      BY DEF Reserve, SentBy, HeldBy
    <3>2. attempts[c] = 0
      BY <1>0 DEF CallsConsistent
    <3>3. SentBy(c) = {}
      BY <3>2 DEF SentBy, HeldBy
    <3>4. InFlight \subseteq Calls
      BY DEF InFlight
    <3>. QED BY <2>1, <3>1, <3>3, <3>4 DEF Sent
  <2>4. /\ IsFiniteSet(Held \cup HeldBy(c))
        /\ Cardinality(Held \cup HeldBy(c))
             = Cardinality(Held) + Cardinality(HeldBy(c))
    BY <2>2, HeldByCardinality, DisjointUnion DEF PInv
  <2>5. Cardinality(HeldBy(c)) = Reservation(c)
    BY HeldByCardinality
  <2>6. Reservation(c) \in Nat
    BY DEF Reservation
  <2>. QED
    BY <1>0, <1>1, <2>2, <2>3, <2>4, <2>5, <2>6
    DEF PInv, IInv, Reserve, Fits, ReservedIsHeld, TotalWithinCap, BillIsSent,
        TypeOK
<1>2. CASE Goto(c, "skipped") /\ reserved' = reserved
  <2>1. InFlight' = InFlight
    BY <1>0, <1>2 DEF Goto, InFlight, TypeOK
  <2>2. \A d \in Calls : SentBy(d)' = SentBy(d)
    BY DEF Reserve, SentBy, HeldBy
  <2>3. InFlight \subseteq Calls
    BY DEF InFlight
  <2>4. Held' = Held
    BY <2>1 DEF Held, HeldBy
  <2>5. Sent' = Sent
    BY <2>1, <2>2, <2>3 DEF Sent
  <2>. QED
    BY <1>2, <2>4, <2>5
    DEF PInv, IInv, Reserve, ReservedIsHeld, TotalWithinCap, BillIsSent
<1>. QED BY <1>1, <1>2 DEF Reserve

(* An attempt may bill up to n tokens, and n of the tokens its call holds    *)
(* become sent.                                                              *)
LEMMA SendStep ==
  ASSUME PInv, NEW c \in Calls, NEW billed \in Nat, SendAttempt(c, billed),
         NEW n \in Nat, billed <= n, n <= Size[c],
         \/ n = Size[c] /\ usage' = usage
         \/ usage' = [usage EXCEPT ![c] = n],
         InFlight' = InFlight
  PROVE  /\ ReservedIsHeld' /\ TotalWithinCap' /\ BillIsSent'
         /\ IsFiniteSet(Held') /\ IsFiniteSet(Sent')
<1>. DEFINE k == attempts[c] + 1
            now == Block(c, k, k, n)
<1>0. /\ TypeOK /\ CallsConsistent /\ pc[c] = "sending" /\ c \in InFlight
      /\ usage[c] = NoUsage /\ k \in 1 .. MaxAttempts /\ attempts'[c] = k
      /\ \A d \in Calls : Size[d] \in Nat
  BY DEF PInv, IInv, TypeOK, CallsConsistent, SendAttempt, InFlight
<1>1. Held' = Held
  BY DEF Held, HeldBy
<1>2. \A d \in Calls \ {c} : SentBy(d)' = SentBy(d)
  BY DEF SendAttempt, SentBy, HeldBy, PInv, IInv, TypeOK
<1>3. SentBy(c)' = SentBy(c) \cup now
  <2>1. ASSUME NEW t \in HeldBy(c)
        PROVE  /\ t \in SentBy(c) <=> t[2][1] <= k - 1
               /\ t \in SentBy(c)' <=> /\ t[2][1] <= k
                                       /\ t[2][1] = k => t[2][2] <= n
               /\ t \in now <=> t[2][1] = k /\ t[2][2] <= n
               /\ t[2][1] \in Int
    <3>1. t[2][1] \in 1 .. MaxAttempts /\ t[2][2] \in 1 .. Size[c]
      BY DEF HeldBy
    <3>2. t \in SentBy(c) <=> t[2][1] <= k - 1
      <4>1. k - 1 = attempts[c]
        BY DEF PInv, IInv, TypeOK
      <4>. QED BY <1>0, <4>1 DEF SentBy
    <3>3. t \in SentBy(c)' <=> /\ t[2][1] <= k
                               /\ t[2][1] = k => t[2][2] <= n
      <4>1. CASE n = Size[c] /\ usage' = usage
        BY <1>0, <3>1, <4>1 DEF SentBy, HeldBy
      <4>2. CASE usage' = [usage EXCEPT ![c] = n]
        <5>1. usage'[c] = n /\ n # NoUsage
          BY <4>2 DEF PInv, IInv, TypeOK
        <5>. QED BY <1>0, <3>1, <5>1 DEF SentBy, HeldBy
      <4>. QED BY <4>1, <4>2
    <3>4. t \in now <=> t[2][1] = k /\ t[2][2] <= n
      BY <1>0, <3>1 DEF Block, HeldBy
    <3>. QED BY <3>1, <3>2, <3>3, <3>4
  <2>2. SentBy(c) \subseteq HeldBy(c) /\ SentBy(c)' \subseteq HeldBy(c)
    BY DEF SentBy, HeldBy
  <2>3. now \subseteq HeldBy(c)
    BY <1>0 DEF Block, HeldBy
  <2>4. k \in Int
    BY <1>0
  <2>. HIDE DEF k, now
  <2>5. \A t \in HeldBy(c) : t \in SentBy(c)' <=> t \in SentBy(c) \cup now
    BY <2>1, <2>4
  <2>. QED BY <2>2, <2>3, <2>5
<1>4. Sent' = Sent \cup now
  <2>1. InFlight \subseteq Calls
    BY DEF InFlight
  <2>. HIDE DEF now
  <2>. QED BY <1>0, <1>2, <1>3, <2>1 DEF Sent
<1>5. Sent \cap now = {}
  <2>1. \A t \in Sent : \E d \in InFlight : t \in SentBy(d)
    BY DEF Sent
  <2>2. ASSUME NEW t \in now, NEW d \in InFlight, t \in SentBy(d)
        PROVE  FALSE
    <3>1. t[1] = c /\ t[2][1] = k
      BY <1>0, <2>2 DEF Block
    <3>2. t[1] = d /\ t[2][1] <= attempts[d]
      BY <2>2 DEF SentBy, HeldBy
    <3>3. attempts[c] \in Nat
      BY DEF PInv, IInv, TypeOK
    <3>. QED BY <3>1, <3>2, <3>3
  <2>. QED BY <2>1, <2>2
<1>6. IsFiniteSet(now) /\ Cardinality(now) = n
  <2>1. k \in Int /\ k <= k + 1 /\ (k - k + 1) * n = n
    BY <1>0
  <2>. HIDE DEF k
  <2>. QED BY <2>1, BlockCardinality
<1>. HIDE DEF now
<1>7. /\ IsFiniteSet(Sent \cup now)
      /\ Cardinality(Sent \cup now) = Cardinality(Sent) + n
  BY <1>5, <1>6, DisjointUnion DEF PInv
<1>8. Cardinality(Sent) \in Nat
  BY FS_CardinalityType DEF PInv
<1>9. ReservedIsHeld' /\ TotalWithinCap'
  BY <1>1 DEF PInv, IInv, SendAttempt, ReservedIsHeld, TotalWithinCap
<1>10. BillIsSent'
  BY <1>0, <1>4, <1>7, <1>8
  DEF PInv, IInv, SendAttempt, BillIsSent, TypeOK
<1>. QED BY <1>1, <1>4, <1>7, <1>9, <1>10 DEF PInv

(* Settling gives back what the call holds and charges what it has sent.     *)
LEMMA SettleStep ==
  ASSUME PInv, NEW c \in Calls, Settle(c)
  PROVE  /\ ReservedIsHeld' /\ TotalWithinCap' /\ BillIsSent'
         /\ IsFiniteSet(Held') /\ IsFiniteSet(Sent')
<1>0. TypeOK /\ CallsConsistent /\ pc[c] = "replied" /\ c \in InFlight
  BY DEF PInv, IInv, Settle, InFlight
<1>1. InFlight' = InFlight \ {c}
  BY <1>0 DEF Settle, Goto, InFlight, TypeOK
<1>2. Held' = Held \ HeldBy(c) /\ HeldBy(c) \subseteq Held
  BY <1>0, <1>1 DEF Held, HeldBy
<1>3. Sent' = Sent \ SentBy(c) /\ SentBy(c) \subseteq Sent
  <2>1. \A d \in Calls : SentBy(d)' = SentBy(d)
    BY DEF Settle, SentBy, HeldBy
  <2>2. InFlight \subseteq Calls
    BY DEF InFlight
  <2>3. \A d \in InFlight : d # c => SentBy(d) \cap SentBy(c) = {}
    BY DEF SentBy, HeldBy
  <2>. QED BY <1>0, <1>1, <2>1, <2>2, <2>3 DEF Sent
<1>4. /\ IsFiniteSet(Held \ HeldBy(c))
      /\ Cardinality(Held \ HeldBy(c))
           = Cardinality(Held) - Cardinality(HeldBy(c))
      /\ Cardinality(HeldBy(c)) <= Cardinality(Held)
  BY <1>2, IncludedDifference DEF PInv
<1>5. /\ IsFiniteSet(Sent \ SentBy(c))
      /\ Cardinality(Sent \ SentBy(c))
           = Cardinality(Sent) - Cardinality(SentBy(c))
  BY <1>3, IncludedDifference DEF PInv
<1>6. /\ Cardinality(HeldBy(c)) = Reservation(c)
      /\ Cardinality(SentBy(c)) = Billed(c)
      /\ Billed(c) \in Nat /\ Billed(c) <= Reservation(c)
      /\ Reservation(c) \in Nat
  BY <1>0, HeldByCardinality, SentByCardinality, BilledWithinReservation
  DEF Reservation
<1>7. Cardinality(Held) \in Nat /\ Cardinality(Sent) \in Nat
  BY FS_CardinalityType DEF PInv
<1>8. reserved' = reserved - Reservation(c) /\ spent' = spent + Billed(c)
  BY <1>4, <1>6 DEF PInv, IInv, ReservedIsHeld, Settle
<1>9. ReservedIsHeld'
  BY <1>2, <1>4, <1>6, <1>8 DEF PInv, IInv, ReservedIsHeld
<1>10. TotalWithinCap'
  BY <1>0, <1>6, <1>8 DEF PInv, IInv, TotalWithinCap, TypeOK
<1>11. BillIsSent'
  BY <1>0, <1>3, <1>5, <1>6, <1>7, <1>8
  DEF PInv, IInv, BillIsSent, TypeOK, Settle
<1>. QED BY <1>2, <1>3, <1>4, <1>5, <1>9, <1>10, <1>11

(* Every step keeps the invariant, finiteness included.                      *)
LEMMA NextPInv == Honest /\ PInv /\ [Next]_vars => PInv'
<1>. SUFFICES ASSUME Honest, PInv, [Next]_vars PROVE PInv'
  OBVIOUS
<1>1. TypeOK' /\ CallsConsistent'
  BY ShapeStep DEF PInv, IInv
<1>. DEFINE Rest == /\ ReservedIsHeld' /\ TotalWithinCap' /\ BillIsSent'
                    /\ IsFiniteSet(Held') /\ IsFiniteSet(Sent')
<1>2. ASSUME NEW c \in Calls, Reserve(c) PROVE Rest
  BY <1>2, ReserveStep
<1>3. ASSUME NEW c \in Calls, NEW billed \in 0 .. Size[c], Retry(c, billed)
      PROVE  Rest
  <2>1. InFlight' = InFlight
    BY <1>3 DEF Retry, InFlight
  <2>2. /\ Size[c] \in Nat /\ billed \in Nat /\ billed <= Size[c]
        /\ SendAttempt(c, billed) /\ usage' = usage
    BY <1>3 DEF Retry
  <2>. QED BY <2>1, <2>2, SendStep
<1>4. ASSUME NEW c \in Calls, NEW billed \in 0 .. Size[c], Fail(c, billed)
      PROVE  Rest
  <2>1. InFlight' = InFlight
    BY <1>4 DEF Fail, SendAttempt, Goto, InFlight, PInv, IInv, TypeOK
  <2>2. /\ Size[c] \in Nat /\ billed \in Nat /\ billed <= Size[c]
        /\ SendAttempt(c, billed) /\ usage' = usage
    BY <1>4 DEF Fail
  <2>. QED BY <2>1, <2>2, SendStep
<1>5. ASSUME NEW c \in Calls, NEW u \in 0 .. MaxReported, Answer(c, u)
      PROVE  Rest
  <2>1. InFlight' = InFlight
    BY <1>5 DEF Answer, SendAttempt, Goto, InFlight, PInv, IInv, TypeOK
  <2>2. /\ Size[c] \in Nat /\ u \in Nat /\ u <= Size[c] /\ u <= u
        /\ SendAttempt(c, u) /\ usage' = [usage EXCEPT ![c] = u]
    BY <1>5 DEF Answer
  <2>. QED BY <2>1, <2>2, SendStep
<1>6. ASSUME NEW c \in Calls, Settle(c) PROVE Rest
  BY <1>6, SettleStep
<1>7. ASSUME UNCHANGED vars PROVE Rest
  <2>1. Held' = Held /\ Sent' = Sent
    BY <1>7 DEF vars, Held, HeldBy, Sent, SentBy, InFlight
  <2>. QED
    BY <1>7, <2>1
    DEF vars, PInv, IInv, ReservedIsHeld, TotalWithinCap, BillIsSent
<1>. HIDE DEF Rest
<1>8. Rest
  BY <1>2, <1>3, <1>4, <1>5, <1>6, <1>7 DEF Next, Call, Finished
<1>. QED BY <1>1, <1>8 DEF PInv, IInv, Rest

(* What has really been billed is covered, since no call has sent more than  *)
(* it holds.                                                                 *)
LEMMA BillIsCovered == PInv => BillCovered
<1>. SUFFICES ASSUME PInv PROVE BillCovered
  OBVIOUS
<1>1. Sent \subseteq Held
  BY DEF Sent, SentBy, Held
<1>2. Cardinality(Sent) <= Cardinality(Held)
  BY <1>1, FS_Subset DEF PInv
<1>3. Cardinality(Sent) \in Nat /\ Cardinality(Held) \in Nat
  BY FS_CardinalityType DEF PInv
<1>. QED
  BY <1>2, <1>3
  DEF PInv, IInv, ReservedIsHeld, BillIsSent, BillCovered, TypeOK

LEMMA Invariance == ASSUME Honest PROVE Spec => []PInv
  BY InitPInv, NextPInv, PTL DEF Spec

(* The spend cap: when replies report at most their attempt's bound, the     *)
(* running total with every reservation in flight never passes the cap, and  *)
(* the reservations are exactly what the calls in flight hold                *)
(* (JevBudget::reserve and settle).                                          *)
THEOREM SpendWithinCap ==
  ASSUME Honest
  PROVE  Spec => [](TotalWithinCap /\ ReservedIsHeld)
<1>1. PInv => TotalWithinCap /\ ReservedIsHeld
  BY DEF PInv, IInv
<1>. QED BY <1>1, Invariance, PTL

(* Under the same assumption the real bill, retries and timed-out attempts   *)
(* included, is covered by the total.                                        *)
THEOREM TotalCoversBill ==
  ASSUME Honest
  PROVE  Spec => []BillCovered
<1>1. PInv => BillCovered
  BY BillIsCovered
<1>. QED BY <1>1, Invariance, PTL

(* Every value of the budget has its type, so no settlement gives back more  *)
(* than is reserved, under the same assumption.                              *)
THEOREM TypeCorrect ==
  ASSUME Honest
  PROVE  Spec => []TypeOK
<1>1. PInv => TypeOK
  BY DEF PInv, IInv
<1>. QED BY <1>1, Invariance, PTL

=============================================================================
