-------------------------- MODULE SpendPolicyProofs --------------------------
(***************************************************************************)
(* The spending limit is passed by no more than what the requests in       *)
(* flight can still be charged.  Exposure is inductive because an          *)
(* admission starts from spend < Limit and never holds more tickets than   *)
(* there are, and a charge gives up a ticket worth at least its cost.      *)
(***************************************************************************)
EXTENDS SpendPolicy, FiniteSetTheorems, TLAPS

AllTickets == Turns \X (1 .. MaxCharges)

(* There are finitely many tickets in all. *)
LEMMA AllTicketsFinite ==
  ASSUME PolicyAssumption
  PROVE  IsFiniteSet(AllTickets)
<1>1. IsFiniteSet(1 .. MaxCharges)
  BY FS_Interval DEF PolicyAssumption
<1>2. QED
  BY <1>1, FS_Product DEF AllTickets, PolicyAssumption

(* Taking tickets away, and one in particular, lowers their number. *)
LEMMA FewerTickets ==
  ASSUME PolicyAssumption,
         NEW S \in SUBSET AllTickets, NEW T \in SUBSET S
  PROVE  /\ Cardinality(S) \in Nat
         /\ Cardinality(T) \in Nat
         /\ Cardinality(T) <= Cardinality(S)
         /\ \A x \in S : x \notin T => Cardinality(T) + 1 <= Cardinality(S)
<1>1. IsFiniteSet(S) /\ IsFiniteSet(T)
  BY AllTicketsFinite, FS_Subset
<1>2. Cardinality(S) \in Nat /\ Cardinality(T) \in Nat
  BY <1>1, FS_CardinalityType
<1>3. Cardinality(T) <= Cardinality(S)
  BY <1>1, FS_Subset
<1>4. ASSUME NEW x \in S, x \notin T
      PROVE  Cardinality(T) + 1 <= Cardinality(S)
  <2>1. Cardinality(T \cup {x}) = Cardinality(T) + 1
    BY <1>1, <1>4, FS_AddElement
  <2>2. T \cup {x} \in SUBSET S
    BY <1>4
  <2>3. QED
    BY <1>1, <2>1, <2>2, FS_Subset
<1>5. QED
  BY <1>2, <1>3, <1>4

(* What fewer tickets are worth. *)
LEMMA TicketsWorth ==
  ASSUME NEW m \in Nat, NEW n \in Nat, NEW cost \in Nat
  PROVE  /\ m * cost \in Nat
         /\ m <= n => m * cost <= n * cost
         /\ m + 1 <= n => m * cost + cost <= n * cost
<1>1. m * cost \in Nat /\ n * cost \in Nat
  OBVIOUS
<1>2. ASSUME m <= n PROVE m * cost <= n * cost
  <2>1. PICK d \in Nat : n = m + d
    BY <1>2, n - m \in Nat, n = m + (n - m)
  <2>2. n * cost = m * cost + d * cost /\ d * cost \in Nat
    BY <2>1
  <2>3. QED
    BY <1>1, <2>2
<1>3. ASSUME m + 1 <= n PROVE m * cost + cost <= n * cost
  <2>1. PICK d \in Nat : n = (m + 1) + d
    BY <1>3, n - (m + 1) \in Nat, n = (m + 1) + (n - (m + 1))
  <2>2. n * cost = (m * cost + cost) + d * cost /\ d * cost \in Nat
    BY <2>1
  <2>3. QED
    BY <1>1, <2>2
<1>4. QED
  BY <1>1, <1>2, <1>3

(* Every step keeps the types and the exposure. *)
LEMMA StepKeepsExposure ==
  ASSUME PolicyAssumption, TypeOK, Exposure, [Next]_vars
  PROVE  TypeOK' /\ Exposure'
<1> DEFINE worth(S) == Cardinality(S) * MaxCost
<1>1. MaxOvershoot = worth(AllTickets)
  BY DEF MaxOvershoot, AllTickets
<1>2. ASSUME NEW S \in SUBSET AllTickets, NEW T \in SUBSET S
      PROVE  /\ worth(S) \in Nat
             /\ worth(T) <= worth(S)
             /\ \A x \in S : x \notin T => worth(T) + MaxCost <= worth(S)
  BY <1>2, FewerTickets, TicketsWorth DEF PolicyAssumption
<1>3. tickets \in SUBSET AllTickets /\ AllTickets \in SUBSET AllTickets
  BY DEF TypeOK, AllTickets
<1>4. worth(AllTickets) \in Nat /\ worth(tickets) \in Nat /\ MaxCost \in Nat
  BY <1>2, <1>3 DEF PolicyAssumption
<1> HIDE DEF worth
<1>5. spend + worth(tickets) <= Limit - 1 + worth(AllTickets)
  BY <1>1 DEF Exposure, worth
<1>6. SUFFICES spend' \in Nat /\ tickets' \in SUBSET AllTickets
               /\ spend' + worth(tickets') <= Limit - 1 + worth(AllTickets)
  BY <1>1 DEF TypeOK, Exposure, AllTickets, worth, MaxOvershoot
<1>7. ASSUME NEW t \in Turns, Admit(t)
      PROVE  <1>6!1
  <2>1. tickets' \in SUBSET AllTickets /\ spend' = spend /\ spend <= Limit - 1
    BY <1>3, <1>7 DEF Admit, AllTickets, TypeOK, PolicyAssumption
  <2>2. worth(tickets') <= worth(AllTickets) /\ worth(tickets') \in Nat
    BY <1>2, <1>3, <2>1
  <2>3. QED
    BY <1>4, <2>1, <2>2 DEF TypeOK, PolicyAssumption
<1>8. ASSUME NEW ticket \in tickets, NEW cost \in 1 .. MaxCost, Charge(ticket, cost)
      PROVE  <1>6!1
  <2>1. /\ tickets' \in SUBSET tickets
        /\ ticket \notin tickets'
        /\ spend' = spend + cost
        /\ cost \in Nat
        /\ cost <= MaxCost
    BY <1>4, <1>8 DEF Charge
  <2>2. worth(tickets') + MaxCost <= worth(tickets) /\ worth(tickets') \in Nat
    BY <1>2, <1>3, <2>1
  <2>3. QED
    BY <1>3, <1>4, <1>5, <2>1, <2>2 DEF TypeOK, PolicyAssumption
<1>9. CASE Forfeit
  <2>1. tickets' \in SUBSET tickets /\ spend' = spend
    BY <1>9 DEF Forfeit
  <2>2. worth(tickets') <= worth(tickets) /\ worth(tickets') \in Nat
    BY <1>2, <1>3, <2>1
  <2>3. QED
    BY <1>3, <1>4, <1>5, <2>1, <2>2 DEF TypeOK, PolicyAssumption
<1>10. CASE Reset \/ UNCHANGED vars
  <2>1. tickets' = tickets /\ spend' \in Nat /\ spend' <= spend
    BY <1>10 DEF Reset, vars, TypeOK
  <2>2. QED
    BY <1>3, <1>4, <1>5, <2>1 DEF TypeOK, PolicyAssumption
<1>11. QED
  BY <1>7, <1>8, <1>9, <1>10 DEF Next

(* The limit is passed by at most what the turns in flight may still be
   charged: usage.service.ts checks the budget before, and charges after,
   everything a turn does.                                                  *)
THEOREM OvershootBounded ==
  ASSUME PolicyAssumption
  PROVE  Spec => [](TypeOK /\ Exposure /\ SpendBounded)
<1>1. Init => TypeOK /\ Exposure
  <2>1. AllTickets \in SUBSET AllTickets /\ {} \in SUBSET AllTickets
    OBVIOUS
  <2>2. MaxOvershoot \in Nat /\ Cardinality({}) * MaxCost = 0
    BY <2>1, FewerTickets, TicketsWorth, FS_EmptySet
       DEF MaxOvershoot, AllTickets, PolicyAssumption
  <2>3. QED
    BY <2>2 DEF Init, TypeOK, Exposure, PolicyAssumption
<1>2. TypeOK /\ Exposure /\ [Next]_vars => (TypeOK /\ Exposure)'
  BY StepKeepsExposure
<1>3. TypeOK /\ Exposure => SpendBounded
  <2>1. SUFFICES ASSUME TypeOK, Exposure PROVE SpendBounded
    OBVIOUS
  <2>2. tickets \in SUBSET AllTickets /\ AllTickets \in SUBSET AllTickets
    BY <2>1 DEF TypeOK, AllTickets
  <2>3. Cardinality(tickets) * MaxCost \in Nat /\ MaxOvershoot \in Nat
    BY <2>2, FewerTickets, TicketsWorth DEF MaxOvershoot, AllTickets, PolicyAssumption
  <2>4. QED
    BY <2>1, <2>3 DEF Exposure, SpendBounded, TypeOK, PolicyAssumption
<1>4. QED
  BY <1>1, <1>2, <1>3, PTL DEF Spec
=============================================================================
