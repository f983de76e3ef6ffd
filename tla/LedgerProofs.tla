---------------------------- MODULE LedgerProofs ----------------------------
(***************************************************************************)
(* LedgerInv is an inductive invariant of Ledger, for every set of orders, *)
(* payments, registrations and packages, every total and segment limit,    *)
(* and every legal opening.                                                *)
(*                                                                         *)
(* The facts about the operators of LedgerState come first, for every      *)
(* table of payments: what an order has been paid is a natural number no   *)
(* larger than its total, depends on its settled rows alone, and does not  *)
(* grow when a row without a sequence stops being settled.                 *)
(***************************************************************************)
EXTENDS Ledger, FiniteSetTheorems, TLAPS

(* A payment table, as far as the lemmas need it.                          *)
Tables == [Payments -> PayRow]

-----------------------------------------------------------------------------
(* A finite, nonempty set of naturals has a largest element: the sequence  *)
(* numbers _next_doku_checkout_segment takes its maximum of.               *)
LEMMA FiniteMax ==
  ASSUME NEW S \in SUBSET Nat, IsFiniteSet(S), S # {}
  PROVE  \E m \in S : \A s \in S : s <= m
<1> DEFINE HasMax(T) == \E m \in T : \A s \in T : s <= m
           Bad == {T \in FiniteSubsetsOf(Nat) : T # {} /\ ~HasMax(T)}
<1>1. SUFFICES ASSUME Bad # {} PROVE FALSE
  BY DEF FiniteSubsetsOf
<1>2. PICK T \in Bad : \A U \in Bad : <<U, T>> \notin StrictSubsetOrdering(Nat)
  <2>1. IsWellFoundedOn(StrictSubsetOrdering(Nat), FiniteSubsetsOf(Nat))
    BY FS_StrictSubsetOrderingWellFounded
  <2>2. Bad \subseteq FiniteSubsetsOf(Nat)
    OBVIOUS
  <2> QED BY <2>1, <2>2, <1>1, WFMin
<1>3. PICK x \in T : TRUE
  OBVIOUS
<1> DEFINE U == T \ {x}
<1>4. T \in SUBSET Nat /\ U \in FiniteSubsetsOf(Nat)
  BY FS_RemoveElement DEF FiniteSubsetsOf
<1>5. <<U, T>> \in StrictSubsetOrdering(Nat)
  BY <1>3, <1>4 DEF StrictSubsetOrdering, FiniteSubsetsOf
<1>6. U \notin Bad
  BY <1>2, <1>5
<1>7. CASE U = {}
  <2>1. \A s \in T : s = x
    BY <1>7
  <2> QED BY <2>1, <1>3, <1>4
<1>8. CASE U # {}
  <2>1. PICK m \in U : \A s \in U : s <= m
    BY <1>6, <1>4, <1>8
  <2>2. m \in Nat /\ x \in Nat /\ m \in T /\ \A s \in T : s \in U \/ s = x
    BY <1>3, <1>4
  <2>3. HasMax(T)
    <3>1. CASE x <= m
      BY <3>1, <2>1, <2>2
    <3>2. CASE ~(x <= m)
      BY <3>2, <2>1, <2>2, <1>4
    <3> QED BY <3>1, <3>2
  <2> QED BY <2>3
<1> QED BY <1>7, <1>8

(* A nonempty set of naturals has a smallest one: the first settled row of *)
(* a sequence.                                                             *)
LEMMA NatLeast ==
  ASSUME NEW S \in SUBSET Nat, S # {}
  PROVE  \E m \in S : \A s \in S : m <= s
<1>1. PICK m \in S : \A s \in S : <<s, m>> \notin OpToRel(<, Nat)
  BY NatLessThanWellFounded, WFMin
<1>2. \A s \in S : ~(s < m)
  BY <1>1 DEF OpToRel
<1> QED BY <1>2

-----------------------------------------------------------------------------
(* The units of finitely many rows are finitely many.                      *)
LEMMA UnitsFinite ==
  ASSUME NEW P \in Tables, NEW S \in SUBSET Payments
  PROVE  IsFiniteSet(Units(P, S)) /\ Cardinality(Units(P, S)) \in Nat
<1> DEFINE unit[p \in S] == {p} \X (1 .. P[p].gross)
           Family == {unit[p] : p \in S}
<1>1. IsFiniteSet(S)
  BY FS_Subset, RowIds
<1>2. IsFiniteSet(Family)
  <2>1. unit \in Surjection(S, Family)
    BY DEF Surjection
  <2> QED BY <1>1, <2>1, FS_Surjection
<1>3. ASSUME NEW p \in S PROVE IsFiniteSet(unit[p])
  <2>1. P[p].gross \in Int
    BY DEF Tables, PayRow
  <2> HIDE DEF unit
  <2>2. IsFiniteSet(1 .. P[p].gross)
    BY ONLY <2>1, FS_Interval
  <2>4. IsFiniteSet({p})
    BY FS_Singleton
  <2>3. IsFiniteSet({p} \X (1 .. P[p].gross))
    BY <2>2, <2>4, FS_Product
  <2> QED BY <2>3 DEF unit
<1>4. \A T \in Family : IsFiniteSet(T)
  BY <1>3
<1>5. IsFiniteSet(UNION Family)
  BY <1>2, <1>4, FS_UNION
<1>6. Units(P, S) = UNION Family
  BY DEF Units
<1> QED BY <1>5, <1>6, FS_CardinalityType

(* A larger set of rows holds at least as much money.                      *)
LEMMA UnitsMonotone ==
  ASSUME NEW P \in Tables, NEW S \in SUBSET Payments, NEW T \in SUBSET S
  PROVE  Cardinality(Units(P, T)) <= Cardinality(Units(P, S))
<1>1. Units(P, T) \subseteq Units(P, S)
  BY DEF Units
<1> QED BY <1>1, UnitsFinite, FS_Subset

(* What an order has been paid, and what remains, are naturals within its  *)
(* total: _payment_progress clamps at total_amount.                        *)
LEMMA PaidBounds ==
  ASSUME NEW P \in Tables, NEW o \in Orders
  PROVE  /\ Collected(P, o) \in Nat
         /\ Paid(P, o) \in 0 .. Total[o]
         /\ Remaining(P, o) \in 0 .. Total[o]
         /\ Total[o] \in Nat
<1>1. Collected(P, o) \in Nat
  BY UnitsFinite DEF Collected, Counted, Settled
<1>2. Total[o] \in Nat
  BY OrderConstants
<1> QED BY <1>1, <1>2 DEF Paid, Remaining, Min2

(* No settled row, no money.                                               *)
LEMMA NothingSettled ==
  ASSUME NEW P \in Tables, NEW o \in Orders, Settled(P, o) = {}
  PROVE  Paid(P, o) = 0
<1>1. Units(P, Counted(P, o)) = {}
  BY DEF Counted, Units
<1>2. Collected(P, o) = 0
  BY <1>1, FS_EmptySet DEF Collected
<1> QED BY <1>2, OrderConstants DEF Paid, Min2

(* The money of an order depends on its settled rows only, on their        *)
(* amounts and sequences.                                                  *)
LEMMA SameSettled ==
  ASSUME NEW P, NEW Q, NEW o,
         Settled(Q, o) = Settled(P, o),
         \A p \in Settled(P, o) : Q[p].seq = P[p].seq /\ Q[p].gross = P[p].gross
  PROVE  Paid(Q, o) = Paid(P, o) /\ Remaining(Q, o) = Remaining(P, o)
<1>1. Counted(Q, o) = Counted(P, o)
  BY DEF Counted
<1>2. \A p \in Counted(P, o) : Q[p].gross = P[p].gross
  BY DEF Counted
<1>3. Units(Q, Counted(Q, o)) = Units(P, Counted(P, o))
  BY <1>1, <1>2 DEF Units
<1> QED BY <1>3 DEF Paid, Remaining, Collected

(* Un-settling rows without a sequence (manual transfers) never adds       *)
(* money: no other row starts to count in their place.                     *)
LEMMA DroppingUnsequenced ==
  ASSUME NEW P \in Tables, NEW Q \in Tables, NEW o \in Orders,
         Settled(Q, o) \subseteq Settled(P, o),
         \A p \in Settled(P, o) \ Settled(Q, o) : P[p].seq = 0,
         \A p \in Settled(Q, o) : Q[p].seq = P[p].seq /\ Q[p].gross = P[p].gross
  PROVE  Paid(Q, o) <= Paid(P, o)
<1>1. Counted(Q, o) \subseteq Counted(P, o)
  <2> SUFFICES ASSUME NEW p \in Counted(Q, o) PROVE p \in Counted(P, o)
    OBVIOUS
  <2>1. p \in Settled(P, o) /\ p \in Settled(Q, o) /\ Q[p].seq = P[p].seq
    BY DEF Counted
  <2>2. CASE P[p].seq = 0
    BY <2>1, <2>2 DEF Counted
  <2>3. CASE P[p].seq # 0
    <3>1. \A q \in Settled(P, o) : P[q].seq = P[p].seq => q \in Settled(Q, o)
      BY <2>3
    <3>2. \A q \in Settled(Q, o) : Q[q].seq = Q[p].seq => p <= q
      BY <2>1, <2>3 DEF Counted
    <3>3. \A q \in Settled(P, o) : P[q].seq = P[p].seq => p <= q
      BY <3>1, <3>2, <2>1
    <3> QED BY <3>3, <2>1 DEF Counted
  <2> QED BY <2>2, <2>3
<1>2. Units(Q, Counted(Q, o)) = Units(P, Counted(Q, o))
  BY DEF Units, Counted
<1>3. Counted(P, o) \in SUBSET Payments
  BY DEF Counted, Settled
<1>4. Collected(Q, o) <= Collected(P, o)
  BY <1>1, <1>2, <1>3, UnitsMonotone DEF Collected
<1> QED BY <1>4, PaidBounds DEF Paid, Min2

(* The next segment of an order is numbered from 1, past every settled one. *)
LEMMA NextSequencePositive ==
  ASSUME NEW P \in Tables, NEW o \in Orders
  PROVE  /\ NextSequence(P, o) \in Nat \ {0}
         /\ \A p \in Settled(P, o) : P[p].seq < NextSequence(P, o)
<1> DEFINE S == Settled(P, o)
           seq[p \in S] == P[p].seq
           Seqs == {P[p].seq : p \in S}
           All == {0} \cup Seqs
<1>1. S \in SUBSET Payments /\ IsFiniteSet(S)
  BY FS_Subset, RowIds DEF Settled
<1>2. Seqs \in SUBSET Nat
  BY <1>1 DEF Tables, PayRow
<1>3. IsFiniteSet(Seqs)
  <2>1. seq \in Surjection(S, Seqs)
    BY DEF Surjection
  <2> QED BY <2>1, <1>1, FS_Surjection
<1>4. IsFiniteSet(All) /\ All \in SUBSET Nat /\ All # {}
  BY <1>2, <1>3, FS_AddElement, FS_Union, FS_Singleton
<1>5. \E m \in All : \A s \in All : s <= m
  BY <1>4, FiniteMax
<1>6. \E m \in All : \A p \in S : P[p].seq <= m
  BY <1>5
<1> DEFINE m == CHOOSE m \in All : \A p \in S : P[p].seq <= m
<1>7. m \in All /\ \A p \in S : P[p].seq <= m
  BY <1>6
<1>8. NextSequence(P, o) = 1 + m
  BY DEF NextSequence
<1>9. m \in Nat /\ \A p \in S : P[p].seq \in Nat
  BY <1>2, <1>4, <1>7
<1> HIDE DEF m
<1> QED BY <1>7, <1>8, <1>9

-----------------------------------------------------------------------------
(* The money of one row, of one row more, and of rows whose amounts stay.  *)
LEMMA IntervalSize ==
  ASSUME NEW n \in Nat
  PROVE  IsFiniteSet(1 .. n) /\ Cardinality(1 .. n) = n
<1>1. 1 \in Int /\ n \in Int
  OBVIOUS
<1>2. IsFiniteSet(1 .. n) /\ Cardinality(1 .. n) = IF 1 > n THEN 0 ELSE n - 1 + 1
  BY ONLY <1>1, FS_Interval
<1> QED BY <1>2

(* One row has as many units as its amount.                                *)
LEMMA UnitsOne ==
  ASSUME NEW P \in Tables, NEW p \in Payments
  PROVE  Cardinality(Units(P, {p})) = P[p].gross
<1> DEFINE n == P[p].gross
<1>1. n \in Nat
  BY DEF Tables, PayRow
<1>2. Units(P, {p}) = {p} \X (1 .. n)
  BY DEF Units
<1> HIDE DEF n
<1>3. IsFiniteSet(1 .. n) /\ Cardinality(1 .. n) = n
  BY <1>1, IntervalSize
<1>4. IsFiniteSet({p}) /\ Cardinality({p}) = 1
  BY FS_Singleton
<1>5. Cardinality({p} \X (1 .. n)) = Cardinality({p}) * Cardinality(1 .. n)
  BY <1>3, <1>4, FS_Product
<1>6. 1 * n = n
  BY <1>1
<1>7. Cardinality({p} \X (1 .. n)) = n
  BY ONLY <1>3, <1>4, <1>5, <1>6
<1> QED BY <1>2, <1>7 DEF n

(* A further row adds its amount.                                          *)
LEMMA UnitsAdd ==
  ASSUME NEW P \in Tables, NEW S \in SUBSET Payments, NEW p \in Payments \ S
  PROVE  Cardinality(Units(P, S \cup {p})) = Cardinality(Units(P, S)) + P[p].gross
<1> DEFINE A == Units(P, S)
           B == Units(P, {p})
<1>1. Units(P, S \cup {p}) = A \cup B
  BY DEF Units
<1>2. A \cap B = {}
  BY DEF Units
<1>3. /\ IsFiniteSet(A) /\ Cardinality(A) \in Nat
      /\ IsFiniteSet(B) /\ Cardinality(B) \in Nat
  BY UnitsFinite
<1>4. Cardinality(B) = P[p].gross
  BY UnitsOne
<1> HIDE DEF A, B
<1>5. Cardinality(A \cap B) = 0
  BY <1>2, FS_EmptySet
<1>6. Cardinality(A \cup B) = Cardinality(A) + Cardinality(B) - Cardinality(A \cap B)
  BY ONLY <1>3, FS_Union
<1>7. Cardinality(A \cup B) = Cardinality(A) + Cardinality(B)
  BY <1>3, <1>5, <1>6
<1> QED BY <1>1, <1>4, <1>7 DEF A, B

(* Units depend on the amounts alone.                                      *)
LEMMA UnitsSame ==
  ASSUME NEW P, NEW Q, NEW S, \A p \in S : Q[p].gross = P[p].gross
  PROVE  Units(Q, S) = Units(P, S)
BY DEF Units

-----------------------------------------------------------------------------
(* The new table counts a row of the same sequence, and of no less money,  *)
(* in the place of each row the old one counts.                            *)
Stands(Q, P, o, r, p) ==
  /\ r \in Counted(Q, o)
  /\ Q[r].gross >= P[p].gross
  /\ Q[r].seq = P[p].seq
  /\ P[p].seq = 0 => r = p

Undercut(Q, P, o) ==
  \E p \in Settled(P, o) : \E q \in Settled(Q, o) \ Settled(P, o) :
     q < p /\ P[p].seq # 0 /\ Q[q].seq = P[p].seq /\ Q[q].gross < P[p].gross

\* A counted row is still counted, or one of no smaller amount stands in for it.
LEMMA StandIn ==
  ASSUME NEW P \in Tables, NEW Q \in Tables, NEW o \in Orders,
         \A p \in Settled(P, o) : p \in Settled(Q, o) /\ Q[p] = P[p],
         ~Undercut(Q, P, o),
         NEW p \in Counted(P, o)
  PROVE  \E r \in Payments : Stands(Q, P, o, r, p)
<1>1. /\ p \in Payments /\ p \in Settled(P, o) /\ p \in Settled(Q, o) /\ Q[p] = P[p]
      /\ P[p].gross \in Nat
  BY DEF Counted, Settled, Tables, PayRow
<1>2. CASE P[p].seq = 0
  BY <1>1, <1>2 DEF Counted, Stands
<1>3. CASE P[p].seq # 0
  <2> DEFINE Same == {q \in Settled(Q, o) : Q[q].seq = P[p].seq}
  <2>1. Same \in SUBSET Nat /\ p \in Same
    BY <1>1, RowIds DEF Settled
  <2>2. PICK r \in Same : \A q \in Same : r <= q
    BY <2>1, NatLeast
  <2>3. r \in Counted(Q, o) /\ r \in Payments /\ Q[r].seq = P[p].seq
    BY <2>2 DEF Counted, Settled
  <2>4. CASE r \in Settled(P, o)
    <3>1. P[r].seq = P[p].seq /\ p <= r
      BY <1>1, <1>3, <2>3, <2>4 DEF Counted
    <3>2. r = p
      BY <2>1, <2>2, <3>1
    <3> QED BY <1>1, <1>3, <2>3, <3>2 DEF Stands
  <2>5. CASE r \notin Settled(P, o)
    <3>1. r < p
      BY <1>1, <2>1, <2>2, <2>5
    <3>2. Q[r].gross \in Nat /\ r \in Settled(Q, o)
      BY <2>2, <2>3 DEF Tables, PayRow
    <3>3. ~(Q[r].gross < P[p].gross)
      BY <1>1, <1>3, <2>3, <2>5, <3>1, <3>2 DEF Undercut
    <3> QED BY <1>1, <1>3, <2>3, <3>2, <3>3 DEF Stands
  <2> QED BY <2>4, <2>5
<1> QED BY <1>2, <1>3

(* So nothing is lost while settled rows stay and none is undercut.        *)
LEMMA NoLess ==
  ASSUME NEW P \in Tables, NEW Q \in Tables, NEW o \in Orders,
         \A p \in Settled(P, o) : p \in Settled(Q, o) /\ Q[p] = P[p],
         ~Undercut(Q, P, o)
  PROVE  Paid(P, o) <= Paid(Q, o)
<1> DEFINE rep == [p \in Counted(P, o) |-> CHOOSE r \in Payments : Stands(Q, P, o, r, p)]
           A == Units(P, Counted(P, o))
           B == Units(Q, Counted(Q, o))
           f == [u \in A |-> <<rep[u[1]], u[2]>>]
<1>1. \A p \in Counted(P, o) : rep[p] \in Payments /\ Stands(Q, P, o, rep[p], p)
  BY StandIn
<1>2. \A p, q \in Counted(P, o) : rep[p] = rep[q] => p = q
  <2> SUFFICES ASSUME NEW p \in Counted(P, o), NEW q \in Counted(P, o), rep[p] = rep[q]
               PROVE  p = q
    OBVIOUS
  <2>1. P[p].seq = P[q].seq /\ (P[p].seq = 0 => p = q)
    BY <1>1 DEF Stands
  <2>2. p \in Nat /\ q \in Nat
    BY RowIds DEF Counted, Settled
  <2> HIDE DEF rep
  <2>3. P[p].seq # 0 => p <= q /\ q <= p
    BY <2>1 DEF Counted
  <2> QED BY <2>1, <2>2, <2>3
<1> HIDE DEF rep
<1>3. \A u \in A : /\ u = <<u[1], u[2]>> /\ u[1] \in Counted(P, o)
                  /\ u[2] \in 1 .. P[u[1]].gross
  BY DEF Units
<1>4. \A u \in A : <<rep[u[1]], u[2]>> \in B
  <2> SUFFICES ASSUME NEW u \in A PROVE <<rep[u[1]], u[2]>> \in B
    OBVIOUS
  <2>1. Stands(Q, P, o, rep[u[1]], u[1]) /\ rep[u[1]] \in Payments /\ u[1] \in Payments
    BY <1>1, <1>3 DEF Counted, Settled
  <2>2. P[u[1]].gross \in Nat /\ Q[rep[u[1]]].gross \in Nat
    BY <2>1 DEF Tables, PayRow
  <2>3. u[2] \in 1 .. Q[rep[u[1]]].gross
    BY <1>3, <2>1, <2>2 DEF Stands
  <2> QED BY <2>1, <2>3 DEF Units, Stands
<1>5. f \in Injection(A, B)
  <2> HIDE DEF A, B
  <2>1. f \in [A -> B]
    BY <1>4
  <2>2. \A u, v \in A : f[u] = f[v] => u = v
    BY <1>2, <1>3
  <2> QED BY <2>1, <2>2 DEF Injection, IsInjective
<1>6. IsFiniteSet(B)
  BY UnitsFinite DEF Counted, Settled
<1>7. Collected(P, o) <= Collected(Q, o)
  <2> HIDE DEF f, A, B
  <2>1. Cardinality(A) <= Cardinality(B)
    BY <1>5, <1>6, FS_Injection
  <2> QED BY <2>1 DEF A, B, Collected
<1> QED BY <1>7, PaidBounds DEF Paid, Min2

-----------------------------------------------------------------------------
(* _segment_plan cuts the total into consecutive parts.                    *)

(* The whole part and the rest.                                            *)
LEMMA Division ==
  ASSUME NEW a \in Nat, NEW b \in Nat \ {0}
  PROVE  /\ a \div b \in Nat
         /\ (a \div b) * b <= a /\ a < (a \div b) * b + b
OBVIOUS

(* Multiplication is monotonic.                                            *)
LEMMA Times ==
  ASSUME NEW a \in Int, NEW b \in Int, NEW c \in Nat, a <= b
  PROVE  a * c <= b * c
OBVIOUS

(* One factor less is one summand less.                                    *)
LEMMA Distributed ==
  ASSUME NEW a \in Int, NEW c \in Nat
  PROVE  /\ (a - 1) * c + c = a * c
         /\ a * c \in Int /\ (a - 1) * c \in Int
OBVIOUS

(* Where segment i of an order begins.                                     *)
Start(i) == (i - 1) * SegmentLimit

(* The last segment begins before the total's end and reaches it.          *)
LEMMA SegmentNumbers ==
  ASSUME NEW o \in Orders, Total[o] > 0
  PROVE  /\ SegmentCount(o) \in Nat \ {0}
         /\ Start(SegmentCount(o)) < Total[o]
         /\ Total[o] <= Start(SegmentCount(o)) + SegmentLimit
<1> DEFINE T == Total[o]
           L == SegmentLimit
           c == SegmentCount(o)
<1>1. T \in Nat \ {0} /\ L \in Nat \ {0}
  BY OrderConstants
<1>2. CASE T <= L
  <2>1. c = 1
    BY <1>2 DEF SegmentCount
  <2> HIDE DEF c
  <2>2. (c - 1) * L = 0
    BY <1>1, <2>1
  <2> QED BY <1>1, <1>2, <2>1, <2>2 DEF Start, c
<1>3. CASE ~(T <= L)
  <2>1. c = (T + L - 1) \div L
    BY <1>3 DEF SegmentCount
  <2>2. T + L - 1 \in Nat
    BY <1>1
  <2> HIDE DEF c, T, L
  <2>3. c \in Nat /\ c * L <= T + L - 1 /\ T + L - 1 < c * L + L
    BY <1>1, <2>1, <2>2, Division
  <2>4. (c - 1) * L + L = c * L /\ c * L \in Int /\ (c - 1) * L \in Int
    BY <1>1, <2>3, Distributed
  <2>5. c # 0
    <3>1. c = 0 => c * L = 0
      BY <1>1
    <3> QED BY <1>1, <1>3, <2>3, <3>1
  <2> QED BY <1>1, <2>3, <2>4, <2>5 DEF Start, c, T, L
<1> QED BY <1>2, <1>3

(* Each segment has an amount and lies within the total.                   *)
LEMMA Segments ==
  ASSUME NEW o \in Orders, Total[o] > 0, NEW i \in 1 .. SegmentCount(o)
  PROVE  /\ Start(i) \in Nat
         /\ SegmentAmount(o, i) \in 1 .. SegmentLimit
         /\ Start(i) + SegmentAmount(o, i) <= Total[o]
<1>1. /\ Total[o] \in Nat /\ SegmentLimit \in Nat \ {0}
      /\ SegmentCount(o) \in Nat \ {0} /\ Start(SegmentCount(o)) < Total[o]
  BY OrderConstants, SegmentNumbers
<1>2. i \in Nat \ {0} /\ i - 1 <= SegmentCount(o) - 1
  BY <1>1
<1>3. Start(i) <= Start(SegmentCount(o)) /\ Start(i) \in Nat /\ Start(SegmentCount(o)) \in Int
  <2>1. 0 * SegmentLimit <= (i - 1) * SegmentLimit
    BY <1>1, <1>2, Times
  <2>2. (i - 1) * SegmentLimit <= (SegmentCount(o) - 1) * SegmentLimit
    BY <1>1, <1>2, Times
  <2>3. /\ (i - 1) * SegmentLimit \in Int /\ (SegmentCount(o) - 1) * SegmentLimit \in Int
        /\ 0 * SegmentLimit = 0
    BY <1>1, <1>2
  <2> QED BY <2>1, <2>2, <2>3 DEF Start
<1>4. SegmentAmount(o, i) = Min2(SegmentLimit, Total[o] - Start(i))
  BY DEF SegmentAmount, Start
<1> QED BY <1>1, <1>3, <1>4 DEF Min2

(* Segments do not overlap, ...                                            *)
LEMMA SegmentsApart ==
  ASSUME NEW i \in Nat \ {0}, NEW j \in Nat \ {0},
         NEW u \in 1 .. SegmentLimit, NEW v \in 1 .. SegmentLimit,
         Start(i) + u = Start(j) + v
  PROVE  i = j /\ u = v
<1>1. SegmentLimit \in Nat \ {0}
  BY OrderConstants
<1>2. ASSUME NEW a \in Nat \ {0}, NEW b \in Nat \ {0}, a < b
      PROVE  Start(a) + SegmentLimit <= Start(b) /\ Start(a) \in Int /\ Start(b) \in Int
  <2>1. a * SegmentLimit <= (b - 1) * SegmentLimit
    BY <1>1, <1>2, Times
  <2>2. (a - 1) * SegmentLimit + SegmentLimit = a * SegmentLimit
    BY <1>1, Distributed
  <2> QED BY <1>1, <2>1, <2>2 DEF Start
<1>3. Start(i) \in Int
  BY <1>1 DEF Start
<1>4. ~(i < j)
  BY <1>1, <1>2
<1>5. ~(j < i)
  BY <1>1, <1>2
<1>6. i = j
  BY <1>4, <1>5
<1> QED BY <1>1, <1>3, <1>6

(* ... and cover the total.                                                *)
LEMMA SegmentsCover ==
  ASSUME NEW o \in Orders, Total[o] > 0, NEW n \in 1 .. Total[o]
  PROVE  \E i \in 1 .. SegmentCount(o) : \E u \in 1 .. SegmentAmount(o, i) : n = Start(i) + u
<1> DEFINE L == SegmentLimit
           i == (n - 1) \div L + 1
<1>1. /\ L \in Nat \ {0} /\ Total[o] \in Nat /\ SegmentCount(o) \in Nat \ {0}
      /\ n - 1 \in Nat /\ n <= Total[o]
      /\ Total[o] <= Start(SegmentCount(o)) + L
  BY OrderConstants, SegmentNumbers
<1>2. /\ (n - 1) \div L \in Nat
      /\ ((n - 1) \div L) * L <= n - 1 /\ n - 1 < ((n - 1) \div L) * L + L
  BY <1>1, Division
<1>3. i \in Nat \ {0} /\ i - 1 = (n - 1) \div L
  BY <1>2
<1>4. Start(i) <= n - 1 /\ n - 1 < Start(i) + L /\ Start(i) \in Int
  BY <1>1, <1>2, <1>3 DEF Start
<1> HIDE DEF i, L
<1>5. i <= SegmentCount(o)
  <2>1. ASSUME SegmentCount(o) < i PROVE FALSE
    <3>1. SegmentCount(o) * L <= (i - 1) * L
      BY <1>1, <1>3, <2>1, Times
    <3>2. (SegmentCount(o) - 1) * L + L = SegmentCount(o) * L
      BY <1>1, Distributed
    <3>3. Start(SegmentCount(o)) + L <= Start(i) /\ Start(SegmentCount(o)) \in Int
      BY <1>1, <3>1, <3>2 DEF Start, L
    <3> QED BY <1>1, <1>4, <3>3
  <2> QED BY <1>1, <1>3, <2>1
<1>6. SegmentAmount(o, i) = Min2(L, Total[o] - Start(i))
  BY DEF SegmentAmount, Start, L
<1>7. n - Start(i) \in 1 .. SegmentAmount(o, i)
  BY <1>1, <1>4, <1>6 DEF Min2
<1> QED BY <1>1, <1>3, <1>4, <1>5, <1>7

-----------------------------------------------------------------------------
(***************************************************************************)
(* The handlers                                                            *)
(***************************************************************************)
(* Table Q differs from the current one in rows of order o only.           *)
Touches(Q, o) ==
  \A q \in Payments :
    \/ Q[q] = pay[q]
    \/ /\ Q[q].of = o
       /\ Q[q].st # "absent" /\ Q[q].rail # "none"
       /\ Q[q].rail = "manual" => Q[q].seq = 0
       /\ pay[q].of = o \/ pay[q].st = "absent"

(* No order ceases to exist, and o exists.                                 *)
OrdersStay(o) ==
  /\ ord'[o].st # "absent"
  /\ \A x \in Orders : ord[x].st # "absent" => ord'[x].st # "absent"

(* The money of the other orders is not affected.                          *)
LEMMA OtherOrders ==
  ASSUME NEW Q, NEW o, Touches(Q, o), NEW x \in Orders, x # o
  PROVE  Paid(Q, x) = Paid(pay, x) /\ Remaining(Q, x) = Remaining(pay, x)
<1>1. \A p \in Payments : p \in Settled(pay, x) => Q[p] = pay[p]
  BY DEF Touches, Settled
<1>2. \A p \in Payments : p \in Settled(Q, x) => Q[p] = pay[p]
  BY DEF Touches, Settled
<1>3. Settled(Q, x) = Settled(pay, x)
  BY <1>1, <1>2 DEF Settled
<1>4. \A p \in Settled(pay, x) : Q[p] = pay[p]
  BY <1>1 DEF Settled
<1> QED BY <1>3, <1>4, SameSettled

(* Touching rows of an existing order keeps the tables linked.             *)
LEMMA TouchesLinked ==
  ASSUME RowsLinked, NEW Q, NEW o \in Orders, Touches(Q, o), pay' = Q, OrdersStay(o),
         \A p \in (calls \cup found)' : p \in calls \cup found \/ pay'[p].st # "absent",
         calls' \subseteq Payments, found' \subseteq Payments
  PROVE  RowsLinked'
<1>1. \A p \in Payments : Q[p].st = "absent" <=> Q[p].rail = "none"
  BY DEF Touches, RowsLinked, Linked
<1>2. \A p \in Payments : Q[p].st # "absent" =>
        Q[p].of \in Orders /\ ord'[Q[p].of].st # "absent"
  BY DEF Touches, RowsLinked, Linked, OrdersStay
<1>3. \A p \in Payments : Q[p].rail = "manual" => Q[p].seq = 0
  BY DEF Touches, RowsLinked, Linked
<1>4. \A p \in (calls \cup found)' : pay'[p].st # "absent"
  BY DEF Touches, RowsLinked
<1> QED BY <1>1, <1>2, <1>3, <1>4 DEF RowsLinked, Linked

(* The money invariants follow, when only order o and its rows change,     *)
(* from what holds of o afterwards.                                        *)
LEMMA OneOrder ==
  ASSUME LedgerInv, NEW Q, NEW o \in Orders, Touches(Q, o), pay' = Q,
         \A x \in Orders : x # o => ord'[x] = ord[x],
         ord'[o].st = "paid" <=> Covered(Q, o),
         Paid(Q, o) > 0 => ord'[o].st \in {"paid", "partially_paid"},
         \A r \in Regs : reg'[r] = "paid" =>
           \/ reg[r] = "paid" /\ (RegOf[o] # r \/ Kind[o] = "additional")
           \/ reg[r] = "paid" /\ (ord[o].st = "paid" => ord'[o].st = "paid")
           \/ RegOf[o] = r /\ Kind[o] # "additional" /\ ord'[o].st = "paid",
         \A r \in Regs, k \in Packages : sel[r][k] # 0 => sel'[r][k] # 0,
         ord'[o].st = "paid" /\ Kind[o] = "additional" =>
           \A k \in ItemsOf[o] : sel'[RegOf[o]][k] # 0
  PROVE  PaidIffCovered' /\ MoneyKeepsOrderOpen' /\ RegPaidIsBacked' /\ PaidEntitles'
<1>1. \A x \in Orders : x # o =>
        Paid(Q, x) = Paid(pay, x) /\ Remaining(Q, x) = Remaining(pay, x)
  BY OtherOrders
<1>2. PaidIffCovered'
  BY <1>1 DEF LedgerInv, PaidIffCovered, Covered, Exists
<1>3. MoneyKeepsOrderOpen'
  BY <1>1 DEF LedgerInv, MoneyKeepsOrderOpen
<1>4. RegPaidIsBacked'
  BY DEF LedgerInv, RegPaidIsBacked
<1>5. PaidEntitles'
  <2> SUFFICES ASSUME NEW x \in Orders, ord'[x].st = "paid", Kind[x] = "additional",
                      NEW k \in ItemsOf[x]
               PROVE  sel'[RegOf[x]][k] # 0
    BY DEF PaidEntitles
  <2>1. CASE x = o
    BY <2>1
  <2>2. CASE x # o
    <3>1. sel[RegOf[x]][k] # 0
      BY <2>2 DEF LedgerInv, PaidEntitles
    <3>2. RegOf[x] \in Regs /\ k \in Packages
      BY OrderConstants, AdditionalOrders
    <3> QED BY <3>1, <3>2
  <2> QED BY <2>1, <2>2
<1> QED BY <1>2, <1>3, <1>4, <1>5

(* What _reconcile_order_payment writes has the right types.               *)
LEMMA ReconcileTypes ==
  ASSUME TypeOK, NEW P \in Tables, NEW o \in Orders
  PROVE  /\ StatusAfter(ord[o].st, P, o) \in OrderStatuses \ {"absent"}
         /\ OrderAfter(ord[o], P, o) \in OrderRow
         /\ \A s : RegAfter(o, s) \in [Regs -> RegStatuses]
         /\ \A s : SelAfter(o, s) \in [Regs -> [Packages -> Orders \cup {0}]]
<1>1. StatusAfter(ord[o].st, P, o) \in OrderStatuses \ {"absent"}
  BY DEF StatusAfter, OrderStatuses
<1>2. OrderAfter(ord[o], P, o) \in OrderRow
  BY <1>1 DEF OrderAfter, OrderRow, TypeOK
<1>3. \A s : RegAfter(o, s) \in [Regs -> RegStatuses]
  BY DEF RegAfter, RegStatuses, TypeOK
<1>4. ASSUME NEW s PROVE SelAfter(o, s) \in [Regs -> [Packages -> Orders \cup {0}]]
  BY DEF SelAfter, TypeOK
<1> QED BY <1>1, <1>2, <1>3, <1>4

(* Its registration and its packages follow that status.                   *)
LEMMA RegFollows ==
  ASSUME TypeOK, NEW o \in Orders, NEW s, NEW r \in Regs, RegAfter(o, s)[r] = "paid"
  PROVE  \/ reg[r] = "paid" /\ (RegOf[o] # r \/ Kind[o] = "additional")
         \/ RegOf[o] = r /\ Kind[o] # "additional" /\ s = "paid"
<1>1. CASE RegOf[o] = NoReg \/ Kind[o] = "additional"
  <2>1. reg[r] = "paid"
    BY <1>1 DEF RegAfter
  <2>2. r # NoReg
    BY RowIds
  <2> QED BY <1>1, <2>1, <2>2
<1>2. CASE ~(RegOf[o] = NoReg \/ Kind[o] = "additional")
  <2>1. RegAfter(o, s) = [reg EXCEPT ![RegOf[o]] =
          IF @ = "confirmed" THEN @
          ELSE IF s = "paid" THEN "paid" ELSE "payment_pending"]
    BY <1>2 DEF RegAfter
  <2>2. reg \in [Regs -> RegStatuses]
    BY DEF TypeOK
  <2>3. CASE RegOf[o] = r
    BY <1>2, <2>1, <2>2, <2>3
  <2>4. CASE RegOf[o] # r
    BY <2>1, <2>2, <2>4
  <2> QED BY <2>3, <2>4
<1> QED BY <1>1, <1>2

(* Activating packages takes none away, and grants those of a paid order.  *)
LEMMA SelFollows ==
  ASSUME TypeOK, NEW o \in Orders, NEW s
  PROVE  /\ \A r \in Regs, k \in Packages : sel[r][k] # 0 => SelAfter(o, s)[r][k] # 0
         /\ s = "paid" /\ Kind[o] = "additional" =>
              \A k \in ItemsOf[o] : SelAfter(o, s)[RegOf[o]][k] # 0
<1>1. o # 0
  BY RowIds
<1>2. ItemsOf[o] \subseteq Packages
  BY OrderConstants
<1> QED BY <1>1, <1>2, AdditionalOrders DEF SelAfter, TypeOK

(* A handler that changes one order and its rows keeps the invariant when  *)
(* the order's new status agrees with its money, and registration and      *)
(* packages follow that status or stay.                                    *)
LEMMA OrderKeeps ==
  ASSUME LedgerInv, NEW Q \in Tables, NEW o \in Orders, Touches(Q, o), pay' = Q,
         NEW row \in OrderRow, row.st # "absent", ord' = [ord EXCEPT ![o] = row],
         row.st = "paid" <=> Covered(Q, o),
         Paid(Q, o) > 0 => row.st \in {"paid", "partially_paid"},
         \/ \E s : /\ s = "paid" <=> row.st = "paid"
                  /\ reg' = RegAfter(o, s) /\ sel' = SelAfter(o, s)
         \/ reg' = reg /\ sel' = sel /\ (ord[o].st = "paid" <=> row.st = "paid"),
         calls' \subseteq Payments, found' \subseteq Payments,
         \A p \in (calls \cup found)' : p \in calls \cup found \/ Q[p].st # "absent",
         leaving' = leaving, mtSeen' \subseteq Payments \X MtStatuses
  PROVE  LedgerInv'
<1>1. TypeOK
  BY DEF LedgerInv
<1>2. ord'[o] = row /\ \A x \in Orders : x # o => ord'[x] = ord[x]
  BY <1>1 DEF TypeOK
<1>3. TypeOK'
  <2>1. ord' \in [Orders -> OrderRow] /\ pay' \in [Payments -> PayRow]
    BY <1>1 DEF TypeOK, Tables
  <2>2. reg' \in [Regs -> RegStatuses] /\ sel' \in [Regs -> [Packages -> Orders \cup {0}]]
    BY <1>1, ReconcileTypes DEF TypeOK
  <2> QED BY <1>1, <2>1, <2>2 DEF TypeOK
<1>4. RowsLinked'
  <2>1. OrdersStay(o)
    BY <1>2 DEF OrdersStay
  <2> QED BY <2>1, TouchesLinked DEF LedgerInv
<1>5. PaidIffCovered' /\ MoneyKeepsOrderOpen' /\ RegPaidIsBacked' /\ PaidEntitles'
  <2>1. CASE \E s : /\ s = "paid" <=> row.st = "paid"
                    /\ reg' = RegAfter(o, s) /\ sel' = SelAfter(o, s)
    BY <1>1, <1>2, <2>1, RegFollows, SelFollows, OneOrder
  <2>2. CASE reg' = reg /\ sel' = sel /\ (ord[o].st = "paid" <=> row.st = "paid")
    <3>1. row.st = "paid" /\ Kind[o] = "additional" =>
            \A k \in ItemsOf[o] : sel'[RegOf[o]][k] # 0
      BY <2>2 DEF LedgerInv, PaidEntitles
    <3> QED BY <1>2, <2>2, <3>1, OneOrder
  <2> QED BY <2>1, <2>2
<1> QED BY <1>3, <1>4, <1>5 DEF LedgerInv

(* _reconcile_order_payment establishes that agreement, so that all that   *)
(* is left to show of a handler that calls it is what it does to the rows. *)
LEMMA ReconcileAgrees ==
  ASSUME LedgerInv, NEW Q \in Tables, NEW o \in Orders
  PROVE  /\ OrderAfter(ord[o], Q, o) \in OrderRow
         /\ OrderAfter(ord[o], Q, o).st = StatusAfter(ord[o].st, Q, o)
         /\ StatusAfter(ord[o].st, Q, o) # "absent"
         /\ StatusAfter(ord[o].st, Q, o) = "paid" <=> Covered(Q, o)
         /\ Paid(Q, o) > 0 => StatusAfter(ord[o].st, Q, o) \in {"paid", "partially_paid"}
<1>1. TypeOK
  BY DEF LedgerInv
<1>2. StatusAfter(ord[o].st, Q, o) = "paid" <=> Covered(Q, o)
  BY PaidBounds DEF StatusAfter, Covered
<1>3. Paid(Q, o) > 0 => StatusAfter(ord[o].st, Q, o) \in {"paid", "partially_paid"}
  BY PaidBounds DEF StatusAfter
<1> QED BY <1>1, <1>2, <1>3, ReconcileTypes DEF OrderAfter

(* Reconciling the order whose rows were touched restores the invariant.   *)
LEMMA ReconcileKeeps ==
  ASSUME LedgerInv, NEW Q \in Tables, NEW o \in Orders, Touches(Q, o),
         Reconcile(Q, o),
         calls' \subseteq calls, found' \subseteq found,
         leaving' = leaving, mtSeen' \subseteq Payments \X MtStatuses
  PROVE  LedgerInv'
<1> DEFINE s == StatusAfter(ord[o].st, Q, o)
           row == OrderAfter(ord[o], Q, o)
<1>1. TypeOK
  BY DEF LedgerInv
<1>2. /\ pay' = Q
      /\ ord' = [ord EXCEPT ![o] = row]
      /\ reg' = RegAfter(o, s) /\ sel' = SelAfter(o, s)
  BY <1>1 DEF Reconcile, TypeOK
<1>3. /\ row \in OrderRow /\ row.st = s /\ s # "absent"
      /\ s = "paid" <=> Covered(Q, o)
      /\ Paid(Q, o) > 0 => s \in {"paid", "partially_paid"}
  BY ReconcileAgrees
<1>4. calls' \subseteq Payments /\ found' \subseteq Payments
  BY <1>1 DEF TypeOK
<1> HIDE DEF s, row
<1> QED BY <1>2, <1>3, <1>4, OrderKeeps

-----------------------------------------------------------------------------
(* The rows a handler works on                                             *)

(* A row in use belongs to an existing order.                              *)
LEMMA RowHasOrder ==
  ASSUME LedgerInv, NEW p \in Payments, pay[p].st # "absent"
  PROVE  pay[p].of \in Orders /\ ord[pay[p].of].st # "absent"
BY DEF LedgerInv, RowsLinked, Linked

(* Writing the status of a row in use, or deleting it, touches its order.  *)
LEMMA StatusTouches ==
  ASSUME LedgerInv, NEW p \in Payments, pay[p].st # "absent",
         NEW s \in PayStatuses \ {"absent"}
  PROVE  /\ [pay EXCEPT ![p].st = s] \in Tables
         /\ Touches([pay EXCEPT ![p].st = s], pay[p].of)
<1>1. /\ pay \in [Payments -> PayRow] /\ pay[p].rail # "none"
      /\ pay[p].rail = "manual" => pay[p].seq = 0
  BY DEF LedgerInv, TypeOK, RowsLinked, Linked
<1>2. [pay EXCEPT ![p].st = s] \in Tables
  BY <1>1 DEF Tables, PayRow
<1>3. [pay EXCEPT ![p].st = s][p] = [pay[p] EXCEPT !.st = s]
  BY <1>1
<1>4. \A q \in Payments : q # p => [pay EXCEPT ![p].st = s][q] = pay[q]
  BY <1>1
<1>5. Touches([pay EXCEPT ![p].st = s], pay[p].of)
  BY <1>1, <1>3, <1>4 DEF Touches, PayRow
<1> QED BY <1>2, <1>5

(* Soft deletion touches the row's own order alone.                        *)
LEMMA DeletionTouches ==
  ASSUME LedgerInv, NEW p \in Payments, pay[p].st # "absent"
  PROVE  /\ [pay EXCEPT ![p].del = TRUE] \in Tables
         /\ Touches([pay EXCEPT ![p].del = TRUE], pay[p].of)
<1>1. /\ pay \in [Payments -> PayRow] /\ pay[p].rail # "none"
      /\ pay[p].rail = "manual" => pay[p].seq = 0
  BY DEF LedgerInv, TypeOK, RowsLinked, Linked
<1>2. [pay EXCEPT ![p].del = TRUE] \in Tables
  BY <1>1 DEF Tables, PayRow
<1>3. [pay EXCEPT ![p].del = TRUE][p] = [pay[p] EXCEPT !.del = TRUE]
  BY <1>1
<1>4. \A q \in Payments : q # p => [pay EXCEPT ![p].del = TRUE][q] = pay[q]
  BY <1>1
<1>5. Touches([pay EXCEPT ![p].del = TRUE], pay[p].of)
  BY <1>1, <1>3, <1>4 DEF Touches, PayRow
<1> QED BY <1>2, <1>5

(* So does inserting a new row.                                            *)
LEMMA InsertionTouches ==
  ASSUME LedgerInv, NEW p \in Payments, pay[p].st = "absent", NEW o \in Orders,
         NEW row \in PayRow, row.of = o, row.st # "absent", row.rail # "none",
         row.rail = "manual" => row.seq = 0
  PROVE  /\ [pay EXCEPT ![p] = row] \in Tables
         /\ Touches([pay EXCEPT ![p] = row], o)
<1>1. pay \in [Payments -> PayRow]
  BY DEF LedgerInv, TypeOK
<1> QED BY <1>1 DEF Tables, Touches

(* What a handler inserts is a row with the fields it was given.           *)
LEMMA NewRows ==
  ASSUME NEW o \in Orders, NEW st \in PayStatuses, NEW gross \in Nat, NEW seq \in Nat,
         NEW rail \in Rails
  PROVE  /\ NewPay(o, rail, st, gross, seq) \in PayRow
         /\ NewPay(o, rail, st, gross, seq).of = o
         /\ NewPay(o, rail, st, gross, seq).st = st
         /\ NewPay(o, rail, st, gross, seq).rail = rail
         /\ NewPay(o, rail, st, gross, seq).seq = seq
BY DEF NewPay, PayRow

(* A manual payment confirmed without a proof.                             *)
LEMMA ManualRow ==
  ASSUME NEW o \in Orders, NEW gross \in Nat
  PROVE  /\ NewPay(o, "manual", "success", gross, 0) \in PayRow
         /\ NewPay(o, "manual", "success", gross, 0).of = o
         /\ NewPay(o, "manual", "success", gross, 0).st = "success"
         /\ NewPay(o, "manual", "success", gross, 0).rail = "manual"
         /\ NewPay(o, "manual", "success", gross, 0).seq = 0
<1>1. "success" \in PayStatuses /\ "manual" \in Rails /\ 0 \in Nat
  BY DEF PayStatuses, Rails
<1> QED BY <1>1, NewRows

(* A hosted bill is a row like any other.                                  *)
LEMMA HostedBillRow ==
  ASSUME LedgerInv, NEW o \in Orders
  PROVE  /\ HostedBill(o) \in PayRow
         /\ HostedBill(o).of = o
         /\ HostedBill(o).st = "created"
         /\ HostedBill(o).rail = "doku"
<1>1. pay \in Tables
  BY DEF LedgerInv, TypeOK, Tables
<1>2. Min2(SegmentLimit, Remaining(pay, o)) \in Nat
  BY <1>1, PaidBounds, OrderConstants DEF Min2
<1>3. NextSequence(pay, o) \in Nat
  BY <1>1, NextSequencePositive
<1>4. "doku" \in Rails /\ "created" \in PayStatuses
  BY DEF Rails, PayStatuses
<1> QED BY <1>2, <1>3, <1>4, NewRows DEF HostedBill
-----------------------------------------------------------------------------
(* The handlers that reconcile                                             *)

(* Each of them writes one row and reconciles its order.                   *)
LEMMA ReconcilingSteps ==
  ASSUME LedgerInv,
         \/ \E p \in Payments, s \in DokuStatuses : DokuApply(p, s) \/ DebitNotify(p, s)
         \/ \E p \in Payments, s \in MtStatuses : MidtransNotify(p, s)
         \/ \E p \in Payments : VaNotify(p) \/ AdminSuccess(p) \/ AdminDelete(p)
         \/ \E o \in Orders, p \in Payments : ConfirmManual(o, p)
         \/ \E r \in Regs, o \in Orders, p \in Payments, rail \in OfflineRails :
              OfflinePay(r, o, p, rail)
         \/ \E o \in Orders : ContinueSettled(o)
  PROVE  LedgerInv'
<1>t. /\ pay \in Tables
      /\ mtSeen \subseteq Payments \X MtStatuses
      /\ \A p \in Payments : pay[p].st = "absent" <=> pay[p].rail = "none"
  BY DEF LedgerInv, TypeOK, RowsLinked, Linked, Tables
<1>1. ASSUME NEW p \in Payments, NEW s \in DokuStatuses, DokuApply(p, s)
      PROVE  LedgerInv'
  <2>1. pay[p].st # "absent"
    BY <1>1 DEF LedgerInv, RowsLinked, DokuApply
  <2>2. DokuResult(pay[p], s) \in PayStatuses \ {"absent"}
    BY DEF DokuResult, PayStatuses
  <2> QED BY <1>1, <1>t, <2>1, <2>2, RowHasOrder, StatusTouches, ReconcileKeeps DEF DokuApply
<1>2. ASSUME NEW p \in Payments, NEW s \in DokuStatuses, DebitNotify(p, s)
      PROVE  LedgerInv'
  <2> DEFINE new == CASE s = "SUCCESS" -> "success"
                      [] s \in {"FAILED", "CANCELLED"} -> "failed"
                      [] OTHER -> pay[p].st
  <2>1. pay[p].st # "absent"
    BY <1>2, <1>t DEF DebitNotify
  <2>2. new \in PayStatuses \ {"absent"}
    <3>1. pay[p].st \in PayStatuses
      BY <1>t DEF Tables, PayRow
    <3> QED BY <2>1, <3>1 DEF PayStatuses
  <2>3. Reconcile([pay EXCEPT ![p].st = new], pay[p].of)
    BY <1>2, <1>t DEF DebitNotify, Tables
  <2> HIDE DEF new
  <2> QED BY <1>2, <1>t, <2>1, <2>2, <2>3, RowHasOrder, StatusTouches, ReconcileKeeps
          DEF DebitNotify
<1>3. ASSUME NEW p \in Payments, NEW s \in MtStatuses, MidtransNotify(p, s)
      PROVE  LedgerInv'
  <2>1. pay[p].st # "absent"
    BY <1>3, <1>t DEF MidtransNotify
  <2>2. MidtransResult(s) \in PayStatuses \ {"absent"}
    BY DEF MidtransResult, PayStatuses, MtStatuses
  <2>3. mtSeen' \subseteq Payments \X MtStatuses
    BY <1>3, <1>t DEF MidtransNotify
  <2> QED BY <1>3, <2>1, <2>2, <2>3, RowHasOrder, StatusTouches, ReconcileKeeps
          DEF MidtransNotify
<1>4. ASSUME NEW p \in Payments, VaNotify(p) \/ AdminSuccess(p) PROVE LedgerInv'
  <2>1. pay[p].st # "absent"
    BY <1>4, <1>t DEF VaNotify, AdminSuccess, MaySucceed
  <2>2. "success" \in PayStatuses \ {"absent"}
    BY DEF PayStatuses
  <2> QED BY <1>4, <1>t, <2>1, <2>2, RowHasOrder, StatusTouches, ReconcileKeeps
          DEF VaNotify, AdminSuccess
<1>5. ASSUME NEW p \in Payments, AdminDelete(p) PROVE LedgerInv'
  <2>1. pay[p].st # "absent"
    BY <1>5 DEF AdminDelete, MayCancel
  <2> QED BY <1>5, <1>t, <2>1, RowHasOrder, DeletionTouches, ReconcileKeeps DEF AdminDelete
<1>6. ASSUME NEW o \in Orders, NEW p \in Payments, ConfirmManual(o, p) PROVE LedgerInv'
  <2>1. "success" \in PayStatuses \ {"absent"} /\ "manual" \in Rails
    BY DEF PayStatuses, Rails
  <2>2. CASE p \in LatestManual(o) /\ Reconcile([pay EXCEPT ![p].st = "success"], o)
    <3>1. pay[p].st # "absent" /\ pay[p].of = o
      BY <2>2 DEF LatestManual, Live
    <3> QED BY <1>6, <1>t, <2>1, <2>2, <3>1, StatusTouches, ReconcileKeeps DEF ConfirmManual
  <2>3. CASE Unused(p) /\ Reconcile([pay EXCEPT ![p] = NewPay(o, "manual", "success", Total[o], 0)], o)
    <3>1. pay[p].st = "absent" /\ Total[o] \in Nat
      BY <2>3, OrderConstants DEF Unused
    <3> DEFINE new == NewPay(o, "manual", "success", Total[o], 0)
    <3>2. /\ new \in PayRow /\ new.of = o /\ new.st = "success" /\ new.rail = "manual"
          /\ new.seq = 0
      BY <3>1, ManualRow
    <3> HIDE DEF new
    <3>3. [pay EXCEPT ![p] = new] \in Tables /\ Touches([pay EXCEPT ![p] = new], o)
      BY <3>1, <3>2, InsertionTouches
    <3> QED BY <1>6, <1>t, <2>3, <3>3, ReconcileKeeps DEF ConfirmManual, new
  <2> QED BY <1>6, <2>2, <2>3 DEF ConfirmManual
<1>7. ASSUME NEW r \in Regs, NEW o \in Orders, NEW p \in Payments, NEW rail \in OfflineRails,
             OfflinePay(r, o, p, rail)
      PROVE  LedgerInv'
  <2>1. "success" \in PayStatuses \ {"absent"} /\ rail \in Rails /\ rail # "none"
    BY OrderConstants DEF PayStatuses, Rails
  <2>2. pay[p].st = "absent" /\ Remaining(pay, o) \in Nat
    BY <1>7, <1>t, PaidBounds DEF OfflinePay, Unused
  <2> QED BY <1>7, <1>t, <2>1, <2>2, NewRows, InsertionTouches, ReconcileKeeps DEF OfflinePay
<1>8. ASSUME NEW o \in Orders, ContinueSettled(o) PROVE LedgerInv'
  <2>1. Touches(pay, o)
    BY DEF Touches
  <2> QED BY <1>8, <1>t, <2>1, ReconcileKeeps DEF ContinueSettled
<1> QED BY <1>1, <1>2, <1>3, <1>4, <1>5, <1>6, <1>7, <1>8
-----------------------------------------------------------------------------
(* The handlers that write an order without reconciling it                 *)

(* Touching an order's rows without changing which are settled leaves its  *)
(* money as it was.                                                        *)
LEMMA UnsettledTouch ==
  ASSUME NEW Q, NEW o,
         \A p \in Payments :
           Q[p] = pay[p] \/ (pay[p].st # "success" /\ Q[p].st # "success")
  PROVE  Paid(Q, o) = Paid(pay, o) /\ Remaining(Q, o) = Remaining(pay, o)
<1>1. Settled(Q, o) = Settled(pay, o)
  BY DEF Settled
<1>2. \A p \in Settled(pay, o) : Q[p] = pay[p]
  BY DEF Settled
<1> QED BY <1>1, <1>2, SameSettled

(* Money that is there makes the order paid or partially paid.             *)
LEMMA OrderOfMoney ==
  ASSUME LedgerInv, NEW o \in Orders
  PROVE  /\ pay \in Tables /\ ord[o] \in OrderRow
         /\ ord[o].st = "paid" <=> Covered(pay, o)
         /\ Paid(pay, o) > 0 => ord[o].st \in {"paid", "partially_paid"}
         /\ Paid(pay, o) \in Nat /\ Remaining(pay, o) \in Nat
         /\ Settled(pay, o) = {} => Paid(pay, o) = 0
<1>1. pay \in Tables /\ ord[o] \in OrderRow
  BY DEF LedgerInv, TypeOK, Tables
<1>2. Paid(pay, o) \in Nat /\ Remaining(pay, o) \in Nat
  BY <1>1, PaidBounds
<1>3. Paid(pay, o) > 0 => ord[o].st \in {"paid", "partially_paid"}
  BY DEF LedgerInv, MoneyKeepsOrderOpen
<1>4. ord[o].st = "paid" <=> Covered(pay, o)
  BY <1>3 DEF LedgerInv, PaidIffCovered, Exists, Covered
<1> QED BY <1>1, <1>2, <1>3, <1>4, NothingSettled

(* A reservation adds a row without money.                                 *)
LEMMA HostedReserveKeeps ==
  ASSUME LedgerInv, NEW o \in Orders, NEW p \in Payments, HostedReserve(o, p)
  PROVE  LedgerInv'
<1> DEFINE Q == [pay EXCEPT ![p] = HostedBill(o)]
<1>1. TypeOK /\ pay \in Tables
  BY DEF LedgerInv, TypeOK, Tables
<1>2. Q \in Tables /\ Touches(Q, o) /\ pay' = Q /\ Q[p].st = "created" /\ pay[p].st = "absent"
      /\ \A q \in Payments : q # p => Q[q] = pay[q]
  BY <1>1, HostedBillRow, InsertionTouches DEF HostedReserve, Unused, Tables
<1> HIDE DEF Q
<1>4. Paid(Q, o) = Paid(pay, o) /\ Remaining(Q, o) = Remaining(pay, o)
  <2>1. \A q \in Payments :
          Q[q] = pay[q] \/ (pay[q].st # "success" /\ Q[q].st # "success")
    BY <1>2
  <2> QED BY <2>1, UnsettledTouch
<1> DEFINE row == [ord[o] EXCEPT !.st = IF @ = "draft" THEN "pending" ELSE @]
<1>5. row \in OrderRow /\ ord' = [ord EXCEPT ![o] = row]
  BY <1>1 DEF HostedReserve, TypeOK, OrderRow, OrderStatuses
<1>6. /\ row.st \notin {"absent", "paid"}
      /\ ord[o].st = "partially_paid" => row.st = "partially_paid"
  BY <1>1 DEF HostedReserve, TypeOK, OrderRow
<1> HIDE DEF row
<1>7. ~Covered(Q, o) /\ (Paid(Q, o) > 0 => row.st = "partially_paid")
  BY <1>4, <1>6, OrderOfMoney DEF HostedReserve, Covered
<1>8. /\ reg' = reg /\ sel' = sel /\ leaving' = leaving
      /\ calls' \subseteq Payments /\ found' \subseteq Payments
      /\ mtSeen' \subseteq Payments \X MtStatuses
  BY <1>1 DEF HostedReserve, TypeOK
<1>9. /\ ord[o].st = "paid" <=> row.st = "paid"
      /\ \A q \in (calls \cup found)' : q \in calls \cup found \/ Q[q].st # "absent"
  BY <1>2, <1>6 DEF HostedReserve
<1> QED BY <1>2, <1>5, <1>6, <1>7, <1>8, <1>9, OrderKeeps

(* DOKU's answer opens the bill of a reservation not canceled meanwhile.   *)
LEMMA HostedAnswerKeeps ==
  ASSUME LedgerInv, NEW p \in Payments, HostedAnswer(p)
  PROVE  LedgerInv'
<1> DEFINE new == IF pay[p].st = "created" THEN "pending" ELSE pay[p].st
           Q == [pay EXCEPT ![p].st = new]
           o == pay[p].of
<1>1. TypeOK /\ pay \in Tables /\ pay[p] \in PayRow
  BY DEF LedgerInv, TypeOK, Tables
<1>2. pay[p].st # "absent" /\ o \in Orders /\ ord[o].st # "absent"
  BY RowHasOrder DEF HostedAnswer, LedgerInv, RowsLinked
<1>3. new \in PayStatuses \ {"absent"}
  BY <1>1, <1>2 DEF PayStatuses, PayRow
<1>4. Q \in Tables /\ Touches(Q, o)
  BY <1>2, <1>3, StatusTouches
<1>5. pay' = Q
  BY <1>1 DEF HostedAnswer, Tables
<1>6. Paid(Q, o) = Paid(pay, o) /\ Remaining(Q, o) = Remaining(pay, o)
  <2>1. \A q \in Payments : q # p => Q[q] = pay[q]
    BY <1>1 DEF Tables
  <2>2. Q[p] = [pay[p] EXCEPT !.st = new]
    BY <1>1 DEF Tables
  <2>3. Q[p] = pay[p] \/ (pay[p].st # "success" /\ Q[p].st # "success")
    BY <1>1, <2>2 DEF PayRow
  <2> HIDE DEF Q
  <2> QED BY <2>1, <2>3, UnsettledTouch
<1> HIDE DEF Q, o
<1>7. ord[o] \in OrderRow /\ ord' = [ord EXCEPT ![o] = ord[o]] /\ reg' = reg /\ sel' = sel
  BY <1>1, <1>2 DEF HostedAnswer, TypeOK
<1>8. ord[o].st = "paid" <=> Covered(Q, o)
  BY <1>2, <1>6, OrderOfMoney DEF Covered
<1>9. Paid(Q, o) > 0 => ord[o].st \in {"paid", "partially_paid"}
  BY <1>2, <1>6, OrderOfMoney
<1>10. /\ calls' \subseteq Payments /\ found' \subseteq Payments
       /\ \A q \in (calls \cup found)' : q \in calls \cup found
       /\ leaving' = leaving /\ mtSeen' \subseteq Payments \X MtStatuses
  BY <1>1 DEF HostedAnswer, TypeOK
<1> QED BY <1>2, <1>4, <1>5, <1>7, <1>8, <1>9, <1>10, OrderKeeps

(* A proof makes a manual row pending, perhaps a settled one.              *)
LEMMA SubmitProofKeeps ==
  ASSUME LedgerInv, NEW o \in Orders, NEW p \in Payments, SubmitProof(o, p)
  PROVE  LedgerInv'
<1>1. TypeOK /\ pay \in Tables /\ pay[p] \in PayRow /\ Total[o] \in Nat
  BY OrderConstants DEF LedgerInv, TypeOK, Tables
<1>2. "pending" \in PayStatuses \ {"absent"} /\ "manual" \in Rails
  BY DEF PayStatuses, Rails
<1>3. pay' \in Tables /\ Touches(pay', o) /\ Paid(pay', o) <= Paid(pay, o)
  <2>1. CASE p \in LatestManual(o) /\ pay' = [pay EXCEPT ![p].st = "pending"]
    <3>1. pay[p].st # "absent" /\ pay[p].of = o /\ pay[p].rail = "manual"
      BY <2>1 DEF LatestManual, Live
    <3>2. pay' \in Tables /\ Touches(pay', o)
      BY <1>2, <2>1, <3>1, StatusTouches
    <3>3. pay[p].seq = 0
      BY <3>1 DEF LedgerInv, RowsLinked, Linked
    <3>4. /\ pay'[p] = [pay[p] EXCEPT !.st = "pending"]
          /\ \A q \in Payments : q # p => pay'[q] = pay[q]
      BY <1>1, <2>1 DEF Tables
    <3>5. Settled(pay', o) = Settled(pay, o) \ {p}
      BY <1>1, <3>4 DEF Settled, PayRow
    <3>6. \A q \in Settled(pay', o) : pay'[q] = pay[q]
      BY <3>4, <3>5 DEF Settled
    <3>7. \A q \in Settled(pay, o) \ Settled(pay', o) : pay[q].seq = 0
      BY <3>3, <3>5
    <3> QED BY <1>1, <3>2, <3>5, <3>6, <3>7, DroppingUnsequenced
  <2>2. CASE Unused(p) /\ pay' = [pay EXCEPT ![p] = NewPay(o, "manual", "pending", Total[o], 0)]
    <3> DEFINE new == NewPay(o, "manual", "pending", Total[o], 0)
    <3>1. pay[p].st = "absent"
      BY <2>2 DEF Unused
    <3>4. /\ new \in PayRow /\ new.of = o /\ new.st = "pending" /\ new.rail = "manual"
          /\ new.seq = 0
      BY <1>1, <1>2, NewRows
    <3>2. pay' \in Tables /\ Touches(pay', o)
      <4> HIDE DEF new
      <4> QED BY <2>2, <3>1, <3>4, InsertionTouches DEF new
    <3>3. \A q \in Payments : pay'[q] = pay[q] \/ (pay[q].st # "success" /\ pay'[q].st # "success")
      BY <1>1, <2>2, <3>1 DEF Tables, NewPay
    <3> QED BY <1>1, <3>2, <3>3, UnsettledTouch, PaidBounds
  <2> QED BY <2>1, <2>2 DEF SubmitProof
<1> DEFINE row == [ord[o] EXCEPT !.st = IF @ = "draft" THEN "pending" ELSE @]
<1>5. row \in OrderRow /\ ord' = [ord EXCEPT ![o] = row]
  BY <1>1 DEF SubmitProof, TypeOK, OrderRow, OrderStatuses
<1>6. /\ row.st \notin {"absent", "paid"} /\ ord[o].st # "paid"
      /\ ord[o].st = "partially_paid" => row.st = "partially_paid"
  BY <1>1 DEF SubmitProof, TypeOK, OrderRow
<1> HIDE DEF row
<1>7. ~Covered(pay', o) /\ (Paid(pay', o) > 0 => row.st = "partially_paid")
  <2>1. ~Covered(pay, o) /\ (Paid(pay, o) > 0 => row.st = "partially_paid")
    BY <1>6, OrderOfMoney
  <2> QED BY <1>1, <1>3, <2>1, PaidBounds DEF Covered, Remaining
<1>8. /\ reg' = reg /\ sel' = sel /\ leaving' = leaving
      /\ calls' = calls /\ found' = found
      /\ calls' \subseteq Payments /\ found' \subseteq Payments
      /\ mtSeen' \subseteq Payments \X MtStatuses
  BY <1>1 DEF SubmitProof, TypeOK
<1> QED BY <1>3, <1>5, <1>6, <1>7, <1>8, OrderKeeps
(* Continuing a payment reopens the order with a new bill.                 *)
LEMMA ContinueHostedKeeps ==
  ASSUME LedgerInv, NEW o \in Orders, NEW p \in Payments, ContinueHosted(o, p)
  PROVE  LedgerInv'
<1> DEFINE Q == [pay EXCEPT ![p] = HostedBill(o)]
           s == StatusAfter(ord[o].st, pay, o)
           row == [st |-> IF Settled(pay, o) # {} THEN "partially_paid" ELSE "pending",
                   by |-> FALSE]
<1>1. TypeOK /\ pay \in Tables
  BY DEF LedgerInv, TypeOK, Tables
<1>2. Q \in Tables /\ Touches(Q, o) /\ pay' = Q /\ Q[p].st = "created" /\ pay[p].st = "absent"
      /\ \A q \in Payments : q # p => Q[q] = pay[q]
  BY <1>1, HostedBillRow, InsertionTouches DEF ContinueHosted, Unused, Tables
<1>3. /\ ord' = [ord EXCEPT ![o] = row] /\ row \in OrderRow
      /\ row.st \notin {"absent", "paid"}
      /\ Settled(pay, o) # {} => row.st = "partially_paid"
  BY DEF ContinueHosted, OrderRow, OrderStatuses
<1>4. reg' = RegAfter(o, s) /\ sel' = SelAfter(o, s)
  BY DEF ContinueHosted
<1>5. s # "paid"
  BY <1>1, ReconcileAgrees DEF ContinueHosted, Covered
<1>6. /\ calls' \subseteq Payments /\ found' \subseteq Payments
      /\ leaving' = leaving /\ mtSeen' \subseteq Payments \X MtStatuses
      /\ \A q \in (calls \cup found)' : q \in calls \cup found \/ Q[q].st # "absent"
  BY <1>1, <1>2 DEF ContinueHosted, TypeOK
<1> HIDE DEF Q, row, s
<1>7. Paid(Q, o) = Paid(pay, o) /\ Remaining(Q, o) = Remaining(pay, o)
  <2>1. \A q \in Payments :
          Q[q] = pay[q] \/ (pay[q].st # "success" /\ Q[q].st # "success")
    BY <1>2
  <2> QED BY <2>1, UnsettledTouch
<1>8. ~Covered(Q, o) /\ (Paid(Q, o) > 0 => row.st = "partially_paid")
  BY <1>3, <1>7, OrderOfMoney DEF ContinueHosted, Covered
<1> QED BY <1>2, <1>3, <1>4, <1>5, <1>6, <1>8, OrderKeeps

\* The organizer cancels an unsettled row, and the order if nothing is paid.
LEMMA AdminCancelKeeps ==
  ASSUME LedgerInv, NEW p \in Payments, AdminCancel(p)
  PROVE  LedgerInv'
<1> DEFINE o == pay[p].of
           Q == [pay EXCEPT ![p].st = "canceled"]
           s == StatusAfter(ord[o].st, Q, o)
           row == IF Paid(Q, o) = 0 THEN [st |-> "canceled", by |-> TRUE]
                  ELSE OrderAfter(ord[o], Q, o)
<1>1. TypeOK /\ "canceled" \in PayStatuses \ {"absent"}
  BY DEF LedgerInv, PayStatuses
<1>2. pay[p].st # "absent" /\ o \in Orders
  BY RowHasOrder DEF AdminCancel, MayCancel
<1>3. Q \in Tables /\ Touches(Q, o)
  BY <1>1, <1>2, StatusTouches
<1>4. /\ pay' = Q /\ reg' = RegAfter(o, s) /\ sel' = SelAfter(o, s)
      /\ ord' = [ord EXCEPT ![o] = row]
  BY <1>1, <1>2 DEF AdminCancel, TypeOK
<1> HIDE DEF Q, o
<1>5. /\ row \in OrderRow /\ row.st # "absent"
      /\ row.st = "paid" <=> Covered(Q, o)
      /\ s = "paid" <=> row.st = "paid"
      /\ Paid(Q, o) > 0 => row.st \in {"paid", "partially_paid"}
  <2>1. [st |-> "canceled", by |-> TRUE] \in OrderRow
    BY DEF OrderRow, OrderStatuses
  <2>2. Paid(Q, o) \in Nat
    BY <1>2, <1>3, PaidBounds
  <2>3. CASE Paid(Q, o) = 0
    BY <1>2, <1>3, <2>1, <2>3, ReconcileAgrees DEF Covered
  <2>4. CASE Paid(Q, o) # 0
    BY <1>2, <1>3, <2>2, <2>4, ReconcileAgrees
  <2> QED BY <2>3, <2>4
<1>6. /\ calls' \subseteq Payments /\ found' \subseteq Payments
      /\ leaving' = leaving /\ mtSeen' \subseteq Payments \X MtStatuses
      /\ \A q \in (calls \cup found)' : q \in calls \cup found
  BY <1>1 DEF AdminCancel, TypeOK
<1> HIDE DEF row, s
<1> QED BY <1>2, <1>3, <1>4, <1>5, <1>6, OrderKeeps

(* The owner cancels the order and its unsettled rows.                     *)
LEMMA UserCancelKeeps ==
  ASSUME LedgerInv, NEW o \in Orders, UserCancel(o)
  PROVE  LedgerInv'
<1> DEFINE row == [st |-> "canceled", by |-> TRUE]
<1>1. TypeOK /\ pay \in Tables
  BY DEF LedgerInv, TypeOK, Tables
<1>2. \A q \in Payments :
        \/ pay'[q] = pay[q]
        \/ /\ pay[q].of = o /\ pay[q].st \in {"created", "pending"}
           /\ pay'[q] = [pay[q] EXCEPT !.st = "canceled"]
  BY DEF UserCancel, Live
<1>3. pay' \in Tables
  BY <1>1, <1>2 DEF UserCancel, Tables, PayRow, PayStatuses
<1>4. Touches(pay', o)
  <2>1. \A q \in Payments : /\ pay[q].rail = "manual" => pay[q].seq = 0
                            /\ pay[q].st # "absent" => pay[q].rail # "none"
    BY DEF LedgerInv, RowsLinked, Linked
  <2>2. ASSUME NEW q \in Payments, pay'[q] # pay[q]
        PROVE  /\ pay'[q].of = o /\ pay'[q].st # "absent" /\ pay[q].of = o
               /\ pay'[q].rail # "none"
               /\ pay'[q].rail = "manual" => pay'[q].seq = 0
    <3>1. /\ pay[q].of = o /\ pay'[q] = [pay[q] EXCEPT !.st = "canceled"]
          /\ pay[q].st # "absent"
      BY <1>2, <2>2
    <3>2. pay[q] \in PayRow
      BY <1>1 DEF Tables
    <3>3. /\ pay'[q].of = pay[q].of /\ pay'[q].st = "canceled"
          /\ pay'[q].rail = pay[q].rail /\ pay'[q].seq = pay[q].seq
      BY <3>1, <3>2 DEF PayRow
    <3> QED BY <2>1, <3>1, <3>3
  <2> QED BY <2>2 DEF Touches
<1>5. Paid(pay', o) = 0
  <2>1. \A q \in Payments :
          pay'[q] = pay[q] \/ (pay[q].st # "success" /\ pay'[q].st # "success")
    BY <1>1, <1>2 DEF Tables, PayRow
  <2> QED BY <2>1, UnsettledTouch, OrderOfMoney DEF UserCancel
<1>6. row \in OrderRow /\ row.st = "canceled" /\ ord' = [ord EXCEPT ![o] = row]
  BY DEF UserCancel, OrderRow, OrderStatuses
<1>7. /\ reg' = reg /\ sel' = sel /\ ord[o].st # "paid"
      /\ calls' = calls /\ found' = found /\ calls \subseteq Payments /\ found \subseteq Payments
      /\ leaving' = leaving /\ mtSeen' \subseteq Payments \X MtStatuses
  BY <1>1 DEF UserCancel, TypeOK
<1> HIDE DEF row
<1>8. ~Covered(pay', o) /\ ~(Paid(pay', o) > 0)
  BY <1>5 DEF Covered
<1> QED BY <1>3, <1>4, <1>6, <1>7, <1>8, OrderKeeps

-----------------------------------------------------------------------------
(* The steps that change neither orders nor payments                       *)

(* Steps that write no order and no row, and registration commands.        *)
LEMMA QuietSteps ==
  ASSUME LedgerInv,
         \/ UNCHANGED vars
         \/ \E p \in Payments : HostedNoAnswer(p) \/ DokuFind(p)
         \/ \E r \in Regs : \/ RegVerify(r) \/ RegReject(r) \/ RegConfirm(r)
                           \/ RegCancelRead(r) \/ RegCancelWrite(r)
  PROVE  LedgerInv'
<1>1. TypeOK /\ RowsLinked
  BY DEF LedgerInv
<1>2. ord' = ord /\ pay' = pay /\ sel' = sel
  BY DEF vars, HostedNoAnswer, DokuFind, RegVerify, RegReject, RegConfirm,
         RegCancelRead, RegCancelWrite
<1>3. reg' \in [Regs -> RegStatuses] /\ \A r \in Regs : reg'[r] = "paid" => reg[r] = "paid"
  BY <1>1 DEF TypeOK, RegStatuses, vars, HostedNoAnswer, DokuFind, RegVerify,
         RegReject, RegConfirm, RegCancelRead, RegCancelWrite
<1>4. /\ calls' \subseteq calls
      /\ found' \subseteq Payments
      /\ \A p \in found' : p \in found \/ pay[p].st # "absent"
  <2>1. "none" \notin DokuRails
    BY DEF DokuRails
  <2> QED BY <1>1, <2>1 DEF TypeOK, RowsLinked, Linked, vars, HostedNoAnswer, DokuFind,
         RegVerify, RegReject, RegConfirm, RegCancelRead, RegCancelWrite
<1>5. leaving' \subseteq Regs /\ mtSeen' \subseteq Payments \X MtStatuses
  BY <1>1 DEF TypeOK, vars, HostedNoAnswer, DokuFind, RegVerify, RegReject, RegConfirm,
         RegCancelRead, RegCancelWrite
<1>6. TypeOK' /\ RowsLinked'
  BY <1>1, <1>2, <1>3, <1>4, <1>5 DEF TypeOK, RowsLinked, Linked
<1>7. PaidIffCovered' /\ MoneyKeepsOrderOpen' /\ PaidEntitles'
  BY <1>2 DEF LedgerInv, PaidIffCovered, MoneyKeepsOrderOpen, PaidEntitles, Exists, Covered
<1>8. RegPaidIsBacked'
  BY <1>2, <1>3 DEF LedgerInv, RegPaidIsBacked
<1> QED BY <1>6, <1>7, <1>8 DEF LedgerInv

-----------------------------------------------------------------------------
(* The openings satisfy the invariant.                                     *)
LEMMA InitInv == Init => LedgerInv
<1> SUFFICES ASSUME Init PROVE LedgerInv
  OBVIOUS
<1>1. PICK s \in Openings : ord = s.ord /\ pay = s.pay /\ reg = s.reg /\ sel = s.sel
  BY DEF Init
<1>2. /\ ord \in [Orders -> OrderRow] /\ pay \in [Payments -> PayRow]
      /\ reg \in [Regs -> RegStatuses \ {"paid"}]
      /\ sel \in [Regs -> [Packages -> Orders \cup {0}]]
      /\ Linked(ord, pay)
      /\ \A o \in Orders : ord[o].st # "paid" /\ Paid(pay, o) = 0
  BY <1>1, LegalOpenings
<1>3. TypeOK /\ RowsLinked
  BY <1>2 DEF Init, TypeOK, RowsLinked
<1>4. PaidIffCovered /\ MoneyKeepsOrderOpen /\ RegPaidIsBacked /\ PaidEntitles
  BY <1>2 DEF PaidIffCovered, Covered, MoneyKeepsOrderOpen, RegPaidIsBacked, PaidEntitles
<1> QED BY <1>3, <1>4 DEF LedgerInv

(* Every step of the ledger keeps it.                                      *)
LEMMA NextInv == LedgerInv /\ [Next]_vars => LedgerInv'
<1> SUFFICES ASSUME LedgerInv, [Next]_vars PROVE LedgerInv'
  OBVIOUS
<1>1. ASSUME NEW o \in Orders, NEW p \in Payments,
             HostedReserve(o, p) \/ SubmitProof(o, p) \/ ContinueHosted(o, p)
      PROVE  LedgerInv'
  BY <1>1, HostedReserveKeeps, SubmitProofKeeps, ContinueHostedKeeps
<1>2. ASSUME NEW p \in Payments, HostedAnswer(p) \/ AdminCancel(p) PROVE LedgerInv'
  BY <1>2, HostedAnswerKeeps, AdminCancelKeeps
<1>3. ASSUME NEW o \in Orders, UserCancel(o) PROVE LedgerInv'
  BY <1>3, UserCancelKeeps
<1> QED BY <1>1, <1>2, <1>3, ReconcilingSteps, QuietSteps DEF Next

(* LedgerInv holds in every reachable state.                               *)
THEOREM LedgerInvariant == Spec => []LedgerInv
BY InitInv, NextInv, PTL DEF Spec

(* Every handler keeps the rows well typed: amounts and sequences are      *)
(* naturals, statuses are the model's enumerations.                        *)
THEOREM TypeCorrect == Spec => []TypeOK
<1>1. LedgerInv => TypeOK
  BY DEF LedgerInv
<1> QED BY <1>1, LedgerInvariant, PTL

(* An order is paid exactly when its counted settled rows cover a positive *)
(* total (_reconcile_order_payment after every change of settled money).   *)
THEOREM PaidExactly == Spec => []PaidIffCovered
<1>1. LedgerInv => PaidIffCovered
  BY DEF LedgerInv
<1> QED BY <1>1, LedgerInvariant, PTL

(* No cancellation, expiry or deletion hides settled money: its order is   *)
(* paid or partially paid.                                                 *)
THEOREM MoneyIsVisible == Spec => []MoneyKeepsOrderOpen
<1>1. LedgerInv => MoneyKeepsOrderOpen
  BY DEF LedgerInv
<1> QED BY <1>1, LedgerInvariant, PTL

(* A registration shows paid only while a main order of it is paid.        *)
THEOREM RegistrationBacked == Spec => []RegPaidIsBacked
<1>1. LedgerInv => RegPaidIsBacked
  BY DEF LedgerInv
<1> QED BY <1>1, LedgerInvariant, PTL

(* Every package of a paid additional order is held by its registration    *)
(* (_activate_paid_additional_packages).                                   *)
THEOREM EntitlementsGranted == Spec => []PaidEntitles
<1>1. LedgerInv => PaidEntitles
  BY DEF LedgerInv
<1> QED BY <1>1, LedgerInvariant, PTL
-----------------------------------------------------------------------------
(* Action properties                                                       *)

(* No handler writes over a settled hosted row.                            *)
LEMMA HostedSuccessStep ==
  ASSUME LedgerInv, Next, NEW p \in Payments, pay[p].rail = "doku", pay[p].st = "success"
  PROVE  pay'[p].st = "success"
<1>1. pay \in [Payments -> PayRow]
  BY DEF LedgerInv, TypeOK
<1>4. ASSUME NEW o \in Orders, NEW q \in Payments,
             \/ HostedReserve(o, q) \/ SubmitProof(o, q)
             \/ ConfirmManual(o, q) \/ ContinueHosted(o, q)
      PROVE  pay'[p].st = "success"
  <2>1. q # p \/ q \in LatestManual(o)
    BY <1>4 DEF HostedReserve, SubmitProof, ConfirmManual, ContinueHosted, Unused
  <2>2. p \notin LatestManual(o)
    BY DEF LatestManual
  <2>3. q # p
    BY <2>1, <2>2
  <2> QED BY <1>1, <1>4, <2>3
          DEF HostedReserve, SubmitProof, ConfirmManual, ContinueHosted, Reconcile
<1>5. ASSUME NEW q \in Payments, HostedAnswer(q) \/ HostedNoAnswer(q) \/ DokuFind(q)
      PROVE  pay'[p].st = "success"
  BY <1>1, <1>5 DEF HostedAnswer, HostedNoAnswer, DokuFind, PayRow
<1>6. ASSUME NEW q \in Payments, VaNotify(q) \/ AdminSuccess(q)
      PROVE  pay'[p].st = "success"
  BY <1>1, <1>6 DEF VaNotify, AdminSuccess, Reconcile, PayRow
<1>7. ASSUME NEW q \in Payments, AdminCancel(q) \/ AdminDelete(q)
      PROVE  pay'[p].st = "success"
  <2>1. q # p
    BY <1>7 DEF AdminCancel, AdminDelete, MayCancel
  <2> QED BY <1>1, <1>7, <2>1 DEF AdminCancel, AdminDelete, Reconcile
<1>8. ASSUME NEW q \in Payments, NEW s \in DokuStatuses, DokuApply(q, s)
      PROVE  pay'[p].st = "success"
  <2>1. pay' = [pay EXCEPT ![q].st = DokuResult(pay[q], s)]
    BY <1>8 DEF DokuApply, Reconcile
  <2>2. q = p => DokuResult(pay[q], s) = "success"
    BY DEF DokuResult
  <2> QED BY <1>1, <2>1, <2>2 DEF PayRow
<1>9. ASSUME NEW q \in Payments, NEW s,
             DebitNotify(q, s) \/ MidtransNotify(q, s)
      PROVE  pay'[p].st = "success"
  <2>1. q # p
    BY <1>9 DEF DebitNotify, MidtransNotify
  <2> QED BY <1>1, <1>9, <2>1 DEF DebitNotify, MidtransNotify, Reconcile
<1>10. ASSUME NEW o \in Orders, UserCancel(o) \/ ContinueSettled(o)
       PROVE  pay'[p].st = "success"
  BY <1>1, <1>10 DEF UserCancel, ContinueSettled, Reconcile
<1>11. ASSUME NEW r \in Regs, NEW o \in Orders, NEW q \in Payments, NEW rail \in OfflineRails,
              OfflinePay(r, o, q, rail)
       PROVE  pay'[p].st = "success"
  <2>1. q # p
    BY <1>11 DEF OfflinePay, Unused
  <2> QED BY <1>1, <1>11, <2>1 DEF OfflinePay, Reconcile
<1>12. ASSUME NEW r \in Regs, \/ RegVerify(r) \/ RegReject(r) \/ RegConfirm(r)
                              \/ RegCancelRead(r) \/ RegCancelWrite(r)
       PROVE  pay'[p].st = "success"
  BY <1>12 DEF RegVerify, RegReject, RegConfirm, RegCancelRead, RegCancelWrite
<1> QED BY <1>4, <1>5, <1>6, <1>7, <1>8, <1>9, <1>10, <1>11, <1>12 DEF Next

(* A settled hosted bill stays settled (handle_doku_notification ignores   *)
(* every later status; cancel, delete and proof handlers refuse the row).  *)
THEOREM HostedSuccessIsFinal == Spec => HostedSuccessStays
<1>1. LedgerInv /\ [Next]_vars =>
        [\A p \in Payments :
           pay[p].rail = "doku" /\ pay[p].st = "success" => pay'[p].st = "success"]_vars
  BY HostedSuccessStep
<1> QED BY <1>1, LedgerInvariant, PTL DEF Spec, HostedSuccessStays
-----------------------------------------------------------------------------
(* Reconciling reopens an order closed by a person only for money.         *)
LEMMA ReconcileReopens ==
  ASSUME LedgerInv, pay' \in Tables, NEW o \in Orders, Reconcile(pay', o),
         NEW x \in Orders, Closed(x), ~Closed(x)'
  PROVE  Paid(pay', x) > 0
<1>1. ord \in [Orders -> OrderRow]
  BY DEF LedgerInv, TypeOK
<1>2. ord' = [ord EXCEPT ![o] = OrderAfter(ord[o], pay', o)]
  BY <1>1 DEF Reconcile
<1>3. x = o
  BY <1>1, <1>2 DEF Closed
<1>4. ord'[x] = OrderAfter(ord[x], pay', x)
  BY <1>1, <1>2, <1>3
<1>5. Paid(pay', x) \in Nat
  BY PaidBounds
<1>6. ASSUME Paid(pay', x) = 0 PROVE FALSE
  <2>1. ord[x].st = "canceled" /\ ord[x].by
    BY DEF Closed
  <2>2. StatusAfter(ord[x].st, pay', x) = "canceled"
    BY <1>6, <2>1 DEF StatusAfter
  <2>3. OrderAfter(ord[x], pay', x) = [st |-> "canceled", by |-> TRUE]
    BY <2>1, <2>2 DEF OrderAfter
  <2>4. ord'[x].st = "canceled" /\ ord'[x].by
    BY <1>4, <2>3
  <2> QED BY <2>4 DEF Closed
<1> QED BY <1>5, <1>6
=============================================================================
