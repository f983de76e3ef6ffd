--------------------------- MODULE MidtransProofs ---------------------------
(***************************************************************************)
(* Although Midtrans checkout takes no lock, what an order is credited is  *)
(* the sum of its settled segments, for every total and segment limit and  *)
(* any number of checkouts at once; and Midtrans has settled every         *)
(* transaction the ledger credits.                                         *)
(***************************************************************************)
EXTENDS MidtransRail, LedgerProofs

(* A ledger of Midtrans orders: no rows yet, and something to pay.         *)
MidtransOnly ==
  /\ \A s \in Openings : \A p \in Payments : s.pay[p].st = "absent"
  /\ \A o \in Orders : Total[o] > 0

-----------------------------------------------------------------------------
(* The credit                                                              *)

RowsAreSegments ==
  \A p \in Payments : pay[p].st # "absent" =>
    /\ pay[p].rail = "midtrans" /\ pay[p].of \in Orders
    /\ pay[p].seq \in 1 .. SegmentCount(pay[p].of)
    /\ pay[p].gross = SegmentAmount(pay[p].of, pay[p].seq)

(* Where a counted currency unit lies in the order's total.                *)
Place(x) == Start(pay[x[1]].seq) + x[2]

Places(o) == [x \in Units(pay, Counted(pay, o)) |-> Place(x)]

(* What is counted are segments, each once.                                *)
LEMMA CountedAreSegments ==
  ASSUME pay \in Tables, RowsAreSegments, NEW o \in Orders
  PROVE  /\ \A p \in Counted(pay, o) :
              /\ p \in Payments /\ pay[p].seq \in 1 .. SegmentCount(o)
              /\ pay[p].gross = SegmentAmount(o, pay[p].seq)
         /\ \A p, q \in Counted(pay, o) : pay[p].seq = pay[q].seq => p = q
<1>1. \A p \in Counted(pay, o) :
        /\ p \in Payments /\ p \in Settled(pay, o) /\ pay[p].of = o /\ pay[p].st # "absent"
  BY DEF Counted, Settled
<1>2. \A p \in Counted(pay, o) :
        /\ pay[p].seq \in 1 .. SegmentCount(o)
        /\ pay[p].gross = SegmentAmount(o, pay[p].seq)
  BY <1>1 DEF RowsAreSegments
<1>3. ASSUME NEW p \in Counted(pay, o), NEW q \in Counted(pay, o), pay[p].seq = pay[q].seq
      PROVE  p = q
  <2>1. pay[p].seq # 0
    BY <1>2
  <2>2. p <= q /\ q <= p
    BY <1>1, <1>3, <2>1 DEF Counted
  <2>3. p \in Nat /\ q \in Nat
    BY <1>1, RowIds
  <2> QED BY <2>2, <2>3
<1> QED BY <1>1, <1>2, <1>3

(* No two counted units lie at one place.                                  *)
LEMMA PlacesInject ==
  ASSUME pay \in Tables, RowsAreSegments, NEW o \in Orders, Total[o] > 0
  PROVE  Places(o) \in Injection(Units(pay, Counted(pay, o)), 1 .. Total[o])
<1> DEFINE U == Units(pay, Counted(pay, o))
<1>1. ASSUME NEW x \in U
      PROVE  /\ x[1] \in Counted(pay, o)
             /\ x = <<x[1], x[2]>>
             /\ pay[x[1]].seq \in 1 .. SegmentCount(o)
             /\ pay[x[1]].seq \in Nat \ {0}
             /\ x[2] \in 1 .. SegmentLimit
             /\ Place(x) \in 1 .. Total[o]
  <2>1. PICK p \in Counted(pay, o) : x \in {p} \X (1 .. pay[p].gross)
    BY DEF Units
  <2>2. x = <<x[1], x[2]>> /\ x[1] = p /\ x[2] \in 1 .. pay[p].gross
    BY <2>1
  <2>3. pay[p].seq \in 1 .. SegmentCount(o) /\ pay[p].gross = SegmentAmount(o, pay[p].seq)
    BY CountedAreSegments
  <2>4. /\ Start(pay[p].seq) \in Nat
        /\ SegmentAmount(o, pay[p].seq) \in 1 .. SegmentLimit
        /\ Start(pay[p].seq) + SegmentAmount(o, pay[p].seq) <= Total[o]
    BY <2>3, Segments
  <2>5. SegmentLimit \in Nat /\ Total[o] \in Nat /\ SegmentCount(o) \in Nat
    BY OrderConstants, SegmentNumbers
  <2>6. x[2] \in 1 .. SegmentLimit /\ x[2] <= SegmentAmount(o, pay[p].seq)
    BY <2>2, <2>3, <2>4, <2>5
  <2>7. Place(x) \in 1 .. Total[o]
    BY <2>2, <2>4, <2>5, <2>6 DEF Place
  <2> QED BY <2>1, <2>2, <2>3, <2>5, <2>6, <2>7
<1>2. ASSUME NEW x \in U, NEW y \in U, Place(x) = Place(y)
      PROVE  x = y
  <2>1. pay[x[1]].seq = pay[y[1]].seq /\ x[2] = y[2]
    BY <1>1, <1>2, SegmentsApart DEF Place
  <2>2. x[1] = y[1]
    BY <1>1, <2>1, CountedAreSegments
  <2> QED BY <1>1, <2>1, <2>2
<1>3. Places(o) \in [U -> 1 .. Total[o]]
  BY <1>1 DEF Places
<1>4. \A x, y \in U : Places(o)[x] = Places(o)[y] => x = y
  BY <1>2 DEF Places
<1> QED BY <1>3, <1>4 DEF Injection, IsInjective

(* A settled segment has one counted row: its earliest.                    *)
LEMMA SettledSegmentCounts ==
  ASSUME NEW o \in Orders, NEW i \in Nat \ {0},
         NEW p \in Settled(pay, o), pay[p].seq = i
  PROVE  \E q \in Counted(pay, o) : pay[q].seq = i
<1> DEFINE Same == {q \in Settled(pay, o) : pay[q].seq = i}
<1>1. Same \in SUBSET Nat /\ p \in Same
  BY RowIds DEF Settled
<1>2. PICK r \in Same : \A q \in Same : r <= q
  BY <1>1, NatLeast
<1> QED BY <1>2 DEF Counted

(* Counted units fill the total exactly when all segments are settled.     *)
LEMMA WholeSegments ==
  ASSUME pay \in Tables, RowsAreSegments, MidtransOnly
  PROVE  CreditIsWholeSegments
<1> SUFFICES ASSUME NEW o \in Orders
             PROVE  /\ Collected(pay, o) <= Total[o]
                    /\ Unsettled(o) = {} <=> Total[o] > 0 /\ Remaining(pay, o) = 0
  BY DEF CreditIsWholeSegments
<1> DEFINE U == Units(pay, Counted(pay, o))
<1>1. Total[o] > 0 /\ Total[o] \in Nat
  BY OrderConstants DEF MidtransOnly
<1>2. IsFiniteSet(1 .. Total[o]) /\ Cardinality(1 .. Total[o]) = Total[o]
  BY <1>1, IntervalSize
<1>3. Places(o) \in Injection(U, 1 .. Total[o])
  BY <1>1, PlacesInject
<1>4. /\ Collected(pay, o) <= Total[o]
      /\ Collected(pay, o) = Total[o] <=> Places(o) \in Surjection(U, 1 .. Total[o])
  <2>1. /\ Cardinality(U) <= Cardinality(1 .. Total[o])
        /\ Cardinality(U) = Cardinality(1 .. Total[o])
             <=> Places(o) \in Surjection(U, 1 .. Total[o])
    BY <1>2, <1>3, FS_Injection
  <2> QED BY <1>2, <2>1 DEF Collected
<1>5. Remaining(pay, o) = 0 <=> Collected(pay, o) = Total[o]
  BY <1>1, <1>4, PaidBounds DEF Remaining, Paid, Min2
<1>6. ASSUME Unsettled(o) = {}
      PROVE  Places(o) \in Surjection(U, 1 .. Total[o])
  <2>1. ASSUME NEW n \in 1 .. Total[o] PROVE \E x \in U : Places(o)[x] = n
    <3>1. PICK i \in 1 .. SegmentCount(o) : \E u \in 1 .. SegmentAmount(o, i) : n = Start(i) + u
      BY <1>1, SegmentsCover
    <3>2. PICK u \in 1 .. SegmentAmount(o, i) : n = Start(i) + u
      BY <3>1
    <3>3. SegmentCount(o) \in Nat /\ i \in Nat \ {0}
      BY <1>1, SegmentNumbers
    <3>4. \E p \in Settled(pay, o) : pay[p].seq = i
      BY <1>6, <3>1 DEF Unsettled
    <3>5. PICK q \in Counted(pay, o) : pay[q].seq = i
      BY <3>3, <3>4, SettledSegmentCounts
    <3>6. pay[q].gross = SegmentAmount(o, i)
      BY <3>5, CountedAreSegments
    <3>7. <<q, u>> \in U
      BY <3>2, <3>5, <3>6 DEF Units
    <3>8. Places(o)[<<q, u>>] = n
      BY <3>2, <3>5, <3>7 DEF Places, Place
    <3> QED BY <3>7, <3>8
  <2>2. Places(o) \in [U -> 1 .. Total[o]]
    BY <1>3 DEF Injection
  <2> QED BY <2>1, <2>2 DEF Surjection
<1>7. ASSUME Places(o) \in Surjection(U, 1 .. Total[o])
      PROVE  Unsettled(o) = {}
  <2> SUFFICES ASSUME NEW i \in 1 .. SegmentCount(o)
               PROVE  \E p \in Settled(pay, o) : pay[p].seq = i
    BY DEF Unsettled
  <2>1. /\ Start(i) \in Nat /\ SegmentAmount(o, i) \in 1 .. SegmentLimit
        /\ Start(i) + SegmentAmount(o, i) <= Total[o]
        /\ SegmentLimit \in Nat \ {0} /\ SegmentCount(o) \in Nat /\ i \in Nat \ {0}
    BY <1>1, Segments, SegmentNumbers, OrderConstants
  <2>2. Start(i) + 1 \in 1 .. Total[o]
    BY <1>1, <2>1
  <2>3. PICK x \in U : Places(o)[x] = Start(i) + 1
    BY <1>7, <2>2 DEF Surjection
  <2>4. PICK p \in Counted(pay, o) : x \in {p} \X (1 .. pay[p].gross)
    BY <2>3 DEF Units
  <2>5. Start(pay[p].seq) + x[2] = Start(i) + 1 /\ x[2] \in 1 .. pay[p].gross
    BY <2>3, <2>4 DEF Places, Place
  <2>6. pay[p].seq \in 1 .. SegmentCount(o) /\ pay[p].gross = SegmentAmount(o, pay[p].seq)
    BY <2>4, CountedAreSegments
  <2>7. SegmentAmount(o, pay[p].seq) \in 1 .. SegmentLimit
    BY <1>1, <2>6, Segments
  <2>8. pay[p].seq \in Nat \ {0} /\ x[2] \in 1 .. SegmentLimit /\ 1 \in 1 .. SegmentLimit
    BY <2>1, <2>5, <2>6, <2>7
  <2>9. pay[p].seq = i
    BY <2>1, <2>5, <2>8, SegmentsApart
  <2> QED BY <2>4, <2>9 DEF Counted
<1> QED BY <1>1, <1>4, <1>5, <1>6, <1>7

-----------------------------------------------------------------------------
(* The invariant                                                           *)

(* A checkout under way charges a segment, and its outdated attempt exists.*)
PlansAreSegments ==
  \A c \in Clients : plan[c] # NoPlan =>
    /\ plan[c].order \in Orders
    /\ plan[c].seq \in 1 .. SegmentCount(plan[c].order)
    /\ plan[c].stale # 0 => pay[plan[c].stale].st # "absent"

(* Midtrans knows only transactions of committed rows.                     *)
KnownRows == \A p \in Payments : mt[p] # "none" => pay[p].st # "absent"

(* A verified notification is about a transaction of Midtrans, and a       *)
(* verified settlement is one Midtrans has made.                           *)
VerifiedIsReal ==
  \A p \in Payments, s \in MtStatuses : <<p, s>> \in verified =>
    /\ mt[p] # "none"
    /\ s = "settlement" => mt[p] \in {"settlement", "refund"}

MidtransTypes ==
  /\ pay \in Tables
  /\ mt \in [Payments -> MtStatuses \cup {"none"}]
  /\ verified \subseteq Payments \X MtStatuses
  /\ plan \in [Clients -> [order : Orders \cup {0}, seq : Nat, stale : Payments \cup {0}]]

MidtransInv ==
  /\ MidtransTypes
  /\ RowsAreSegments
  /\ PlansAreSegments
  /\ KnownRows
  /\ VerifiedIsReal
  /\ CreditIsReal

(* A ledger without rows satisfies the invariant.                          *)
LEMMA MidtransStarts ==
  ASSUME MidtransOnly, InitMidtrans
  PROVE  MidtransInv
<1>1. PICK s \in Openings : pay = s.pay
  BY DEF InitMidtrans, Init
<1>2. \A p \in Payments : pay[p].st = "absent" /\ pay[p].rail = "none"
  BY <1>1, LegalOpenings DEF MidtransOnly, Linked
<1>3. pay \in Tables
  BY <1>1, LegalOpenings DEF Tables
<1>4. \A p \in Payments : mt[p] = "none"
  BY <1>2 DEF InitMidtrans
<1>5. MidtransTypes
  BY <1>3 DEF InitMidtrans, MidtransTypes, MtStatuses, NoPlan
<1>6. PlansAreSegments
  BY DEF InitMidtrans, PlansAreSegments
<1>7. VerifiedIsReal
  BY DEF InitMidtrans, VerifiedIsReal
<1> QED BY <1>2, <1>4, <1>5, <1>6, <1>7
        DEF MidtransInv, RowsAreSegments, KnownRows, CreditIsReal

(* Steps that leave the rows alone: the checkout's reading and failing,    *)
(* the lapse of a window, the verification, and Midtrans.                  *)
LEMMA OutsideSteps ==
  ASSUME MidtransInv,
         \/ UNCHANGED mtVars
         \/ \E c \in Clients, o \in Orders : \E i \in 1 .. SegmentCount(o) : CheckoutRead(c, o, i)
         \/ \E c \in Clients : CheckoutFail(c)
         \/ \E p \in Payments : WindowLapses(p) \/ Verify(p) \/ CustomerPays(p)
         \/ \E p \in Payments, s \in MtStatuses : TransactionEnds(p, s)
  PROVE  MidtransInv'
<1>1. pay' = pay
  BY DEF mtVars, vars, CheckoutRead, CheckoutFail, WindowLapses, Verify, CustomerPays,
         TransactionEnds
<1> DEFINE Advances ==
             /\ mt' \in [Payments -> MtStatuses \cup {"none"}]
             /\ \A p \in Payments :
                  /\ mt[p] \in {"settlement", "refund"} => mt'[p] \in {"settlement", "refund"}
                  /\ mt'[p] # "none" <=> mt[p] # "none"
           Verifies ==
             /\ verified' \subseteq Payments \X MtStatuses
             /\ \A p \in Payments, s \in MtStatuses : <<p, s>> \in verified' =>
                  <<p, s>> \in verified \/ (mt' = mt /\ mt[p] = s /\ s # "none")
           Plans ==
             /\ plan' \in [Clients ->
                            [order : Orders \cup {0}, seq : Nat, stale : Payments \cup {0}]]
             /\ PlansAreSegments'
<1>2. Advances
  <2>t. mt \in [Payments -> MtStatuses \cup {"none"}]
    BY DEF MidtransInv, MidtransTypes
  <2>1. CASE mt' = mt
    BY <2>t, <2>1
  <2>2. ASSUME NEW p \in Payments, NEW s \in MtStatuses, TransactionEnds(p, s)
        PROVE  Advances
    BY <2>t, <2>2 DEF TransactionEnds, MtStatuses
  <2>3. ASSUME NEW p \in Payments, CustomerPays(p)
        PROVE  Advances
    BY <2>t, <2>3 DEF CustomerPays, MtStatuses
  <2> QED BY <2>1, <2>2, <2>3
          DEF mtVars, midtrans, CheckoutRead, CheckoutFail, WindowLapses, Verify
<1>3. Verifies
  <2>t. /\ verified \subseteq Payments \X MtStatuses
        /\ mt \in [Payments -> MtStatuses \cup {"none"}]
    BY DEF MidtransInv, MidtransTypes
  <2>1. CASE verified' = verified
    BY <2>t, <2>1
  <2>2. ASSUME NEW p \in Payments, Verify(p) PROVE Verifies
    BY <2>t, <2>2 DEF Verify, MtStatuses
  <2> QED BY <2>1, <2>2 DEF mtVars, midtrans, CheckoutRead, CheckoutFail, WindowLapses,
         CustomerPays, TransactionEnds
<1>4. Plans
  <2>t. /\ plan \in [Clients -> [order : Orders \cup {0}, seq : Nat, stale : Payments \cup {0}]]
        /\ PlansAreSegments
    BY DEF MidtransInv, MidtransTypes
  <2>1. CASE plan' = plan
    BY <1>1, <2>t, <2>1 DEF PlansAreSegments
  <2>2. ASSUME NEW c \in Clients, CheckoutFail(c) PROVE Plans
    <3>1. plan' = [plan EXCEPT ![c] = NoPlan]
      BY <2>2 DEF CheckoutFail
    <3>2. NoPlan \in [order : Orders \cup {0}, seq : Nat, stale : Payments \cup {0}]
      BY DEF NoPlan
    <3> QED BY <1>1, <2>t, <3>1, <3>2 DEF PlansAreSegments
  <2>3. ASSUME NEW c \in Clients, NEW o \in Orders, NEW i \in 1 .. SegmentCount(o),
               CheckoutRead(c, o, i)
        PROVE  Plans
    <3>1. PICK stale \in Payments \cup {0} :
            /\ stale # 0 => stale \in LatestAttempt(o, i)
            /\ plan' = [plan EXCEPT ![c] = [order |-> o, seq |-> i, stale |-> stale]]
      BY <2>3 DEF CheckoutRead
    <3>2. stale # 0 => pay[stale].st # "absent"
      BY <3>1 DEF LatestAttempt, Live
    <3>3. i \in Nat
      OBVIOUS
    <3>4. [order |-> o, seq |-> i, stale |-> stale]
            \in [order : Orders \cup {0}, seq : Nat, stale : Payments \cup {0}]
      BY <3>3
    <3>5. plan' \in [Clients -> [order : Orders \cup {0}, seq : Nat, stale : Payments \cup {0}]]
      BY <2>t, <3>1, <3>4
    <3>6. PlansAreSegments'
      BY <1>1, <2>t, <3>1, <3>2 DEF PlansAreSegments
    <3> QED BY <3>5, <3>6
  <2> QED BY <2>1, <2>2, <2>3 DEF mtVars, midtrans, WindowLapses, Verify, CustomerPays,
         TransactionEnds
<1>5. MidtransTypes' /\ RowsAreSegments'
  BY <1>1, <1>2, <1>3, <1>4 DEF MidtransInv, MidtransTypes, RowsAreSegments
<1>6. KnownRows' /\ CreditIsReal'
  BY <1>1, <1>2 DEF MidtransInv, KnownRows, CreditIsReal
<1>7. VerifiedIsReal'
  BY <1>2, <1>3 DEF MidtransInv, VerifiedIsReal
<1> QED BY <1>4, <1>5, <1>6, <1>7 DEF MidtransInv

-----------------------------------------------------------------------------
(* Steps that write rows                                                   *)

(* A row is written as a new segment, or keeps everything but its status;  *)
(* it is credited only when Midtrans has settled its transaction.          *)
WritesRow(q) ==
  \/ pay'[q] = pay[q] /\ mt'[q] = mt[q]
  \/ /\ pay[q].st # "absent"
     /\ \E st \in PayStatuses \ {"absent"} :
          /\ pay'[q] = [pay[q] EXCEPT !.st = st]
          /\ st = "success" => mt[q] \in {"settlement", "refund"}
     /\ mt'[q] = mt[q]
  \/ /\ pay[q].st = "absent"
     /\ \E o \in Orders : \E i \in 1 .. SegmentCount(o) : pay'[q] = Bill(o, i)
     /\ mt'[q] = "pending"

(* Writing such rows keeps the invariant, whatever else is forgotten.      *)
LEMMA WritingKeeps ==
  ASSUME MidtransInv, MidtransOnly,
         \A q \in Payments : WritesRow(q),
         pay' \in [Payments -> {pay'[q] : q \in Payments}],
         mt' \in [Payments -> MtStatuses \cup {"none"}],
         verified' \subseteq verified,
         \A c \in Clients : plan'[c] = plan[c] \/ plan'[c] = NoPlan,
         plan' \in [Clients -> [order : Orders \cup {0}, seq : Nat, stale : Payments \cup {0}]]
  PROVE  MidtransInv'
<1>1. /\ pay \in Tables /\ mt \in [Payments -> MtStatuses \cup {"none"}]
      /\ verified \subseteq Payments \X MtStatuses
      /\ \A q \in Payments : pay[q].st # "absent" =>
           /\ pay[q].rail = "midtrans" /\ pay[q].of \in Orders
           /\ pay[q].seq \in 1 .. SegmentCount(pay[q].of)
           /\ pay[q].gross = SegmentAmount(pay[q].of, pay[q].seq)
  BY DEF MidtransInv, MidtransTypes, RowsAreSegments
<1>2. ASSUME NEW o \in Orders, NEW i \in 1 .. SegmentCount(o)
      PROVE  /\ Bill(o, i) \in PayRow
             /\ Bill(o, i).st = "pending" /\ Bill(o, i).rail = "midtrans" /\ Bill(o, i).of = o
             /\ Bill(o, i).seq = i /\ Bill(o, i).gross = SegmentAmount(o, i)
  <2>1. SegmentAmount(o, i) \in Nat
    <3>1. SegmentAmount(o, i) \in 1 .. SegmentLimit /\ SegmentLimit \in Nat
      BY Segments, OrderConstants DEF MidtransOnly
    <3> QED BY <3>1
  <2>2. i \in Nat /\ "pending" \in PayStatuses /\ "midtrans" \in Rails
    BY DEF PayStatuses, Rails
  <2> QED BY <2>1, <2>2 DEF Bill, NewPay, PayRow
<1>3. ASSUME NEW q \in Payments
      PROVE  /\ pay'[q] \in PayRow
             /\ pay'[q].st # "absent" =>
                  /\ pay'[q].rail = "midtrans" /\ pay'[q].of \in Orders
                  /\ pay'[q].seq \in 1 .. SegmentCount(pay'[q].of)
                  /\ pay'[q].gross = SegmentAmount(pay'[q].of, pay'[q].seq)
             /\ pay[q].st # "absent" => pay'[q].st # "absent"
             /\ mt'[q] # "none" => pay'[q].st # "absent"
             /\ pay'[q].st = "success" => mt'[q] \in {"settlement", "refund"}
             /\ mt[q] \in {"settlement", "refund"} => mt'[q] \in {"settlement", "refund"}
             /\ mt[q] # "none" => mt'[q] # "none"
  <2>r. /\ pay[q] \in PayRow
        /\ pay[q].st = "success" => mt[q] \in {"settlement", "refund"}
        /\ mt[q] # "none" => pay[q].st # "absent"
    BY <1>1 DEF MidtransInv, CreditIsReal, KnownRows, Tables
  <2>1. CASE pay'[q] = pay[q] /\ mt'[q] = mt[q]
    BY <1>1, <2>r, <2>1 DEF MidtransInv, CreditIsReal
  <2>2. CASE /\ pay[q].st # "absent"
             /\ \E st \in PayStatuses \ {"absent"} :
                  /\ pay'[q] = [pay[q] EXCEPT !.st = st]
                  /\ st = "success" => mt[q] \in {"settlement", "refund"}
             /\ mt'[q] = mt[q]
    <3>1. PICK st \in PayStatuses \ {"absent"} :
            /\ pay'[q] = [pay[q] EXCEPT !.st = st]
            /\ st = "success" => mt[q] \in {"settlement", "refund"}
      BY <2>2
    <3>2. /\ pay'[q].of = pay[q].of /\ pay'[q].rail = pay[q].rail /\ pay'[q].seq = pay[q].seq
          /\ pay'[q].gross = pay[q].gross /\ pay'[q].st = st /\ pay'[q] \in PayRow
      BY <2>r, <3>1 DEF PayRow
    <3> QED BY <1>1, <2>2, <3>1, <3>2
  <2>3. CASE /\ pay[q].st = "absent"
             /\ \E o \in Orders : \E i \in 1 .. SegmentCount(o) : pay'[q] = Bill(o, i)
             /\ mt'[q] = "pending"
    <3>1. PICK o \in Orders : \E i \in 1 .. SegmentCount(o) : pay'[q] = Bill(o, i)
      BY <2>3
    <3>2. PICK i \in 1 .. SegmentCount(o) : pay'[q] = Bill(o, i)
      BY <3>1
    <3>3. mt[q] = "none"
      BY <1>1, <2>r, <2>3
    <3> QED BY <1>2, <2>3, <3>2, <3>3
  <2> QED BY <2>1, <2>2, <2>3 DEF WritesRow
<1>4. MidtransTypes'
  <2>1. pay' \in Tables
    BY <1>3 DEF Tables
  <2>2. verified' \subseteq Payments \X MtStatuses
    BY <1>1
  <2> QED BY <2>1, <2>2 DEF MidtransTypes
<1>5. RowsAreSegments' /\ KnownRows' /\ CreditIsReal'
  BY <1>3 DEF RowsAreSegments, KnownRows, CreditIsReal
<1>6. VerifiedIsReal'
  BY <1>3 DEF MidtransInv, VerifiedIsReal
<1>7. PlansAreSegments'
  <2> SUFFICES ASSUME NEW c \in Clients, plan'[c] # NoPlan
               PROVE  /\ plan'[c].order \in Orders
                      /\ plan'[c].seq \in 1 .. SegmentCount(plan'[c].order)
                      /\ plan'[c].stale # 0 => pay'[plan'[c].stale].st # "absent"
    BY DEF PlansAreSegments
  <2>1. plan'[c] = plan[c]
    OBVIOUS
  <2>2. /\ plan[c].order \in Orders
        /\ plan[c].seq \in 1 .. SegmentCount(plan[c].order)
        /\ plan[c].stale # 0 => pay[plan[c].stale].st # "absent"
    BY <2>1 DEF MidtransInv, PlansAreSegments
  <2>3. plan[c].stale \in Payments \cup {0}
    BY DEF MidtransInv, MidtransTypes
  <2> QED BY <1>3, <2>1, <2>2, <2>3
<1> QED BY <1>4, <1>5, <1>6, <1>7 DEF MidtransInv

(* A checkout commits its segment and expires the attempt it had read.     *)
LEMMA CheckoutCommitKeeps ==
  ASSUME MidtransInv, MidtransOnly, NEW c \in Clients, NEW p \in Payments, CheckoutCommit(c, p)
  PROVE  MidtransInv'
<1>1. /\ pay \in Tables /\ mt \in [Payments -> MtStatuses \cup {"none"}]
      /\ plan \in [Clients -> [order : Orders \cup {0}, seq : Nat, stale : Payments \cup {0}]]
  BY DEF MidtransInv, MidtransTypes
<1>2. /\ plan[c].order \in Orders
      /\ plan[c].seq \in 1 .. SegmentCount(plan[c].order)
      /\ plan[c].stale # 0 => pay[plan[c].stale].st # "absent"
  BY DEF MidtransInv, PlansAreSegments, CheckoutCommit
<1>3. /\ pay[p].st = "absent" /\ mt' = [mt EXCEPT ![p] = "pending"]
      /\ plan' = [plan EXCEPT ![c] = NoPlan] /\ verified' = verified
  BY DEF CheckoutCommit, Unused
<1>4. \A q \in Payments :
        pay'[q] = IF q = p THEN Bill(plan[c].order, plan[c].seq)
                  ELSE IF q = plan[c].stale THEN [pay[q] EXCEPT !.st = "expired"]
                  ELSE pay[q]
  BY DEF CheckoutCommit
<1>5. ASSUME NEW q \in Payments PROVE WritesRow(q)
  <2>1. CASE q = p
    BY <1>1, <1>2, <1>3, <1>4, <2>1 DEF WritesRow
  <2>2. CASE q # p /\ q = plan[c].stale
    <3>1. pay[q].st # "absent"
      BY <1>2, <2>2, RowIds
    <3>2. "expired" \in PayStatuses \ {"absent"}
      BY DEF PayStatuses
    <3>3. pay'[q] = [pay[q] EXCEPT !.st = "expired"] /\ mt'[q] = mt[q]
      BY <1>1, <1>3, <1>4, <2>2
    <3> QED BY <3>1, <3>2, <3>3 DEF WritesRow
  <2>3. CASE q # p /\ q # plan[c].stale
    BY <1>1, <1>3, <1>4, <2>3 DEF WritesRow
  <2> QED BY <2>1, <2>2, <2>3
<1>6. /\ mt' \in [Payments -> MtStatuses \cup {"none"}]
      /\ plan' \in [Clients -> [order : Orders \cup {0}, seq : Nat, stale : Payments \cup {0}]]
      /\ \A d \in Clients : plan'[d] = plan[d] \/ plan'[d] = NoPlan
  <2>1. NoPlan \in [order : Orders \cup {0}, seq : Nat, stale : Payments \cup {0}]
    BY DEF NoPlan
  <2>2. "pending" \in MtStatuses
    BY DEF MtStatuses
  <2> QED BY <1>1, <1>3, <2>1, <2>2
<1>7. pay' \in [Payments -> {pay'[q] : q \in Payments}]
  BY DEF CheckoutCommit
<1> QED BY <1>3, <1>5, <1>6, <1>7, WritingKeeps

(* Continuing does the same under the locks.                               *)
LEMMA ContinueMidtransKeeps ==
  ASSUME MidtransInv, MidtransOnly, NEW o \in Orders, NEW p \in Payments,
         NEW i \in 1 .. SegmentCount(o), ContinueMidtrans(o, i, p)
  PROVE  MidtransInv'
<1>1. /\ pay \in Tables /\ mt \in [Payments -> MtStatuses \cup {"none"}]
      /\ plan \in [Clients -> [order : Orders \cup {0}, seq : Nat, stale : Payments \cup {0}]]
  BY DEF MidtransInv, MidtransTypes
<1>2. /\ pay[p].st = "absent" /\ mt' = [mt EXCEPT ![p] = "pending"]
      /\ plan' = plan /\ verified' = verified
  BY DEF ContinueMidtrans, Unused
<1>3. \A q \in Payments :
        pay'[q] = IF q = p THEN Bill(o, i)
                  ELSE IF q \in LatestAttempt(o, i) /\ Outdated(q)
                       THEN [pay[q] EXCEPT !.st = "expired"]
                  ELSE pay[q]
  BY DEF ContinueMidtrans
<1>4. ASSUME NEW q \in Payments PROVE WritesRow(q)
  <2>1. CASE q = p
    BY <1>1, <1>2, <1>3, <2>1 DEF WritesRow
  <2>2. CASE q # p /\ q \in LatestAttempt(o, i) /\ Outdated(q)
    <3>1. pay[q].st # "absent"
      BY <2>2 DEF LatestAttempt, Live
    <3>2. "expired" \in PayStatuses \ {"absent"}
      BY DEF PayStatuses
    <3>3. pay'[q] = [pay[q] EXCEPT !.st = "expired"] /\ mt'[q] = mt[q]
      BY <1>1, <1>2, <1>3, <2>2
    <3> QED BY <3>1, <3>2, <3>3 DEF WritesRow
  <2>3. CASE q # p /\ ~(q \in LatestAttempt(o, i) /\ Outdated(q))
    BY <1>1, <1>2, <1>3, <2>3 DEF WritesRow
  <2> QED BY <2>1, <2>2, <2>3
<1>5. mt' \in [Payments -> MtStatuses \cup {"none"}]
  BY <1>1, <1>2 DEF MtStatuses
<1>6. pay' \in [Payments -> {pay'[q] : q \in Payments}]
  BY DEF ContinueMidtrans
<1> QED BY <1>1, <1>2, <1>4, <1>5, <1>6, WritingKeeps

(* A verified notification credits a row only of a settled transaction.    *)
LEMMA ApplyMidtransKeeps ==
  ASSUME MidtransInv, MidtransOnly, NEW p \in Payments, NEW s \in MtStatuses, Apply(p, s)
  PROVE  MidtransInv'
<1>1. /\ pay \in Tables /\ mt \in [Payments -> MtStatuses \cup {"none"}]
      /\ plan \in [Clients -> [order : Orders \cup {0}, seq : Nat, stale : Payments \cup {0}]]
      /\ \A q \in Payments : pay[q] \in PayRow
  BY DEF MidtransInv, MidtransTypes, Tables
<1>2. verified' \subseteq verified /\ mt' = mt /\ plan' = plan
  BY DEF Apply
<1>3. s = "settlement" => mt[p] \in {"settlement", "refund"}
  BY DEF MidtransInv, VerifiedIsReal, Apply
<1>v. mt[p] # "none"
  BY DEF MidtransInv, VerifiedIsReal, Apply
<1>4. CASE MidtransNotify(p, s)
  <2>1. pay' = [pay EXCEPT ![p].st = MidtransResult(s)] /\ pay[p].rail = "midtrans"
    BY <1>4 DEF MidtransNotify, Reconcile
  <2>2. /\ MidtransResult(s) \in PayStatuses \ {"absent"}
        /\ MidtransResult(s) = "success" => s = "settlement"
    BY DEF MidtransResult, MtStatuses, PayStatuses
  <2>3. pay[p].st # "absent"
    BY <1>v DEF MidtransInv, KnownRows
  <2>4. \A q \in Payments : WritesRow(q)
    BY <1>1, <1>2, <1>3, <2>1, <2>2, <2>3 DEF WritesRow, Tables
  <2>5. pay' \in [Payments -> {pay'[q] : q \in Payments}]
    BY <1>1, <2>1 DEF Tables
  <2> QED BY <1>1, <1>2, <2>4, <2>5, WritingKeeps
<1>5. CASE UNCHANGED vars
  <2>1. pay' = pay
    BY <1>5 DEF vars
  <2>2. \A q \in Payments : WritesRow(q)
    BY <1>2, <2>1 DEF WritesRow
  <2>3. pay' \in [Payments -> {pay'[q] : q \in Payments}]
    BY <1>1, <2>1 DEF Tables
  <2> QED BY <1>1, <1>2, <2>2, <2>3, WritingKeeps
<1> QED BY <1>4, <1>5 DEF Apply

(* The owner's cancellation credits nothing.                               *)
LEMMA CancelMidtransKeeps ==
  ASSUME MidtransInv, MidtransOnly, NEW o \in Orders, UserCancel(o), UNCHANGED midtrans
  PROVE  MidtransInv'
<1>1. /\ pay \in Tables /\ mt \in [Payments -> MtStatuses \cup {"none"}]
      /\ plan \in [Clients -> [order : Orders \cup {0}, seq : Nat, stale : Payments \cup {0}]]
      /\ mt' = mt /\ plan' = plan /\ verified' = verified
  BY DEF MidtransInv, MidtransTypes, midtrans
<1>2. "canceled" \in PayStatuses \ {"absent"}
  BY DEF PayStatuses
<1>3. \A q \in Payments :
        \/ pay'[q] = pay[q]
        \/ pay[q].st # "absent" /\ pay'[q] = [pay[q] EXCEPT !.st = "canceled"]
  BY DEF UserCancel, Live
<1>4. \A q \in Payments : WritesRow(q)
  BY <1>1, <1>2, <1>3 DEF WritesRow
<1>5. pay' \in [Payments -> {pay'[q] : q \in Payments}]
  BY DEF UserCancel
<1> QED BY <1>1, <1>4, <1>5, WritingKeeps

(* Every step of the rail keeps the invariant.                             *)
LEMMA MidtransNext ==
  ASSUME MidtransOnly, MidtransInv, [NextMidtrans]_mtVars
  PROVE  MidtransInv'
BY OutsideSteps, CheckoutCommitKeeps, ContinueMidtransKeeps, ApplyMidtransKeeps,
   CancelMidtransKeeps DEF NextMidtrans

(* The invariant of the Midtrans rail.                                     *)
THEOREM MidtransInvariant ==
  ASSUME MidtransOnly
  PROVE  SpecMidtrans => []MidtransInv
BY MidtransStarts, MidtransNext, PTL DEF SpecMidtrans

(* Midtrans has settled every transaction the ledger credits               *)
(* (handle_midtrans_notification asks Midtrans before it believes).        *)
THEOREM CreditsAreReal ==
  ASSUME MidtransOnly
  PROVE  SpecMidtrans => []CreditIsReal
<1>1. MidtransInv => CreditIsReal
  BY DEF MidtransInv
<1> QED BY <1>1, MidtransInvariant, PTL

(* However many unlocked checkouts run at once, an order's credit is its   *)
(* settled segments: never more than its total, and all of it exactly when *)
(* every segment of _segment_plan is settled.                              *)
THEOREM CreditsAreWholeSegments ==
  ASSUME MidtransOnly
  PROVE  SpecMidtrans => []CreditIsWholeSegments
<1>1. MidtransInv => CreditIsWholeSegments
  BY WholeSegments DEF MidtransInv, MidtransTypes
<1> QED BY <1>1, MidtransInvariant, PTL
=============================================================================
