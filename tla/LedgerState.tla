---------------------------- MODULE LedgerState ----------------------------
(***************************************************************************)
(* The rows of the payment ledger (orders, payments, registrations,        *)
(* entitlements) and the two computations every handler shares:            *)
(* _payment_progress, which turns settled payment rows into money, and     *)
(* _reconcile_order_payment, which makes the order, its registration and   *)
(* its additional packages reflect that money.                             *)
(*                                                                         *)
(* Row identifiers are naturals handed out in creation order, so "the      *)
(* latest row" is the largest identifier.  What never changes after an     *)
(* order is inserted (its registration, kind, total and items) is a        *)
(* constant of its identifier.                                             *)
(***************************************************************************)
EXTENDS Integers, FiniteSets

CONSTANTS
  Orders,       \* identifiers of orders, in creation order
  Payments,     \* identifiers of payment rows, in creation order
  Regs,         \* registrations
  NoReg,        \* "registration_id IS NULL"
  Packages,     \* additional delegate packages
  RegOf,        \* the registration an order belongs to, or NoReg
  Kind,         \* the kind of an order
  Total,        \* orders.total_amount
  ItemsOf,      \* the additional packages an order's items stand for
  SegmentLimit, \* min(QRIS_SEGMENT_LIMIT_IDR, 9,000,000)
  OfflineRails, \* provider names an offline receipt may be filed under
  Openings      \* the ledgers a behaviour may start from

VARIABLES
  ord,   \* orders: status, and whether canceled_by is set
  pay,   \* payments
  reg,   \* registrations.status
  sel    \* additional packages of a registration: the source order, or 0

ledgerVars == <<ord, pay, reg, sel>>

OrderStatuses == {"absent", "draft", "pending", "partially_paid", "paid",
                  "expired", "canceled"}
Kinds         == {"legacy", "main_registration", "additional", "exhibitor"}
PayStatuses   == {"absent", "created", "pending", "success", "failed",
                  "expired", "refunded", "canceled", "other"}
RegStatuses   == {"submitted", "verified", "rejected", "payment_pending",
                  "paid", "confirmed", "canceled"}

(* The provider and payment type of a row, as far as handlers tell them    *)
(* apart: hosted DOKU checkout, DOKU direct virtual account, DOKU direct   *)
(* debit, DOKU QRIS, Midtrans, a manual transfer, an offline receipt.      *)
Rails == {"none", "doku", "va", "debit", "qris", "midtrans", "manual", "cash"}

OrderRow == [st : OrderStatuses, by : BOOLEAN]

PayRow == [of : Orders \cup {0}, rail : Rails, st : PayStatuses,
           gross : Nat, seq : Nat, del : BOOLEAN]

NoPay == [of |-> 0, rail |-> "none", st |-> "absent", gross |-> 0,
          seq |-> 0, del |-> FALSE]

(* seq = 0 stands for payment_sequence IS NULL.                            *)
NewPay(o, rail, st, gross, seq) ==
  [of |-> o, rail |-> rail, st |-> st, gross |-> gross, seq |-> seq,
   del |-> FALSE]

ASSUME RowIds ==
  /\ Orders \subseteq Nat \ {0}
  /\ Payments \subseteq Nat \ {0}
  /\ IsFiniteSet(Payments)
  /\ NoReg \notin Regs

ASSUME OrderConstants ==
  /\ RegOf \in [Orders -> Regs \cup {NoReg}]
  /\ Kind \in [Orders -> Kinds]
  /\ Total \in [Orders -> Nat]
  /\ ItemsOf \in [Orders -> SUBSET Packages]
  /\ SegmentLimit \in Nat \ {0}
  /\ OfflineRails \subseteq {"manual", "cash"}

(* store/service.py checkout puts the active registration and at least one *)
(* package on every additional order.                                      *)
ASSUME AdditionalOrders ==
  \A o \in Orders : Kind[o] = "additional" => RegOf[o] \in Regs /\ ItemsOf[o] # {}

-----------------------------------------------------------------------------
(* _payment_progress                                                       *)

Min2(a, b) == IF a <= b THEN a ELSE b

Live(P, o) == {p \in Payments : P[p].of = o /\ P[p].st # "absent" /\ ~P[p].del}

Settled(P, o) == {p \in Payments : P[p].of = o /\ P[p].st = "success" /\ ~P[p].del}

(* A settled row counts unless an earlier settled row has its sequence.    *)
Counted(P, o) ==
  {p \in Settled(P, o) :
     P[p].seq = 0 \/ \A q \in Settled(P, o) : P[q].seq = P[p].seq => p <= q}

(* The money of a set of rows, one element per currency unit, so that its  *)
(* amount is a cardinality and not a recursive sum.                        *)
Units(P, S) == UNION {{p} \X (1 .. P[p].gross) : p \in S}

Collected(P, o) == Cardinality(Units(P, Counted(P, o)))

Paid(P, o) == Min2(Collected(P, o), Total[o])

Remaining(P, o) == Total[o] - Paid(P, o)

-----------------------------------------------------------------------------
(* _reconcile_order_payment                                                *)

\* Slips the runs must notice: any settled row pays the order; a closed order
\* stays closed whatever is paid.
StatusAfterAnySettled(st, P, o) ==
  IF Settled(P, o) # {} THEN "paid"
  ELSE IF st \in {"canceled", "expired"} THEN st
  ELSE "pending"

StatusAfterKeepsClosed(st, P, o) ==
  IF st \in {"canceled", "expired"} THEN st
  ELSE IF Remaining(P, o) = 0 /\ Paid(P, o) > 0 THEN "paid"
  ELSE IF Paid(P, o) > 0 THEN "partially_paid"
  ELSE "pending"

StatusAfter(st, P, o) ==
  IF Remaining(P, o) = 0 /\ Paid(P, o) > 0 THEN "paid"
  ELSE IF Paid(P, o) > 0 THEN "partially_paid"
  ELSE IF st \in {"canceled", "expired"} THEN st
  ELSE "pending"

OrderAfter(row, P, o) ==
  LET s == StatusAfter(row.st, P, o)
  IN  [st |-> s, by |-> row.by /\ s \notin {"paid", "partially_paid"}]

\* A slip: the registration is promoted but never taken back.
RegAfterOnlyForward(o, s) ==
  IF RegOf[o] = NoReg \/ Kind[o] = "additional" \/ s # "paid" THEN reg
  ELSE [reg EXCEPT ![RegOf[o]] = IF @ = "confirmed" THEN @ ELSE "paid"]

RegAfter(o, s) ==
  IF RegOf[o] = NoReg \/ Kind[o] = "additional" THEN reg
  ELSE [reg EXCEPT ![RegOf[o]] =
          IF @ = "confirmed" THEN @
          ELSE IF s = "paid" THEN "paid" ELSE "payment_pending"]

\* A slip: packages are activated only from a pending order.
SelAfterPendingOnly(o, s) ==
  IF s = "paid" /\ Kind[o] = "additional" /\ ord[o].st = "pending"
  THEN [sel EXCEPT ![RegOf[o]] =
          [k \in Packages |-> IF k \in ItemsOf[o] /\ @[k] = 0 THEN o ELSE @[k]]]
  ELSE sel

(* _activate_paid_additional_packages: a package the registration already  *)
(* holds is left with its first source order.                              *)
SelAfter(o, s) ==
  IF s = "paid" /\ Kind[o] = "additional"
  THEN [sel EXCEPT ![RegOf[o]] =
          [k \in Packages |-> IF k \in ItemsOf[o] /\ @[k] = 0 THEN o ELSE @[k]]]
  ELSE sel

(* The effect of the payment rows becoming P and order o being reconciled. *)
Reconcile(P, o) ==
  /\ pay' = P
  /\ ord' = [ord EXCEPT ![o] = OrderAfter(@, P, o)]
  /\ reg' = RegAfter(o, StatusAfter(ord[o].st, P, o))
  /\ sel' = SelAfter(o, StatusAfter(ord[o].st, P, o))

-----------------------------------------------------------------------------
(* Helpers of the handlers                                                 *)

Exists(o) == ord[o].st # "absent"

Unused(p) ==
  /\ pay[p].st = "absent"
  /\ \A q \in Payments : q < p => pay[q].st # "absent"

(* models.py payment_allowed_actions                                       *)
MaySucceed(p) == ~pay[p].del /\ pay[p].st \in
  {"created", "pending", "success", "failed", "expired", "canceled"}

\* A slip: the command list of a success row offers cancel and delete.
MayCancelSettled(p) == ~pay[p].del /\ pay[p].st \in
  {"created", "pending", "success", "failed", "expired", "canceled"}

MayCancel(p) == ~pay[p].del /\ pay[p].st \in
  {"created", "pending", "failed", "expired", "canceled"}

\* A slip: the owner's cancellation is not told from a legacy one.
MayContinueAnyCanceled(o) ==
  ord[o].st \in {"draft", "pending", "partially_paid", "expired", "canceled"}

(* models.py order_allowed_actions: what a user may still continue.        *)
MayContinue(o) ==
  \/ ord[o].st \in {"draft", "pending", "partially_paid", "expired"}
  \/ ord[o].st = "canceled" /\ ~ord[o].by

\* A slip: a reservation DOKU has not answered yet does not count.
ActiveAnswered(P, o) ==
  {p \in Live(P, o) :
     P[p].st \notin {"created", "success", "failed", "expired", "canceled"}}

(* An attempt whose outcome is open, of any provider, blocks a new bill.   *)
Active(P, o) ==
  {p \in Live(P, o) : P[p].st \notin {"success", "failed", "expired", "canceled"}}

(* _segment_plan and _next_payment_segment                                 *)

SegmentCount(o) ==
  IF Total[o] <= SegmentLimit THEN 1
  ELSE (Total[o] + SegmentLimit - 1) \div SegmentLimit

\* A slip: the last segment is not cut to what is left.
SegmentAmountUncut(o, i) == SegmentLimit

SegmentAmount(o, i) == Min2(SegmentLimit, Total[o] - (i - 1) * SegmentLimit)

Unsettled(o) ==
  {i \in 1 .. SegmentCount(o) : \A p \in Settled(pay, o) : pay[p].seq # i}

(* The first of them is the part to charge next.                          *)
NextSegment(o, i) == i \in Unsettled(o) /\ \A j \in Unsettled(o) : i <= j

(* _next_doku_checkout_segment: one more than the largest settled sequence *)
NextSequence(P, o) ==
  1 + (CHOOSE m \in {0} \cup {P[p].seq : p \in Settled(P, o)} :
         \A p \in Settled(P, o) : P[p].seq <= m)

HostedBill(o) ==
  NewPay(o, "doku", "created", Min2(SegmentLimit, Remaining(pay, o)),
         NextSequence(pay, o))

(* The order the offline desk settles: the latest with a delegate item.    *)
DelegateOrders(r) ==
  {o \in Orders : RegOf[o] = r /\ Exists(o) /\ Kind[o] \in {"legacy", "main_registration"}}

LatestManual(o) ==
  {p \in Live(pay, o) : /\ pay[p].rail = "manual"
                        /\ \A q \in Live(pay, o) : pay[q].rail = "manual" => q <= p}
=============================================================================
