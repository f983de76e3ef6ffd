---------------------------- MODULE MidtransRail ----------------------------
(***************************************************************************)
(* The Midtrans rail around the ledger.  Unlike hosted DOKU checkout, its  *)
(* checkout takes no lock: it reads the order and the attempts, talks to   *)
(* Midtrans, and commits what it decided on the rows it had read.  Its     *)
(* webhook asks Midtrans for the transaction's status before it waits for  *)
(* the row locks, and applies the answer after.                            *)
(* continue_user_order_payment runs the same checkout under its own locks. *)
(***************************************************************************)
EXTENDS Ledger

CONSTANTS
  Clients,     \* checkouts that may be under way at once
  MaxWaiting   \* bound: verified notifications that wait for locks at once

VARIABLES
  mt,        \* Midtrans' own status of a row's transaction
  lapsed,    \* rows whose expired_at has passed
  verified,  \* notifications verified with Midtrans that wait for the locks
  plan       \* what a checkout has decided on the rows it read

midtrans == <<mt, lapsed, verified, plan>>
mtVars == <<vars, midtrans>>

NoPlan == [order |-> 0, seq |-> 0, stale |-> 0]

TypeOKMidtrans ==
  /\ TypeOK
  /\ mt \in [Payments -> MtStatuses \cup {"none"}]
  /\ lapsed \subseteq Payments
  /\ verified \subseteq Payments \X MtStatuses
  /\ plan \in [Clients -> [order : Orders \cup {0}, seq : Nat, stale : Payments \cup {0}]]

InitMidtrans ==
  /\ Init
  /\ mt = [p \in Payments |-> IF pay[p].rail = "midtrans" THEN "pending" ELSE "none"]
  /\ lapsed = {}
  /\ verified = {}
  /\ plan = [c \in Clients |-> NoPlan]

-----------------------------------------------------------------------------
LatestAttempt(o, i) ==
  LET attempts == {p \in Live(pay, o) : pay[p].rail = "midtrans" /\ pay[p].seq = i}
  IN  {p \in attempts : \A q \in attempts : q <= p}

(* The Snap token is kept in raw_response, which every notification        *)
(* overwrites: an attempt that has been notified is not reusable any more. *)
Reusable(p) ==
  /\ pay[p].st \in {"created", "pending"}
  /\ p \notin lapsed
  /\ \A s \in MtStatuses : <<p, s>> \notin mtSeen

Outdated(p) == pay[p].st \in {"created", "pending"} /\ p \in lapsed

Bill(o, i) == NewPay(o, "midtrans", "pending", SegmentAmount(o, i), i)

-----------------------------------------------------------------------------
(* create_midtrans_checkout up to its HTTP call, when no token is reusable *)
CheckoutRead(c, o, i) ==
  /\ plan[c] = NoPlan
  /\ ord[o].st \in {"draft", "pending", "partially_paid"}
  /\ NextSegment(o, i)
  /\ \A p \in LatestAttempt(o, i) : ~Reusable(p)
  /\ \E stale \in Payments \cup {0} :
       /\ IF stale = 0 THEN \A p \in LatestAttempt(o, i) : ~Outdated(p)
                       ELSE stale \in LatestAttempt(o, i) /\ Outdated(stale)
       /\ plan' = [plan EXCEPT ![c] = [order |-> o, seq |-> i, stale |-> stale]]
  /\ UNCHANGED <<vars, mt, lapsed, verified>>

(* Midtrans opened the transaction; the new row, and the outdated status   *)
(* of the attempt read before, are committed without reading either again. *)
CheckoutCommit(c, p) ==
  /\ plan[c] # NoPlan
  /\ Unused(p)
  /\ pay' = [q \in Payments |->
               IF q = p THEN Bill(plan[c].order, plan[c].seq)
               ELSE IF q = plan[c].stale THEN [pay[q] EXCEPT !.st = "expired"]
               ELSE pay[q]]
  /\ mt' = [mt EXCEPT ![p] = "pending"]
  /\ plan' = [plan EXCEPT ![c] = NoPlan]
  /\ UNCHANGED <<ord, reg, sel, calls, found, leaving, mtSeen, lapsed, verified>>

(* The HTTP call failed or the process died: the transaction rolls back.   *)
CheckoutFail(c) ==
  /\ plan[c] # NoPlan
  /\ plan' = [plan EXCEPT ![c] = NoPlan]
  /\ UNCHANGED <<vars, mt, lapsed, verified>>

(* continue_user_order_payment with Midtrans: the order and its attempts   *)
(* stay locked from the first read to the commit.                          *)
ContinueMidtrans(o, i, p) ==
  /\ MayContinue(o)
  /\ Remaining(pay, o) > 0
  /\ NextSegment(o, i)
  /\ \A q \in LatestAttempt(o, i) : ~Reusable(q)
  /\ Unused(p)
  /\ pay' = [q \in Payments |->
               IF q = p THEN Bill(o, i)
               ELSE IF q \in LatestAttempt(o, i) /\ Outdated(q)
                    THEN [pay[q] EXCEPT !.st = "expired"]
               ELSE pay[q]]
  /\ ord' = [ord EXCEPT ![o] =
               [st |-> IF Settled(pay, o) # {} THEN "partially_paid" ELSE "pending",
                by |-> FALSE]]
  /\ reg' = RegAfter(o, StatusAfter(ord[o].st, pay, o))
  /\ mt' = [mt EXCEPT ![p] = "pending"]
  /\ UNCHANGED <<sel, calls, found, leaving, mtSeen, lapsed, verified, plan>>

WindowLapses(p) ==
  /\ pay[p].rail = "midtrans"
  /\ lapsed' = lapsed \cup {p}
  /\ UNCHANGED <<vars, mt, verified, plan>>

-----------------------------------------------------------------------------
\* A slip: the notified status is not compared with Midtrans' own.
VerifyTrusting(p) ==
  /\ mt[p] # "none"
  /\ Cardinality(verified) < MaxWaiting
  /\ \E s \in MtStatuses : verified' = verified \cup {<<p, s>>}
  /\ UNCHANGED <<vars, mt, lapsed, plan>>

(* handle_midtrans_notification up to its locks: the notified status must  *)
(* be the one Midtrans reports at this moment.                             *)
Verify(p) ==
  /\ mt[p] # "none"
  /\ Cardinality(verified) < MaxWaiting
  /\ verified' = verified \cup {<<p, mt[p]>>}
  /\ UNCHANGED <<vars, mt, lapsed, plan>>

(* ... and from the locks to the commit, or to "already_processed".        *)
Apply(p, s) ==
  /\ <<p, s>> \in verified
  /\ verified' = verified \ {<<p, s>>}
  /\ \/ MidtransNotify(p, s)
     \/ <<p, s>> \in mtSeen /\ UNCHANGED vars
  /\ lapsed' = IF s = "expire" THEN lapsed \cup {p} ELSE lapsed
  /\ UNCHANGED <<mt, plan>>

-----------------------------------------------------------------------------
(* Midtrans                                                                *)

CustomerPays(p) ==
  /\ mt[p] = "pending"
  /\ mt' = [mt EXCEPT ![p] = "settlement"]
  /\ UNCHANGED <<vars, lapsed, verified, plan>>

TransactionEnds(p, s) ==
  /\ \/ s \in {"deny", "expire"} /\ mt[p] = "pending"
     \/ s = "refund" /\ mt[p] = "settlement"
  /\ mt' = [mt EXCEPT ![p] = s]
  /\ UNCHANGED <<vars, lapsed, verified, plan>>

-----------------------------------------------------------------------------
NextMidtrans ==
  \/ \E c \in Clients, o \in Orders : \E i \in 1 .. SegmentCount(o) : CheckoutRead(c, o, i)
  \/ \E c \in Clients, p \in Payments : CheckoutCommit(c, p)
  \/ \E c \in Clients : CheckoutFail(c)
  \/ \E o \in Orders, p \in Payments : \E i \in 1 .. SegmentCount(o) :
       ContinueMidtrans(o, i, p)
  \/ \E p \in Payments :
       \/ WindowLapses(p)
       \/ Verify(p)
       \/ CustomerPays(p)
  \/ \E p \in Payments, s \in MtStatuses : Apply(p, s) \/ TransactionEnds(p, s)
  \/ \E o \in Orders : UserCancel(o) /\ UNCHANGED midtrans

SpecMidtrans == InitMidtrans /\ [][NextMidtrans]_mtVars

-----------------------------------------------------------------------------
(* The ledger credits a Midtrans row only when Midtrans has settled its    *)
(* transaction: the server-to-server check of the webhook.                 *)
CreditIsReal ==
  \A p \in Payments : pay[p].st = "success" => mt[p] \in {"settlement", "refund"}

(* Only a success verified by the backend is final                         *)
(* (docs/FRONTEND_MIDTRANS_PAYMENT_INTEGRATION.md): a settled row leaves   *)
(* success only when Midtrans has refunded it.                             *)
SuccessIsFinal ==
  [][\A p \in Payments :
       pay[p].st = "success" /\ mt[p] # "refund" => pay'[p].st = "success"]_mtVars

(* However many attempts run at once, an order's credit is exactly its     *)
(* settled segments, in particular never more than its total.              *)
CreditIsWholeSegments ==
  \A o \in Orders :
    Collected(pay, o) <= Total[o] /\
    (Unsettled(o) = {} <=> Total[o] > 0 /\ Remaining(pay, o) = 0)
=============================================================================
