------------------------------- MODULE Ledger -------------------------------
(***************************************************************************)
(* Every handler of app/modules/payments that takes the order's row lock   *)
(* before it computes or writes money: hosted DOKU checkout, the webhooks  *)
(* of all gateways, manual transfers, offline receipts, the organizer's    *)
(* transaction commands, a user's cancel and continue, and the             *)
(* registration commands that read or race with the result.                *)
(*                                                                         *)
(* A handler that keeps the lock from its first read to its commit is one  *)
(* action.  Three are not, and are split at the point where others run:    *)
(*   - create_doku_checkout commits its reservation before it calls DOKU   *)
(*     (HostedReserve, then HostedAnswer or HostedNoAnswer);               *)
(*   - handle_doku_notification finds its payment row before it waits for  *)
(*     the order lock (DokuFind, then DokuApply);                          *)
(*   - a user's cancellation of a registration reads and writes without a  *)
(*     lock (RegCancelRead, then RegCancelWrite).                          *)
(* Gateways notify anything about any row they know, in any order and any  *)
(* number of times.                                                        *)
(***************************************************************************)
EXTENDS LedgerState

VARIABLES
  calls,    \* hosted payments whose reservation waits for DOKU's HTTP answer
  found,    \* rows a DOKU notification has found, and waits for the order lock
  leaving,  \* registrations whose owner's cancellation has passed its check
  mtSeen    \* Midtrans event ids: payment and transaction status

vars == <<ord, pay, reg, sel, calls, found, leaving, mtSeen>>

DokuStatuses == {"SUCCESS", "FAILED", "CANCELLED", "EXPIRED", "OTHER"}
MtStatuses   == {"settlement", "pending", "expire", "deny", "refund"}
DokuRails    == {"doku", "va"}

TypeOK ==
  /\ ord \in [Orders -> OrderRow]
  /\ pay \in [Payments -> PayRow]
  /\ reg \in [Regs -> RegStatuses]
  /\ sel \in [Regs -> [Packages -> Orders \cup {0}]]
  /\ calls \subseteq Payments
  /\ found \subseteq Payments
  /\ leaving \subseteq Regs
  /\ mtSeen \subseteq Payments \X MtStatuses

(* A ledger is well formed when every row has its order and its provider,  *)
(* and manual rows carry no sequence.                                      *)
Linked(O, P) ==
  /\ \A p \in Payments : P[p].st = "absent" <=> P[p].rail = "none"
  /\ \A p \in Payments : P[p].st # "absent" =>
       P[p].of \in Orders /\ O[P[p].of].st # "absent"
  /\ \A p \in Payments : P[p].rail = "manual" => P[p].seq = 0

RowsLinked ==
  /\ Linked(ord, pay)
  /\ \A p \in calls \cup found : pay[p].st # "absent"

Init ==
  /\ \E s \in Openings :
       ord = s.ord /\ pay = s.pay /\ reg = s.reg /\ sel = s.sel
  /\ calls = {}
  /\ found = {}
  /\ leaving = {}
  /\ mtSeen = {}

-----------------------------------------------------------------------------
(* Hosted DOKU checkout                                                    *)

(* create_doku_checkout by order_id, up to the commit before the HTTP call *)
HostedReserve(o, p) ==
  /\ ord[o].st \in {"draft", "pending", "partially_paid"}
  /\ Active(pay, o) = {}
  /\ Remaining(pay, o) > 0
  /\ Unused(p)
  /\ pay' = [pay EXCEPT ![p] = HostedBill(o)]
  /\ ord' = [ord EXCEPT ![o].st = IF @ = "draft" THEN "pending" ELSE @]
  /\ calls' = calls \cup {p}
  /\ UNCHANGED <<reg, sel, found, leaving, mtSeen>>

(* DOKU answered with a URL: the row is re-read under lock, because a      *)
(* webhook may have settled it meanwhile.                                  *)
HostedAnswer(p) ==
  /\ p \in calls
  /\ pay' = [pay EXCEPT ![p].st = IF @ = "created" THEN "pending" ELSE @]
  /\ calls' = calls \ {p}
  /\ UNCHANGED <<ord, reg, sel, found, leaving, mtSeen>>

(* Timeout, HTTP error, missing URL, or the process died during the call:  *)
(* the committed reservation stays as it is.                               *)
HostedNoAnswer(p) ==
  /\ p \in calls
  /\ calls' = calls \ {p}
  /\ UNCHANGED <<ord, pay, reg, sel, found, leaving, mtSeen>>

\* A slip: only rows that still look open are found.
DokuFindOpen(p) ==
  /\ pay[p].rail \in DokuRails
  /\ ~pay[p].del
  /\ pay[p].st \in {"created", "pending"}
  /\ found' = found \cup {p}
  /\ UNCHANGED <<ord, pay, reg, sel, calls, leaving, mtSeen>>

(* handle_doku_notification, up to the wait for the order lock: the row is *)
(* looked up without a lock among the rows that are not deleted.  At most  *)
(* one notification waits per row.                                         *)
DokuFind(p) ==
  /\ pay[p].rail \in DokuRails
  /\ ~pay[p].del
  /\ found' = found \cup {p}
  /\ UNCHANGED <<ord, pay, reg, sel, calls, leaving, mtSeen>>

\* Slips: the last notification wins; the provider's word is stored as it is.
DokuResultLastWins(row, s) ==
  IF s = "SUCCESS" THEN "success"
  ELSE IF row.rail = "doku" /\ s = "FAILED" THEN "pending"
  ELSE IF s \in {"FAILED", "CANCELLED"} THEN "failed"
  ELSE IF s = "EXPIRED" THEN "expired"
  ELSE "other"

DokuResult(row, s) ==
  IF row.st = "success" THEN "success"
  ELSE IF s = "SUCCESS" THEN "success"
  ELSE IF row.rail = "doku" /\ s = "FAILED" THEN "pending"
  ELSE IF s \in {"FAILED", "CANCELLED"} THEN "failed"
  ELSE IF s = "EXPIRED" THEN "expired"
  ELSE "other"

(* ... and from the lock to the commit, with any status.                   *)
DokuApply(p, s) ==
  /\ p \in found
  /\ Reconcile([pay EXCEPT ![p].st = DokuResult(pay[p], s)], pay[p].of)
  /\ found' = found \ {p}
  /\ UNCHANGED <<calls, leaving, mtSeen>>

-----------------------------------------------------------------------------
(* The webhooks that lock their row as they look it up                     *)

(* handle_doku_snap_va_notification: the notified amount is the row's      *)
VaNotify(p) ==
  /\ pay[p].rail = "va"
  /\ ~pay[p].del
  /\ Reconcile([pay EXCEPT ![p].st = "success"], pay[p].of)
  /\ UNCHANGED <<calls, found, leaving, mtSeen>>

(* handle_doku_snap_direct_debit_notification compares the amount with the *)
(* order's total: direct debit charges that total, a QRIS code its segment *)
DebitNotify(p, s) ==
  /\ pay[p].rail \in {"debit", "qris"}
  /\ ~pay[p].del
  /\ pay[p].rail = "qris" => pay[p].gross = Total[pay[p].of]
  /\ Reconcile([pay EXCEPT ![p].st =
                  CASE s = "SUCCESS" -> "success"
                    [] s \in {"FAILED", "CANCELLED"} -> "failed"
                    [] OTHER -> @],
               pay[p].of)
  /\ UNCHANGED <<calls, found, leaving, mtSeen>>

\* A slip: the provider's word is stored as it is.
MidtransResultRaw(s) == s

MidtransResult(s) ==
  CASE s = "settlement" -> "success"
    [] s = "deny"       -> "failed"
    [] s = "expire"     -> "expired"
    [] s = "refund"     -> "refunded"
    [] s = "pending"    -> "pending"

(* handle_midtrans_notification after its status check: one event id per   *)
(* transaction and status, and every new one is written over the row.      *)
MidtransNotify(p, s) ==
  /\ pay[p].rail = "midtrans"
  /\ ~pay[p].del
  /\ <<p, s>> \notin mtSeen
  /\ Reconcile([pay EXCEPT ![p].st = MidtransResult(s)], pay[p].of)
  /\ mtSeen' = mtSeen \cup {<<p, s>>}
  /\ UNCHANGED <<calls, found, leaving>>

-----------------------------------------------------------------------------
(* Manual transfers and offline receipts                                   *)

(* submit_manual_payment_proof, on the latest manual row or on a new one   *)
SubmitProof(o, p) ==
  /\ ord[o].st \in {"draft", "pending", "partially_paid"}
  /\ \/ /\ p \in LatestManual(o)
        /\ pay' = [pay EXCEPT ![p].st = "pending"]
     \/ /\ LatestManual(o) = {}
        /\ Unused(p)
        /\ pay' = [pay EXCEPT ![p] = NewPay(o, "manual", "pending", Total[o], 0)]
  /\ ord' = [ord EXCEPT ![o].st = IF @ = "draft" THEN "pending" ELSE @]
  /\ UNCHANGED <<reg, sel, calls, found, leaving, mtSeen>>

ConfirmManual(o, p) ==
  /\ ord[o].st \in {"draft", "pending", "partially_paid"}
  /\ \/ /\ p \in LatestManual(o)
        /\ Reconcile([pay EXCEPT ![p].st = "success"], o)
     \/ /\ LatestManual(o) = {}
        /\ Unused(p)
        /\ Reconcile([pay EXCEPT ![p] = NewPay(o, "manual", "success", Total[o], 0)], o)
  /\ UNCHANGED <<calls, found, leaving, mtSeen>>

(* create_offline_registration_payment with a fresh receipt number, up to  *)
(* its commit: the receipt settles the exact remainder of the latest       *)
(* delegate order, which is created if the registration has none.  A       *)
(* receipt filed as a manual transfer is a manual row to the handlers      *)
(* above.                                                                  *)
OfflineOrder(r, o) ==
  \/ o \in DelegateOrders(r) /\ \A x \in DelegateOrders(r) : x <= o
  \/ /\ DelegateOrders(r) = {}
     /\ ~Exists(o) /\ RegOf[o] = r /\ Kind[o] = "main_registration"

OfflinePay(r, o, p, rail) ==
  /\ reg[r] # "canceled"
  /\ OfflineOrder(r, o)
  /\ Remaining(pay, o) > 0
  /\ Unused(p)
  /\ Reconcile([pay EXCEPT ![p] = NewPay(o, rail, "success", Remaining(pay, o), 0)], o)
  /\ ord'[o].st = "paid"
  /\ UNCHANGED <<calls, found, leaving, mtSeen>>

-----------------------------------------------------------------------------
(* The organizer's transaction commands                                    *)

AdminSuccess(p) ==
  /\ MaySucceed(p)
  /\ Reconcile([pay EXCEPT ![p].st = "success"], pay[p].of)
  /\ UNCHANGED <<calls, found, leaving, mtSeen>>

(* With nothing settled the whole order is closed by the organizer.        *)
AdminCancel(p) ==
  /\ MayCancel(p)
  /\ LET o == pay[p].of
         P == [pay EXCEPT ![p].st = "canceled"]
         s == StatusAfter(ord[o].st, P, o)
     IN  /\ pay' = P
         /\ ord' = [ord EXCEPT ![o] =
                      IF Paid(P, o) = 0 THEN [st |-> "canceled", by |-> TRUE]
                      ELSE OrderAfter(@, P, o)]
         /\ reg' = RegAfter(o, s)
         /\ sel' = SelAfter(o, s)
  /\ UNCHANGED <<calls, found, leaving, mtSeen>>

AdminDelete(p) ==
  /\ MayCancel(p)
  /\ Reconcile([pay EXCEPT ![p].del = TRUE], pay[p].of)
  /\ UNCHANGED <<calls, found, leaving, mtSeen>>

-----------------------------------------------------------------------------
(* The user's order commands                                               *)

UserCancel(o) ==
  /\ ord[o].st \notin {"absent", "paid"}
  /\ Settled(pay, o) = {}
  /\ ~(ord[o].st = "canceled" /\ ord[o].by)
  /\ ord' = [ord EXCEPT ![o] = [st |-> "canceled", by |-> TRUE]]
  /\ pay' = [p \in Payments |->
               IF p \in Live(pay, o) /\ pay[p].st \in {"created", "pending"}
               THEN [pay[p] EXCEPT !.st = "canceled"] ELSE pay[p]]
  /\ UNCHANGED <<reg, sel, calls, found, leaving, mtSeen>>

(* continue_user_order_payment with nothing left to pay: the reconciled    *)
(* order is committed and the request refused.                             *)
ContinueSettled(o) ==
  /\ MayContinue(o)
  /\ Remaining(pay, o) = 0
  /\ Reconcile(pay, o)
  /\ UNCHANGED <<calls, found, leaving, mtSeen>>

(* ... and with DOKU: the order is reopened and a hosted bill reserved in  *)
(* one commit.  When the checkout reuses a page or refuses, nothing is     *)
(* committed.                                                              *)
ContinueHosted(o, p) ==
  /\ MayContinue(o)
  /\ Remaining(pay, o) > 0
  /\ Active(pay, o) = {}
  /\ Unused(p)
  /\ pay' = [pay EXCEPT ![p] = HostedBill(o)]
  /\ ord' = [ord EXCEPT ![o] =
               [st |-> IF Settled(pay, o) # {} THEN "partially_paid" ELSE "pending",
                by |-> FALSE]]
  /\ reg' = RegAfter(o, StatusAfter(ord[o].st, pay, o))
  /\ sel' = SelAfter(o, StatusAfter(ord[o].st, pay, o))
  /\ calls' = calls \cup {p}
  /\ UNCHANGED <<found, leaving, mtSeen>>

-----------------------------------------------------------------------------
(* The registration commands                                               *)

PaidDelegateOrder(r) == \E o \in DelegateOrders(r) : ord[o].st = "paid"

RegVerify(r) ==
  /\ reg[r] = "submitted"
  /\ reg' = [reg EXCEPT ![r] = "verified"]
  /\ UNCHANGED <<ord, pay, sel, calls, found, leaving, mtSeen>>

RegReject(r) ==
  /\ reg[r] \in {"submitted", "verified"}
  /\ reg' = [reg EXCEPT ![r] = "rejected"]
  /\ UNCHANGED <<ord, pay, sel, calls, found, leaving, mtSeen>>

RegConfirm(r) ==
  /\ reg[r] \in {"verified", "paid"}
  /\ PaidDelegateOrder(r)
  /\ reg' = [reg EXCEPT ![r] = "confirmed"]
  /\ UNCHANGED <<ord, pay, sel, calls, found, leaving, mtSeen>>

RegCancelRead(r) ==
  /\ reg[r] \notin {"confirmed", "canceled"}
  /\ leaving' = leaving \cup {r}
  /\ UNCHANGED <<ord, pay, reg, sel, calls, found, mtSeen>>

RegCancelWrite(r) ==
  /\ r \in leaving
  /\ reg' = [reg EXCEPT ![r] = "canceled"]
  /\ leaving' = leaving \ {r}
  /\ UNCHANGED <<ord, pay, sel, calls, found, mtSeen>>

-----------------------------------------------------------------------------
Next ==
  \/ \E o \in Orders, p \in Payments :
       \/ HostedReserve(o, p)
       \/ SubmitProof(o, p)
       \/ ConfirmManual(o, p)
       \/ ContinueHosted(o, p)
  \/ \E p \in Payments :
       \/ HostedAnswer(p)
       \/ HostedNoAnswer(p)
       \/ DokuFind(p)
       \/ VaNotify(p)
       \/ AdminSuccess(p)
       \/ AdminCancel(p)
       \/ AdminDelete(p)
  \/ \E p \in Payments, s \in DokuStatuses : DokuApply(p, s) \/ DebitNotify(p, s)
  \/ \E p \in Payments, s \in MtStatuses : MidtransNotify(p, s)
  \/ \E o \in Orders : UserCancel(o) \/ ContinueSettled(o)
  \/ \E r \in Regs, o \in Orders, p \in Payments, rail \in OfflineRails :
       OfflinePay(r, o, p, rail)
  \/ \E r \in Regs :
       \/ RegVerify(r)
       \/ RegReject(r)
       \/ RegConfirm(r)
       \/ RegCancelRead(r)
       \/ RegCancelWrite(r)

Spec == Init /\ [][Next]_vars

-----------------------------------------------------------------------------
(* An order is paid exactly when the counted settled rows cover a positive *)
(* total, whatever sequence of webhooks, receipts, refunds, deletions and  *)
(* reopenings led there (_reconcile_order_payment after every change of    *)
(* settled money).                                                         *)
Covered(P, o) == Paid(P, o) > 0 /\ Remaining(P, o) = 0

PaidIffCovered ==
  \A o \in Orders : Exists(o) => (ord[o].st = "paid" <=> Covered(pay, o))

(* Money never sits on a closed or untouched order: an order with settled  *)
(* money is paid or partially paid, so no cancellation, expiry or deletion *)
(* can hide what a participant has paid.                                   *)
MoneyKeepsOrderOpen ==
  \A o \in Orders : Paid(pay, o) > 0 => ord[o].st \in {"paid", "partially_paid"}

(* A registration shows paid only while a main order of it is paid, also   *)
(* after refunds and with several orders on one registration.              *)
RegPaidIsBacked ==
  \A r \in Regs : reg[r] = "paid" =>
    \E o \in Orders : RegOf[o] = r /\ Kind[o] # "additional" /\ ord[o].st = "paid"

(* Every package of a paid additional order is held by its registration.   *)
PaidEntitles ==
  \A o \in Orders : ord[o].st = "paid" /\ Kind[o] = "additional" =>
    \A k \in ItemsOf[o] : sel[RegOf[o]][k] # 0

(* The inductive invariant of the proofs: LegalOpenings asks of a ledger   *)
(* to start from what LedgerInv keeps.                                     *)
LedgerInv ==
  /\ TypeOK
  /\ RowsLinked
  /\ PaidIffCovered
  /\ MoneyKeepsOrderOpen
  /\ RegPaidIsBacked
  /\ PaidEntitles

ASSUME LegalOpenings ==
  \A s \in Openings :
    /\ s.ord \in [Orders -> OrderRow]
    /\ s.pay \in [Payments -> PayRow]
    /\ s.reg \in [Regs -> RegStatuses \ {"paid"}]
    /\ s.sel \in [Regs -> [Packages -> Orders \cup {0}]]
    /\ Linked(s.ord, s.pay)
    /\ \A o \in Orders : s.ord[o].st # "paid" /\ Paid(s.pay, o) = 0

(* A settled row is never a deleted one: delete_transaction refuses to     *)
(* remove money, and a webhook does not find a deleted row.                *)
SettledIsKept == \A p \in Payments : pay[p].st = "success" => ~pay[p].del

(* An order closed by its owner or the organizer reopens only with settled *)
(* money behind it.                                                        *)
Closed(o) == ord[o].st = "canceled" /\ ord[o].by

ReopensOnlyWithMoney ==
  [][\A o \in Orders : Closed(o) /\ ~Closed(o)' => Paid(pay', o) > 0]_vars

(* A settled hosted bill stays settled: no later notification, answer,     *)
(* cancellation or deletion undoes it.                                     *)
HostedSuccessStays ==
  [][\A p \in Payments :
       pay[p].rail = "doku" /\ pay[p].st = "success" => pay'[p].st = "success"]_vars

(* What an order has been paid shrinks only when a settled row is taken    *)
(* back, or when an earlier attempt of a sequence that is already settled  *)
(* settles too, and for less: _payment_progress counts the earliest.       *)
PaidShrinksOnlyByReversal ==
  [][\A o \in Orders : Paid(pay', o) < Paid(pay, o) =>
       \E p \in Settled(pay, o) :
         \/ pay'[p].st # "success"
         \/ \E q \in Settled(pay', o) \ Settled(pay, o) :
              q < p /\ pay[p].seq # 0 /\ pay'[q].seq = pay[p].seq
                    /\ pay'[q].gross < pay[p].gross]_vars
=============================================================================
