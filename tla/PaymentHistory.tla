--------------------------- MODULE PaymentHistory ---------------------------
(***************************************************************************)
(* What people are shown of the ledger: the owner's order history, from    *)
(* which attempts of a paid order can be hidden (service.py                *)
(* delete_user_payment_attempts), the invoice, the organizers' transaction *)
(* list and payment report (reporting.py), and the notice that follows a   *)
(* change of payment (_notify_payment_status).  The commands on several    *)
(* transactions at once (bulk_transaction_action) are here too.            *)
(*                                                                         *)
(* Nothing is removed by hiding: webhooks and accounting still find a      *)
(* hidden row, so a hidden bill can be settled or refunded later.  The     *)
(* selection by account, event, package, day and page is left out.         *)
(***************************************************************************)
EXTENDS Ledger

(* create_order of a registration is what leaves orders without items.     *)
ASSUME LegacyOrders == \A o \in Orders : Kind[o] = "legacy" => RegOf[o] \in Regs

VARIABLES
  hidden,  \* payments.hidden_from_user_at is set
  told     \* how much of an order the last notice to its owner said is paid

historyVars == <<vars, hidden, told>>

HistoryInit ==
  /\ Init
  /\ hidden = {}
  /\ told = [o \in Orders |-> "nothing"]

-----------------------------------------------------------------------------
(* The views                                                               *)

\* A slip: a hidden attempt stays hidden.
ShownUnlessHidden(o) == Live(pay, o) \ hidden

(* _user_order_detail: payment_attempts.                                   *)
ShownAttempts(o) ==
  {p \in Live(pay, o) : p \notin hidden \/ pay[p].st \in {"success", "refunded"}}

Newest(S) == {p \in S : \A q \in S : q <= p}

LatestPayment(o) == Newest(ShownAttempts(o))

(* list_orders_for_user by status ("" asks for all of them).               *)
OrdersOfUser(status) == {o \in Orders : Exists(o) /\ status \in {"", ord[o].st}}

(* list_user_orders: a status that no order can have is refused.           *)
OrdersListed(status) == IF status \in OrderStatuses \cup {""} THEN OrdersOfUser(status) ELSE {}

(* get_invoice and get_my_invoices: the newest row of the registration's   *)
(* latest order, hidden or not.                                            *)
LatestOrder(r) ==
  {o \in Orders : /\ RegOf[o] = r /\ Exists(o)
                  /\ \A x \in Orders : RegOf[x] = r /\ Exists(x) => x <= o}

InvoicePayment(r) == UNION {Newest(Live(pay, o)) : o \in LatestOrder(r)}
Invoices == [r \in Regs |-> InvoicePayment(r)]

(* PaymentReportingService.rows by provider ("" asks for all of them), and *)
(* the endpoints that ask for it.                                          *)
ProviderRails(provider) ==
  CASE provider = "doku"   -> {"doku", "va", "debit", "qris"}
    [] provider = "manual" -> {"manual"}
    [] provider = ""       -> Rails
    [] OTHER               -> {provider}

ReportRows(provider, withDeleted) ==
  {p \in Payments : /\ pay[p].st # "absent"
                    /\ withDeleted \/ ~pay[p].del
                    /\ pay[p].rail \in ProviderRails(provider)}

Transactions(withDeleted) == ReportRows("", withDeleted)
DokuReport     == ReportRows("doku", FALSE)
MidtransReport == ReportRows("midtrans", FALSE)
ManualReport   == ReportRows("manual", FALSE)

(* build_report: every settled row is revenue and one ticket sold.         *)
Successful(S)  == {p \in S : pay[p].st = "success"}
Revenue(S)     == Cardinality(Units(pay, Successful(S)))
TicketsSold(S) == Cardinality(Successful(S))

(* ParticipantReportingService.rows by payment status ("" asks for all of  *)
(* them): an order by its items or else its registration, with its newest  *)
(* row.  A draft can be newer than the row that was paid.                  *)
ReportedPayment(o) == Newest(Live(pay, o))

ParticipantPurchases(status) ==
  {o \in Orders : /\ Exists(o) /\ (Kind[o] # "legacy" \/ RegOf[o] # NoReg)
                  /\ status = "" \/ \E p \in ReportedPayment(o) : pay[p].st = status}

-----------------------------------------------------------------------------
(* The notices                                                             *)

NoticeNow(P, o) ==
  IF Paid(P, o) = 0 THEN "nothing" ELSE IF Remaining(P, o) > 0 THEN "part" ELSE "all"

\* A slip: only good news is sent.
NotifyOfMoney(o) ==
  told' = IF RegOf[o] = NoReg \/ Paid(pay', o) <= Paid(pay, o) THEN told
          ELSE [told EXCEPT ![o] = NoticeNow(pay', o)]

(* _notify_payment_status, in the transaction that changed the payment and *)
(* after it was reconciled.  An order without registration has no notices. *)
Notify(o) ==
  told' = IF RegOf[o] = NoReg THEN told ELSE [told EXCEPT ![o] = NoticeNow(pay', o)]

-----------------------------------------------------------------------------
(* delete_user_payment_attempts: all of the selected rows or none          *)
HideAttempts(o, S) ==
  /\ ord[o].st = "paid" /\ Remaining(pay, o) = 0 /\ Paid(pay, o) > 0
  /\ S # {}
  /\ \A p \in S : p \in Live(pay, o)
                  /\ pay[p].st \in {"created", "pending", "failed", "expired", "canceled"}
  /\ hidden' = hidden \cup S
  /\ UNCHANGED <<vars, told>>

(* bulk_transaction_action on rows of one order: the commands run one      *)
(* after the other in one transaction, and one that is refused rolls back  *)
(* all of them, so that the order is reconciled to the state of all.  With *)
(* one row it is the single command.                                       *)
BulkSuccess(o, S) ==
  /\ Cardinality(S) > 1 /\ S \subseteq Live(pay, o)
  /\ \A p \in S : MaySucceed(p)
  /\ Reconcile([p \in Payments |-> IF p \in S THEN [pay[p] EXCEPT !.st = "success"] ELSE pay[p]],
               o)
  /\ Notify(o)
  /\ UNCHANGED <<calls, found, leaving, mtSeen, hidden>>

BulkCancel(o, S) ==
  /\ Cardinality(S) > 1 /\ S \subseteq Live(pay, o)
  /\ \A p \in S : MayCancel(p)
  /\ LET P == [p \in Payments |-> IF p \in S THEN [pay[p] EXCEPT !.st = "canceled"] ELSE pay[p]]
         s == StatusAfter(ord[o].st, P, o)
     IN  /\ pay' = P
         /\ ord' = [ord EXCEPT ![o] =
                      IF Paid(P, o) = 0 THEN [st |-> "canceled", by |-> TRUE]
                      ELSE OrderAfter(@, P, o)]
         /\ reg' = RegAfter(o, s)
         /\ sel' = SelAfter(o, s)
  /\ Notify(o)
  /\ UNCHANGED <<calls, found, leaving, mtSeen, hidden>>

BulkDelete(o, S) ==
  /\ Cardinality(S) > 1 /\ S \subseteq Live(pay, o)
  /\ \A p \in S : MayCancel(p)
  /\ Reconcile([p \in Payments |-> IF p \in S THEN [pay[p] EXCEPT !.del = TRUE] ELSE pay[p]], o)
  /\ UNCHANGED <<calls, found, leaving, mtSeen, hidden, told>>

-----------------------------------------------------------------------------
(* The handlers of the ledger: those that send a notice, and the others.   *)
Notified(o) ==
  \/ \E p \in Payments :
       /\ pay[p].of = o
       /\ \/ \E s \in DokuStatuses : DokuApply(p, s) \/ DebitNotify(p, s)
          \/ \E s \in MtStatuses : MidtransNotify(p, s)
          \/ VaNotify(p)
          \/ AdminSuccess(p)
          \/ AdminCancel(p)
  \/ \E p \in Payments :
       \/ SubmitProof(o, p)
       \/ ConfirmManual(o, p)
       \/ \E r \in Regs, rail \in OfflineRails : OfflinePay(r, o, p, rail)

Silent ==
  \/ \E o \in Orders, p \in Payments : HostedReserve(o, p) \/ ContinueHosted(o, p)
  \/ \E p \in Payments : HostedAnswer(p) \/ HostedNoAnswer(p) \/ DokuFind(p) \/ AdminDelete(p)
  \/ \E o \in Orders : UserCancel(o) \/ ContinueSettled(o)
  \/ \E r \in Regs :
       RegVerify(r) \/ RegReject(r) \/ RegConfirm(r) \/ RegCancelRead(r) \/ RegCancelWrite(r)

HistoryNext ==
  \/ \E o \in Orders : Notified(o) /\ Notify(o) /\ UNCHANGED hidden
  \/ Silent /\ UNCHANGED <<hidden, told>>
  \/ \E o \in Orders, S \in SUBSET Payments :
       \/ HideAttempts(o, S)
       \/ BulkSuccess(o, S)
       \/ BulkCancel(o, S)
       \/ BulkDelete(o, S)

HistorySpec == HistoryInit /\ [][HistoryNext]_historyVars

-----------------------------------------------------------------------------
(* Money an order counts can be seen by everyone who looks: the owner's    *)
(* history shows the row although the owner had hidden it while it was     *)
(* open, the organizers' list has it, one report of a provider has it      *)
(* unless it is a cash receipt, the invoice of a latest order names a      *)
(* payment, and the revenue and the tickets sold are no less than what the *)
(* orders have collected (reporting.py, _user_order_detail, get_invoice);  *)
(* the report on participants names the order and a payment of it.         *)
MoneyIsShown ==
  \A o \in Orders : Counted(pay, o) # {} =>
    /\ o \in OrdersListed(ord[o].st) \cap ParticipantPurchases("")
    /\ Counted(pay, o) \subseteq ShownAttempts(o) \cap Transactions(FALSE)
    /\ \A p \in Counted(pay, o) :
         Cardinality({S \in {DokuReport, MidtransReport, ManualReport} : p \in S})
           = IF pay[p].rail = "cash" THEN 0 ELSE 1
    /\ o \in LatestOrder(RegOf[o]) /\ RegOf[o] # NoReg => Invoices[RegOf[o]] # {}
    /\ ReportedPayment(o) # {}
    /\ LET rows == {p \in Transactions(FALSE) : pay[p].of = o}
       IN  Collected(pay, o) <= Revenue(rows) /\ Cardinality(Counted(pay, o)) <= TicketsSold(rows)

(* The last notice to an owner is still true: whoever was told that an     *)
(* order is paid in full, or in part, has not lost that money to a refund, *)
(* a failure or a bulk command without a further notice, and nobody whose  *)
(* order is paid was left untold.                                          *)
NoticeIsCurrent ==
  \A o \in Orders : RegOf[o] # NoReg => told[o] = NoticeNow(pay, o)
=============================================================================
