--------------------------- MODULE HistoryProofs ---------------------------
(***************************************************************************)
(* The specification the ledger is checked under, HistorySpec, adds the    *)
(* bulk commands, hiding and the notices to the handlers of Ledger.  Its   *)
(* steps keep LedgerInv too, an order's last notice is always current, and *)
(* what is counted is shown, for every value of the constants.             *)
(***************************************************************************)
EXTENDS PaymentHistory, LedgerProofs

-----------------------------------------------------------------------------
(* A step of HistorySpec is a handler of the ledger, a bulk command, or    *)
(* changes no table.                                                       *)
Bulk(o, S) == BulkSuccess(o, S) \/ BulkCancel(o, S) \/ BulkDelete(o, S)

(* What PaymentHistory adds to the ledger's rows are the bulk commands.    *)
LEMMA HistorySteps ==
  ASSUME [HistoryNext]_historyVars
  PROVE  [Next]_vars \/ \E o \in Orders, S \in SUBSET Payments : Bulk(o, S)
<1>1. ASSUME NEW o \in Orders, Notified(o) PROVE Next
  BY <1>1 DEF Notified, Next
<1>2. ASSUME Silent PROVE Next
  BY <1>2 DEF Silent, Next
<1>3. ASSUME NEW o \in Orders, NEW S \in SUBSET Payments, HideAttempts(o, S)
      PROVE  UNCHANGED vars
  BY <1>3 DEF HideAttempts
<1>4. UNCHANGED historyVars => UNCHANGED vars
  BY DEF historyVars
<1> QED BY <1>1, <1>2, <1>3, <1>4 DEF HistoryNext, Bulk

(* Writing one column of several rows of an order touches that order.      *)
LEMMA BulkTouches ==
  ASSUME LedgerInv, NEW o \in Orders, NEW S \in SUBSET Live(pay, o), NEW Q,
         Q \in [Payments -> PayRow],
         \A p \in Payments : p \notin S => Q[p] = pay[p],
         \A p \in S : \/ Q[p] = [pay[p] EXCEPT !.st = "success"]
                      \/ Q[p] = [pay[p] EXCEPT !.st = "canceled"]
                      \/ Q[p] = [pay[p] EXCEPT !.del = TRUE]
  PROVE  Touches(Q, o)
<1>1. \A p \in Payments : /\ pay[p] \in PayRow
                          /\ pay[p].rail = "manual" => pay[p].seq = 0
                          /\ pay[p].st # "absent" => pay[p].rail # "none"
  BY DEF LedgerInv, TypeOK, RowsLinked, Linked
<1>2. \A p \in S : p \in Payments /\ pay[p].of = o /\ pay[p].st # "absent"
  BY DEF Live
<1>3. ASSUME NEW p \in S
      PROVE  /\ Q[p].of = o /\ Q[p].st # "absent" /\ Q[p].rail # "none" /\ pay[p].of = o
             /\ Q[p].rail = "manual" => Q[p].seq = 0
  BY <1>1, <1>2 DEF PayRow
<1> QED BY <1>3 DEF Touches

(* The tables the bulk commands write.                                     *)
Set(S, st) == [p \in Payments |-> IF p \in S THEN [pay[p] EXCEPT !.st = st] ELSE pay[p]]
Del(S) == [p \in Payments |-> IF p \in S THEN [pay[p] EXCEPT !.del = TRUE] ELSE pay[p]]

(* Rows of an order that are written together touch that order alone.      *)
LEMMA BulkTables ==
  ASSUME LedgerInv, NEW o \in Orders, NEW S \in SUBSET Live(pay, o)
  PROVE  /\ Set(S, "success") \in Tables /\ Touches(Set(S, "success"), o)
         /\ Set(S, "canceled") \in Tables /\ Touches(Set(S, "canceled"), o)
         /\ Del(S) \in Tables /\ Touches(Del(S), o)
<1>1. pay \in [Payments -> PayRow] /\ {"success", "canceled"} \subseteq PayStatuses
      /\ S \in SUBSET Payments
  BY DEF LedgerInv, TypeOK, PayStatuses, Live
<1>2. /\ Set(S, "success") \in [Payments -> PayRow]
      /\ Set(S, "canceled") \in [Payments -> PayRow]
      /\ Del(S) \in [Payments -> PayRow]
  BY <1>1 DEF Set, Del, PayRow
<1>3. \A p \in Payments : p \notin S =>
        Set(S, "success")[p] = pay[p] /\ Set(S, "canceled")[p] = pay[p] /\ Del(S)[p] = pay[p]
  BY DEF Set, Del
<1>4. \A p \in S : /\ Set(S, "success")[p] = [pay[p] EXCEPT !.st = "success"]
                   /\ Set(S, "canceled")[p] = [pay[p] EXCEPT !.st = "canceled"]
                   /\ Del(S)[p] = [pay[p] EXCEPT !.del = TRUE]
  BY <1>1 DEF Set, Del
<1> QED BY <1>2, <1>3, <1>4, BulkTouches DEF Tables

(* A bulk command ends in a reconciled order.                              *)
LEMMA BulkKeeps ==
  ASSUME LedgerInv, NEW o \in Orders, NEW S \in SUBSET Payments, Bulk(o, S)
  PROVE  LedgerInv'
<1>1. S \in SUBSET Live(pay, o) /\ TypeOK
  BY DEF Bulk, BulkSuccess, BulkCancel, BulkDelete, LedgerInv
<1>2. UNCHANGED <<calls, found, leaving, mtSeen>>
  BY DEF Bulk, BulkSuccess, BulkCancel, BulkDelete
<1>3. /\ calls' \subseteq calls /\ found' \subseteq found /\ leaving' = leaving
      /\ mtSeen' \subseteq Payments \X MtStatuses
      /\ calls' \subseteq Payments /\ found' \subseteq Payments
  BY <1>1, <1>2 DEF TypeOK
<1>4. CASE BulkSuccess(o, S)
  BY <1>1, <1>3, <1>4, BulkTables, ReconcileKeeps DEF BulkSuccess, Set
<1>5. CASE BulkDelete(o, S)
  BY <1>1, <1>3, <1>5, BulkTables, ReconcileKeeps DEF BulkDelete, Del
<1>6. CASE BulkCancel(o, S)
  <2> DEFINE Q == Set(S, "canceled")
             s == StatusAfter(ord[o].st, Q, o)
             row == IF Paid(Q, o) = 0 THEN [st |-> "canceled", by |-> TRUE]
                    ELSE OrderAfter(ord[o], Q, o)
  <2>1. Q \in Tables /\ Touches(Q, o)
    BY <1>1, BulkTables
  <2>2. /\ pay' = Q /\ reg' = RegAfter(o, s) /\ sel' = SelAfter(o, s)
        /\ ord' = [ord EXCEPT ![o] = row]
    BY <1>1, <1>6 DEF BulkCancel, Set, TypeOK
  <2> HIDE DEF Q
  <2>3. /\ row \in OrderRow /\ row.st # "absent"
        /\ row.st = "paid" <=> Covered(Q, o)
        /\ s = "paid" <=> row.st = "paid"
        /\ Paid(Q, o) > 0 => row.st \in {"paid", "partially_paid"}
    <3>1. [st |-> "canceled", by |-> TRUE] \in OrderRow
      BY DEF OrderRow, OrderStatuses
    <3>2. Paid(Q, o) \in Nat
      BY <2>1, PaidBounds
    <3>3. CASE Paid(Q, o) = 0
      BY <2>1, <3>1, <3>3, ReconcileAgrees DEF Covered
    <3>4. CASE Paid(Q, o) # 0
      BY <2>1, <3>2, <3>4, ReconcileAgrees
    <3> QED BY <3>3, <3>4
  <2> HIDE DEF row, s
  <2> QED BY <1>3, <2>1, <2>2, <2>3, OrderKeeps
<1> QED BY <1>4, <1>5, <1>6 DEF Bulk

(* The ledger's invariant survives what PaymentHistory adds.               *)
LEMMA HistoryKeepsLedger == LedgerInv /\ [HistoryNext]_historyVars => LedgerInv'
BY HistorySteps, NextInv, BulkKeeps

(* The handlers, the bulk commands and hiding keep the ledger's invariant. *)
THEOREM HistoryInvariant == HistorySpec => []LedgerInv
<1>1. HistoryInit => LedgerInv
  BY InitInv DEF HistoryInit
<1> QED BY <1>1, HistoryKeepsLedger, PTL DEF HistorySpec

(* What LedgerProofs proves of the handlers one at a time holds with the   *)
(* bulk commands (bulk_transaction_action) among them.                     *)
THEOREM HistoryClaims ==
  HistorySpec =>
    [](TypeOK /\ PaidIffCovered /\ MoneyKeepsOrderOpen /\ RegPaidIsBacked /\ PaidEntitles)
<1>1. LedgerInv =>
        TypeOK /\ PaidIffCovered /\ MoneyKeepsOrderOpen /\ RegPaidIsBacked /\ PaidEntitles
  BY DEF LedgerInv
<1> QED BY <1>1, HistoryInvariant, PTL
-----------------------------------------------------------------------------
(* Which rows a handler writes                                             *)

(* A handler that sends a notice writes one row of the notice's order, and *)
(* a settled row at most takes back.                                       *)
OneRow(o) ==
  \E p \in Payments :
    /\ \A q \in Payments \ {p} : pay'[q] = pay[q]
    /\ pay'[p].of = o
    /\ pay[p].of = o \/ pay[p].st = "absent"
    /\ pay[p].st = "success" => pay'[p] = pay[p] \/ pay'[p].st # "success"

(* A handler that sends a notice has written one row of its order.         *)
LEMMA NotifiedRow ==
  ASSUME LedgerInv, NEW o \in Orders, Notified(o)
  PROVE  OneRow(o)
<1>1. pay \in [Payments -> PayRow]
  BY DEF LedgerInv, TypeOK
<1>2. ASSUME NEW p \in Payments, NEW new, pay' = [pay EXCEPT ![p] = new], new.of = o,
             pay[p].of = o \/ pay[p].st = "absent",
             pay[p].st = "success" => new = pay[p] \/ new.st # "success"
      PROVE  OneRow(o)
  <2>1. pay'[p] = new /\ \A q \in Payments \ {p} : pay'[q] = pay[q]
    BY <1>1, <1>2
  <2> QED BY <1>2, <2>1 DEF OneRow
<1>3. ASSUME NEW p \in Payments, pay[p].of = o, NEW st, pay' = [pay EXCEPT ![p].st = st]
      PROVE  OneRow(o)
  <2>1. /\ [pay[p] EXCEPT !.st = st].of = o
        /\ [pay[p] EXCEPT !.st = st].st = st
        /\ pay[p].st = st => [pay[p] EXCEPT !.st = st] = pay[p]
    BY <1>1, <1>3 DEF PayRow
  <2>2. pay' = [pay EXCEPT ![p] = [pay[p] EXCEPT !.st = st]]
    BY <1>1, <1>3
  <2> HIDE <1>3
  <2> QED BY <1>2, <1>3, <2>1, <2>2
<1>4. ASSUME NEW p \in Payments, pay[p].of = o, NEW s \in DokuStatuses,
             DokuApply(p, s) \/ DebitNotify(p, s)
      PROVE  OneRow(o)
  BY <1>1, <1>3, <1>4 DEF DokuApply, DebitNotify, Reconcile
<1>5. ASSUME NEW p \in Payments, pay[p].of = o, NEW s \in MtStatuses, MidtransNotify(p, s)
      PROVE  OneRow(o)
  BY <1>1, <1>3, <1>5 DEF MidtransNotify, Reconcile
<1>6. ASSUME NEW p \in Payments, pay[p].of = o, VaNotify(p) \/ AdminSuccess(p) \/ AdminCancel(p)
      PROVE  OneRow(o)
  BY <1>1, <1>3, <1>6 DEF VaNotify, AdminSuccess, AdminCancel, Reconcile
<1>7. ASSUME NEW p \in Payments, SubmitProof(o, p) \/ ConfirmManual(o, p)
      PROVE  OneRow(o)
  <2>1. CASE p \in LatestManual(o) /\ \E st : pay' = [pay EXCEPT ![p].st = st]
    <3>1. PICK st : pay' = [pay EXCEPT ![p].st = st]
      BY <2>1
    <3>2. pay[p].of = o
      BY <2>1 DEF LatestManual, Live
    <3> QED BY <1>3, <3>1, <3>2
  <2>2. CASE Unused(p) /\ \E st : pay' = [pay EXCEPT ![p] = NewPay(o, "manual", st, Total[o], 0)]
    <3>1. PICK st : pay' = [pay EXCEPT ![p] = NewPay(o, "manual", st, Total[o], 0)]
      BY <2>2
    <3>2. NewPay(o, "manual", st, Total[o], 0).of = o /\ pay[p].st = "absent"
      BY <2>2 DEF NewPay, Unused
    <3> QED BY <1>2, <3>1, <3>2
  <2> QED BY <1>7, <2>1, <2>2 DEF SubmitProof, ConfirmManual, Reconcile
<1>8. ASSUME NEW p \in Payments, NEW r \in Regs, NEW rail \in OfflineRails,
             OfflinePay(r, o, p, rail)
      PROVE  OneRow(o)
  <2> DEFINE new == NewPay(o, rail, "success", Remaining(pay, o), 0)
  <2>1. new.of = o /\ pay[p].st = "absent" /\ pay' = [pay EXCEPT ![p] = new]
    BY <1>8 DEF OfflinePay, Reconcile, Unused, NewPay
  <2> HIDE DEF new
  <2> QED BY <1>2, <2>1
<1> QED BY <1>4, <1>5, <1>6, <1>7, <1>8 DEF Notified

(* So the money of the other orders stays.                                 *)
LEMMA OneRowOthers ==
  ASSUME NEW o \in Orders, OneRow(o), NEW x \in Orders, x # o
  PROVE  Paid(pay', x) = Paid(pay, x) /\ Remaining(pay', x) = Remaining(pay, x)
<1>1. \A p \in Payments : p \in Settled(pay, x) => pay'[p] = pay[p]
  BY DEF OneRow, Settled
<1>2. \A p \in Payments : p \in Settled(pay', x) => pay'[p] = pay[p]
  BY DEF OneRow, Settled
<1>3. Settled(pay', x) = Settled(pay, x) /\ \A p \in Settled(pay, x) : pay'[p] = pay[p]
  BY <1>1, <1>2 DEF Settled
<1> QED BY <1>3, SameSettled

(* A handler that sends none neither settles a row nor takes one back.     *)
LEMMA SilentUnsettled ==
  ASSUME LedgerInv, Silent, NEW p \in Payments
  PROVE  pay'[p] = pay[p] \/ (pay[p].st # "success" /\ pay'[p].st # "success")
<1>1. \A q \in Payments : pay[q] \in PayRow
  BY DEF LedgerInv, TypeOK
<1>2. pay \in [Payments -> PayRow]
  BY DEF LedgerInv, TypeOK
<1>3. ASSUME NEW o \in Orders, NEW q \in Payments, HostedReserve(o, q) \/ ContinueHosted(o, q)
      PROVE  pay'[p] = pay[p] \/ (pay[p].st # "success" /\ pay'[p].st # "success")
  <2>1. HostedBill(o).st = "created" /\ pay[q].st = "absent" /\ pay' = [pay EXCEPT ![q] = HostedBill(o)]
    BY <1>3 DEF HostedReserve, ContinueHosted, Unused, HostedBill, NewPay
  <2> QED BY <1>2, <2>1
<1>4. ASSUME NEW q \in Payments, HostedAnswer(q)
      PROVE  pay'[p] = pay[p] \/ (pay[p].st # "success" /\ pay'[p].st # "success")
  BY <1>1, <1>2, <1>4 DEF HostedAnswer, PayRow
<1>5. ASSUME NEW q \in Payments, AdminDelete(q)
      PROVE  pay'[p] = pay[p] \/ (pay[p].st # "success" /\ pay'[p].st # "success")
  BY <1>1, <1>2, <1>5 DEF AdminDelete, MayCancel, Reconcile, PayRow
<1>6. ASSUME NEW o \in Orders, UserCancel(o)
      PROVE  pay'[p] = pay[p] \/ (pay[p].st # "success" /\ pay'[p].st # "success")
  <2>1. pay'[p] = pay[p] \/ (pay[p].st \in {"created", "pending"}
                              /\ pay'[p] = [pay[p] EXCEPT !.st = "canceled"])
    BY <1>6 DEF UserCancel
  <2> QED BY <1>1, <2>1 DEF PayRow
<1>7. ASSUME NEW o \in Orders, ContinueSettled(o) PROVE pay' = pay
  BY <1>7 DEF ContinueSettled, Reconcile
<1>8. ASSUME NEW q \in Payments, HostedNoAnswer(q) \/ DokuFind(q) PROVE pay' = pay
  BY <1>8 DEF HostedNoAnswer, DokuFind
<1>9. ASSUME NEW r \in Regs, \/ RegVerify(r) \/ RegReject(r) \/ RegConfirm(r)
                             \/ RegCancelRead(r) \/ RegCancelWrite(r)
      PROVE  pay' = pay
  BY <1>9 DEF RegVerify, RegReject, RegConfirm, RegCancelRead, RegCancelWrite
<1> QED BY <1>3, <1>4, <1>5, <1>6, <1>7, <1>8, <1>9 DEF Silent

-----------------------------------------------------------------------------
(* Notices                                                                 *)

NoticeInv ==
  /\ LedgerInv
  /\ told \in [Orders -> {"nothing", "part", "all"}]
  /\ NoticeIsCurrent

(* A notice tells its order; the money of the others is as it was.         *)
LEMMA NoticeTold ==
  ASSUME NoticeInv, NEW o \in Orders, Notify(o),
         \A x \in Orders : x # o =>
           Paid(pay', x) = Paid(pay, x) /\ Remaining(pay', x) = Remaining(pay, x)
  PROVE  told' \in [Orders -> {"nothing", "part", "all"}] /\ NoticeIsCurrent'
<1>1. told \in [Orders -> {"nothing", "part", "all"}]
  BY DEF NoticeInv
<1>2. NoticeNow(pay', o) \in {"nothing", "part", "all"}
  BY DEF NoticeNow
<1>3. \A x \in Orders : x # o => NoticeNow(pay', x) = NoticeNow(pay, x)
  BY DEF NoticeNow
<1>4. \A x \in Orders : RegOf[x] # NoReg => told'[x] = NoticeNow(pay', x)
  BY <1>1, <1>3 DEF Notify, NoticeInv, NoticeIsCurrent
<1> QED BY <1>1, <1>2, <1>4 DEF Notify, NoticeIsCurrent

(* Without a notice, no settled row has changed.                           *)
LEMMA NoticeKept ==
  ASSUME NoticeInv, told' = told,
         \A p \in Payments : pay'[p] = pay[p] \/ (pay[p].st # "success" /\ pay'[p].st # "success")
  PROVE  told' \in [Orders -> {"nothing", "part", "all"}] /\ NoticeIsCurrent'
<1>1. \A x \in Orders :
        Paid(pay', x) = Paid(pay, x) /\ Remaining(pay', x) = Remaining(pay, x)
  BY UnsettledTouch
<1> QED BY <1>1 DEF NoticeInv, NoticeIsCurrent, NoticeNow

(* So every step keeps the notices true.                                   *)
LEMMA NoticeStep == NoticeInv /\ [HistoryNext]_historyVars => NoticeInv'
<1> SUFFICES ASSUME NoticeInv, [HistoryNext]_historyVars PROVE NoticeInv'
  OBVIOUS
<1>0. LedgerInv /\ LedgerInv'
  BY HistoryKeepsLedger DEF NoticeInv
<1>1. ASSUME NEW o \in Orders, Notified(o), Notify(o) PROVE NoticeInv'
  BY <1>0, <1>1, NotifiedRow, OneRowOthers, NoticeTold DEF NoticeInv
<1>2. ASSUME Silent, told' = told PROVE NoticeInv'
  BY <1>0, <1>2, SilentUnsettled, NoticeKept DEF NoticeInv
<1>3. ASSUME UNCHANGED historyVars \/ \E o \in Orders, S \in SUBSET Payments : HideAttempts(o, S)
      PROVE  NoticeInv'
  <2>1. told' = told /\ pay' = pay
    BY <1>3 DEF HideAttempts, historyVars, vars
  <2> QED BY <1>0, <2>1, NoticeKept DEF NoticeInv
<1>4. ASSUME NEW o \in Orders, NEW S \in SUBSET Payments, BulkSuccess(o, S) \/ BulkCancel(o, S)
      PROVE  NoticeInv'
  <2>1. S \in SUBSET Live(pay, o) /\ Notify(o)
    BY <1>4 DEF BulkSuccess, BulkCancel
  <2>2. pay' = Set(S, "success") \/ pay' = Set(S, "canceled")
    BY <1>4 DEF BulkSuccess, BulkCancel, Reconcile, Set
  <2>3. Touches(pay', o)
    BY <1>0, <2>1, <2>2, BulkTables
  <2> QED BY <1>0, <2>1, <2>3, OtherOrders, NoticeTold DEF NoticeInv
<1>5. ASSUME NEW o \in Orders, NEW S \in SUBSET Payments, BulkDelete(o, S) PROVE NoticeInv'
  <2>1. pay' = Del(S) /\ told' = told /\ \A p \in S : pay[p].st # "success"
    BY <1>5 DEF BulkDelete, Reconcile, Del, MayCancel
  <2>2. \A p \in Payments : pay[p] \in PayRow
    BY <1>0 DEF LedgerInv, TypeOK
  <2>3. \A p \in Payments : pay'[p] = pay[p] \/ (pay[p].st # "success" /\ pay'[p].st # "success")
    BY <2>1, <2>2 DEF Del, PayRow
  <2> QED BY <1>0, <2>1, <2>3, NoticeKept DEF NoticeInv
<1> QED BY <1>1, <1>2, <1>3, <1>4, <1>5 DEF HistoryNext

(* The last notice to an owner is still true (_notify_payment_status): no  *)
(* handler that sends none changes what any order has been paid, and the   *)
(* others change the money of the order they write about only.             *)
THEOREM NoticesAreCurrent == HistorySpec => []NoticeIsCurrent
<1>1. HistoryInit => NoticeInv
  <2> SUFFICES ASSUME HistoryInit PROVE NoticeInv
    OBVIOUS
  <2>1. PICK s \in Openings : pay = s.pay
    BY DEF HistoryInit, Init
  <2>2. \A o \in Orders : Paid(pay, o) = 0
    BY <2>1, LegalOpenings
  <2> QED BY <2>2, InitInv DEF HistoryInit, NoticeInv, NoticeIsCurrent, NoticeNow
<1>2. NoticeInv => NoticeIsCurrent
  BY DEF NoticeInv
<1> QED BY <1>1, <1>2, NoticeStep, PTL DEF HistorySpec
-----------------------------------------------------------------------------
(* Money that shrinks                                                      *)

(* A settled row stays as it is or loses its success.                      *)
LEMMA SettledRowStep ==
  ASSUME LedgerInv, [HistoryNext]_historyVars, NEW p \in Payments, pay[p].st = "success"
  PROVE  pay'[p] = pay[p] \/ pay'[p].st # "success"
<1>1. ASSUME NEW o \in Orders, Notified(o) PROVE pay'[p] = pay[p] \/ pay'[p].st # "success"
  BY <1>1, NotifiedRow DEF OneRow
<1>2. ASSUME Silent PROVE pay'[p] = pay[p] \/ pay'[p].st # "success"
  BY <1>2, SilentUnsettled
<1>3. ASSUME NEW o \in Orders, NEW S \in SUBSET Payments, Bulk(o, S)
      PROVE  pay'[p] = pay[p] \/ pay'[p].st # "success"
  <2>1. pay[p] \in PayRow
    BY DEF LedgerInv, TypeOK
  <2>2. CASE BulkSuccess(o, S)
    BY <2>1, <2>2 DEF BulkSuccess, Reconcile, PayRow
  <2>3. CASE BulkCancel(o, S)
    BY <2>3 DEF BulkCancel, MayCancel
  <2>4. CASE BulkDelete(o, S)
    BY <2>4 DEF BulkDelete, MayCancel, Reconcile
  <2> QED BY <1>3, <2>2, <2>3, <2>4 DEF Bulk
<1>4. ASSUME UNCHANGED historyVars \/ \E o \in Orders, S \in SUBSET Payments : HideAttempts(o, S)
      PROVE  pay' = pay
  BY <1>4 DEF HideAttempts, historyVars, vars
<1> QED BY <1>1, <1>2, <1>3, <1>4 DEF HistoryNext, Bulk

(* An order loses money only to a reversal or to an earlier, smaller       *)
(* attempt of a settled sequence (_payment_progress), for any number of    *)
(* attempts, sequences and amounts.                                        *)
THEOREM MoneyShrinksOnlyByReversal == HistorySpec => PaidShrinksOnlyByReversal
<1> DEFINE A == \A o \in Orders : Paid(pay', o) < Paid(pay, o) =>
                  \E p \in Settled(pay, o) :
                    \/ pay'[p].st # "success"
                    \/ \E q \in Settled(pay', o) \ Settled(pay, o) :
                         q < p /\ pay[p].seq # 0 /\ pay'[q].seq = pay[p].seq
                               /\ pay'[q].gross < pay[p].gross
<1>1. ASSUME LedgerInv, LedgerInv', [HistoryNext]_historyVars PROVE A
  <2> SUFFICES ASSUME NEW o \in Orders, \A p \in Settled(pay, o) : pay'[p].st = "success",
                      ~Undercut(pay', pay, o)
               PROVE  ~(Paid(pay', o) < Paid(pay, o))
    BY DEF Undercut
  <2>1. pay \in Tables /\ pay' \in Tables
    BY <1>1 DEF LedgerInv, TypeOK, Tables
  <2>2. \A p \in Settled(pay, o) : pay'[p] = pay[p]
    BY <1>1, SettledRowStep DEF Settled
  <2>3. \A p \in Settled(pay, o) : p \in Settled(pay', o)
    BY <2>2 DEF Settled
  <2>4. Paid(pay, o) <= Paid(pay', o)
    BY <2>1, <2>2, <2>3, NoLess
  <2> QED BY <2>1, <2>4, PaidBounds
<1>2. LedgerInv /\ LedgerInv' /\ [HistoryNext]_historyVars => [A]_vars
  BY <1>1
<1> QED BY <1>2, HistoryInvariant, PTL DEF HistorySpec, PaidShrinksOnlyByReversal
-----------------------------------------------------------------------------
(* Closed orders and settled bills                                         *)

(* A cancellation reopens an order only when it finds money.               *)
LEMMA CancelReopens ==
  ASSUME LedgerInv, NEW Q \in Tables, NEW o \in Orders,
         ord' = [ord EXCEPT ![o] = IF Paid(Q, o) = 0 THEN [st |-> "canceled", by |-> TRUE]
                                   ELSE OrderAfter(@, Q, o)],
         NEW x \in Orders, Closed(x), ~Closed(x)'
  PROVE  Paid(Q, x) > 0
<1>1. ord \in [Orders -> OrderRow]
  BY DEF LedgerInv, TypeOK
<1>2. x = o
  BY <1>1 DEF Closed
<1>3. Paid(Q, x) \in Nat
  BY PaidBounds
<1>4. Paid(Q, x) # 0
  BY <1>1, <1>2 DEF Closed
<1> QED BY <1>3, <1>4

(* In every step a closed order opens only with money.                     *)
LEMMA ReopenStep ==
  ASSUME LedgerInv, LedgerInv', [HistoryNext]_historyVars,
         NEW x \in Orders, Closed(x), ~Closed(x)'
  PROVE  Paid(pay', x) > 0
<1>1. ord \in [Orders -> OrderRow] /\ pay' \in Tables
  BY DEF LedgerInv, TypeOK, Tables
<1>2. ASSUME NEW o \in Orders, Reconcile(pay', o) PROVE Paid(pay', x) > 0
  BY <1>1, <1>2, ReconcileReopens
<1>3. ASSUME NEW o \in Orders, NEW p \in Payments,
             HostedReserve(o, p) \/ SubmitProof(o, p) \/ ContinueHosted(o, p)
      PROVE  FALSE
  <2>1. /\ ~Closed(o)
        /\ \A y \in Orders : y # o => ord'[y] = ord[y]
    BY <1>1, <1>3 DEF HostedReserve, SubmitProof, ContinueHosted, MayContinue, Closed
  <2> QED BY <2>1 DEF Closed
<1>4. ASSUME NEW o \in Orders, UserCancel(o) PROVE FALSE
  BY <1>1, <1>4 DEF UserCancel, Closed
<1>5. ASSUME ord' = ord PROVE FALSE
  BY <1>5 DEF Closed
<1>6. ASSUME NEW p \in Payments, pay[p].st # "absent",
             \/ \E s \in DokuStatuses : DokuApply(p, s) \/ DebitNotify(p, s)
             \/ \E s \in MtStatuses : MidtransNotify(p, s)
             \/ VaNotify(p) \/ AdminSuccess(p) \/ AdminDelete(p)
      PROVE  Paid(pay', x) > 0
  <2>1. Reconcile(pay', pay[p].of)
    BY <1>6 DEF DokuApply, DebitNotify, MidtransNotify, VaNotify, AdminSuccess, AdminDelete,
                Reconcile
  <2> QED BY <1>2, <1>6, <2>1, RowHasOrder
<1>7. ASSUME NEW p \in Payments, AdminCancel(p) PROVE Paid(pay', x) > 0
  <2>1. pay[p].of \in Orders
    BY <1>7, RowHasOrder DEF AdminCancel, MayCancel
  <2> QED BY <1>1, <1>7, <2>1, CancelReopens DEF AdminCancel
<1>8. ASSUME NEW o \in Orders, NEW p \in Payments,
             ConfirmManual(o, p) \/ \E r \in Regs, rail \in OfflineRails : OfflinePay(r, o, p, rail)
      PROVE  Reconcile(pay', o)
  BY <1>8 DEF ConfirmManual, OfflinePay, Reconcile
<1>9. ASSUME NEW o \in Orders, ContinueSettled(o) PROVE Reconcile(pay', o)
  BY <1>9 DEF ContinueSettled, Reconcile
<1>10. ASSUME NEW p \in Payments,
              \/ HostedAnswer(p) \/ HostedNoAnswer(p) \/ DokuFind(p)
              \/ \E r \in Regs : \/ RegVerify(r) \/ RegReject(r) \/ RegConfirm(r)
                                \/ RegCancelRead(r) \/ RegCancelWrite(r)
       PROVE  ord' = ord
  BY <1>10 DEF HostedAnswer, HostedNoAnswer, DokuFind, RegVerify, RegReject, RegConfirm,
               RegCancelRead, RegCancelWrite
<1>11. \A p \in Payments : pay[p].st = "absent" =>
         /\ \A s \in DokuStatuses : ~DokuApply(p, s) /\ ~DebitNotify(p, s)
         /\ \A s \in MtStatuses : ~MidtransNotify(p, s)
         /\ ~VaNotify(p) /\ ~AdminSuccess(p) /\ ~AdminDelete(p)
  BY DEF LedgerInv, RowsLinked, Linked, DokuApply, DebitNotify, MidtransNotify, VaNotify,
         AdminSuccess, AdminDelete, MaySucceed, MayCancel
<1>12. ASSUME NEW r \in Regs, \/ RegVerify(r) \/ RegReject(r) \/ RegConfirm(r)
                              \/ RegCancelRead(r) \/ RegCancelWrite(r)
       PROVE  ord' = ord
  BY <1>12 DEF RegVerify, RegReject, RegConfirm, RegCancelRead, RegCancelWrite
<1>13. ASSUME [Next]_vars PROVE Paid(pay', x) > 0
  BY <1>2, <1>3, <1>4, <1>5, <1>6, <1>7, <1>8, <1>9, <1>10, <1>11, <1>12, <1>13 DEF Next, vars
<1>14. ASSUME NEW o \in Orders, NEW S \in SUBSET Payments, Bulk(o, S)
       PROVE  Paid(pay', x) > 0
  <2>1. CASE BulkSuccess(o, S) \/ BulkDelete(o, S)
    BY <1>2, <2>1 DEF BulkSuccess, BulkDelete, Reconcile
  <2>2. CASE BulkCancel(o, S)
    BY <1>1, <2>2, CancelReopens DEF BulkCancel
  <2> QED BY <1>14, <2>1, <2>2 DEF Bulk
<1> QED BY <1>13, <1>14, HistorySteps

(* An order closed by its owner or the organizer (cancel_user_order,       *)
(* cancel_transaction) is reopened by money only, whichever handler or     *)
(* bulk command touches it.                                                *)
THEOREM ClosedUntilMoney == HistorySpec => ReopensOnlyWithMoney
<1>1. LedgerInv /\ LedgerInv' /\ [HistoryNext]_historyVars =>
        [\A o \in Orders : Closed(o) /\ ~Closed(o)' => Paid(pay', o) > 0]_vars
  BY ReopenStep
<1> QED BY <1>1, HistoryInvariant, PTL DEF HistorySpec, ReopensOnlyWithMoney

(* The bulk commands do not take a settled hosted bill back either.        *)
THEOREM HostedSuccessInHistory == HistorySpec => HostedSuccessStays
<1>1. ASSUME LedgerInv, NEW o \in Orders, NEW S \in SUBSET Payments, Bulk(o, S),
             NEW p \in Payments, pay[p].st = "success"
      PROVE  pay'[p].st = "success"
  <2>1. pay[p] \in PayRow
    BY <1>1 DEF LedgerInv, TypeOK
  <2>2. CASE BulkSuccess(o, S)
    BY <1>1, <2>1, <2>2 DEF BulkSuccess, Reconcile, PayRow
  <2>3. CASE BulkCancel(o, S)
    BY <1>1, <2>3 DEF BulkCancel, MayCancel
  <2>4. CASE BulkDelete(o, S)
    BY <1>1, <2>4 DEF BulkDelete, MayCancel, Reconcile
  <2> QED BY <1>1, <2>2, <2>3, <2>4 DEF Bulk
<1>2. LedgerInv /\ [HistoryNext]_historyVars =>
        [\A p \in Payments :
           pay[p].rail = "doku" /\ pay[p].st = "success" => pay'[p].st = "success"]_vars
  BY <1>1, HistorySteps, HostedSuccessStep
<1> QED BY <1>2, HistoryInvariant, PTL DEF HistorySpec, HostedSuccessStays
-----------------------------------------------------------------------------
(* What is shown                                                           *)

(* Some row is the newest.                                                 *)
LEMMA NewestExists ==
  ASSUME NEW S \in SUBSET Payments, S # {}
  PROVE  Newest(S) # {}
<1>1. IsFiniteSet(S) /\ S \in SUBSET Nat
  BY RowIds, FS_Subset
<1>2. PICK m \in S : \A s \in S : s <= m
  BY <1>1, FiniteMax
<1> QED BY <1>2 DEF Newest

\* A live row is in the report of its provider, unless it is a cash receipt.
LEMMA ProviderReports ==
  ASSUME LedgerInv, NEW p \in Payments, pay[p].st # "absent", ~pay[p].del
  PROVE  /\ p \in Transactions(FALSE)
         /\ Cardinality({S \in {DokuReport, MidtransReport, ManualReport} : p \in S})
              = IF pay[p].rail = "cash" THEN 0 ELSE 1
<1> DEFINE seen == {S \in {DokuReport, MidtransReport, ManualReport} : p \in S}
<1>1. pay[p].rail \in Rails \ {"none"}
  BY DEF LedgerInv, TypeOK, PayRow, RowsLinked, Linked
<1>2. p \in Transactions(FALSE)
  BY <1>1 DEF Transactions, ReportRows, ProviderRails
<1>3. /\ p \in DokuReport <=> pay[p].rail \in {"doku", "va", "debit", "qris"}
      /\ p \in MidtransReport <=> pay[p].rail = "midtrans"
      /\ p \in ManualReport <=> pay[p].rail = "manual"
  BY DEF DokuReport, MidtransReport, ManualReport, ReportRows, ProviderRails
<1>4. CASE pay[p].rail = "cash"
  <2>1. seen = {}
    BY <1>3, <1>4
  <2> QED BY <1>2, <1>4, <2>1, FS_EmptySet
<1>5. CASE pay[p].rail # "cash"
  <2>1. seen = {DokuReport} \/ seen = {MidtransReport} \/ seen = {ManualReport}
    BY <1>1, <1>3, <1>5 DEF Rails
  <2> QED BY <1>2, <1>5, <2>1, FS_Singleton
<1> QED BY <1>4, <1>5

(* Every list that is meant to show the money shows it.                    *)
LEMMA Shown ==
  ASSUME LedgerInv
  PROVE  MoneyIsShown
<1> SUFFICES ASSUME NEW o \in Orders, Counted(pay, o) # {}
             PROVE  /\ o \in OrdersListed(ord[o].st) \cap ParticipantPurchases("")
                    /\ Counted(pay, o) \subseteq ShownAttempts(o) \cap Transactions(FALSE)
                    /\ \A p \in Counted(pay, o) :
                         Cardinality({S \in {DokuReport, MidtransReport, ManualReport} : p \in S})
                           = IF pay[p].rail = "cash" THEN 0 ELSE 1
                    /\ o \in LatestOrder(RegOf[o]) /\ RegOf[o] # NoReg
                         => Invoices[RegOf[o]] # {}
                    /\ ReportedPayment(o) # {}
                    /\ LET rows == {p \in Transactions(FALSE) : pay[p].of = o}
                       IN  /\ Collected(pay, o) <= Revenue(rows)
                           /\ Cardinality(Counted(pay, o)) <= TicketsSold(rows)
  BY DEF MoneyIsShown
<1> DEFINE rows == {p \in Transactions(FALSE) : pay[p].of = o}
<1>1. /\ pay \in Tables
      /\ ord[o] \in OrderRow
  BY DEF LedgerInv, TypeOK, Tables
<1>2. Counted(pay, o) \subseteq Live(pay, o) /\ Live(pay, o) # {}
  BY DEF Counted, Settled, Live
<1>3. \A p \in Counted(pay, o) : p \in Payments /\ pay[p].st = "success" /\ ~pay[p].del
                               /\ pay[p].of = o
  BY DEF Counted, Settled
<1>4. Exists(o)
  <2>1. PICK p \in Counted(pay, o) : TRUE
    OBVIOUS
  <2> QED BY <1>3, <2>1, RowHasOrder DEF Exists
<1>5. o \in OrdersListed(ord[o].st)
  BY <1>1, <1>4 DEF OrdersListed, OrdersOfUser, OrderRow
<1>6. o \in ParticipantPurchases("")
  BY <1>4, LegacyOrders, RowIds DEF ParticipantPurchases
<1>7. Counted(pay, o) \subseteq ShownAttempts(o)
  BY <1>2, <1>3 DEF ShownAttempts
<1>8. \A p \in Counted(pay, o) :
        /\ p \in Transactions(FALSE)
        /\ Cardinality({S \in {DokuReport, MidtransReport, ManualReport} : p \in S})
             = IF pay[p].rail = "cash" THEN 0 ELSE 1
  BY <1>3, ProviderReports
<1>9. Newest(Live(pay, o)) # {}
  BY <1>2, NewestExists DEF Live
<1>10. ASSUME o \in LatestOrder(RegOf[o]), RegOf[o] # NoReg PROVE Invoices[RegOf[o]] # {}
  <2>1. RegOf[o] \in Regs
    BY <1>10, OrderConstants
  <2>2. InvoicePayment(RegOf[o]) # {}
    BY <1>9, <1>10 DEF InvoicePayment
  <2> QED BY <2>1, <2>2 DEF Invoices
<1>11. Counted(pay, o) \subseteq Successful(rows) /\ Successful(rows) \subseteq Payments
  BY <1>3, <1>8 DEF Successful, Transactions, ReportRows
<1> HIDE DEF rows
<1>12. Collected(pay, o) <= Revenue(rows)
  BY <1>1, <1>11, UnitsMonotone DEF Collected, Revenue
<1>13. Cardinality(Counted(pay, o)) <= TicketsSold(rows)
  <2>1. IsFiniteSet(Successful(rows))
    BY <1>11, RowIds, FS_Subset
  <2> QED BY <1>11, <2>1, FS_Subset DEF TicketsSold
<1> QED BY <1>5, <1>6, <1>7, <1>8, <1>9, <1>10, <1>12, <1>13 DEF ReportedPayment, rows

(* Counted money can be seen by everyone who looks (_user_order_detail,    *)
(* reporting.py, get_invoice), whatever was hidden while it was open.      *)
THEOREM MoneyShown == HistorySpec => []MoneyIsShown
<1>1. LedgerInv => MoneyIsShown
  BY Shown
<1> QED BY <1>1, HistoryInvariant, PTL
=============================================================================
