---------------------------- MODULE HostedProofs ----------------------------
(***************************************************************************)
(* Checkout by order_id keeps SingleBill's promise for every set of        *)
(* orders, total and segment limit, and whatever the provider loses,       *)
(* repeats or reorders.                                                    *)
(***************************************************************************)
EXTENDS HostedCheckout, LedgerProofs

(* A bill the provider may still collect, or has collected without the     *)
(* application knowing it.                                                 *)
Outstanding(p) ==
  \/ inv[p] \in {"requested", "payable"}
  \/ inv[p] = "settled" /\ pay[p].st # "success"

(* A bill that has not come to nothing.                                    *)
Billed(p) == inv[p] \in {"requested", "payable", "settled"}

(* Every invoice is one of a reservation that checkout committed.          *)
Requested ==
  \A p \in Payments : inv[p] # "none" =>
    /\ pay[p].rail = "doku" /\ pay[p].st # "absent" /\ ~pay[p].del
    /\ pay[p].gross > 0 /\ pay[p].seq # 0 /\ Total[pay[p].of] > 0

(* DOKU notifies what happened, ...                                        *)
SentTrue ==
  \A p \in Payments, s \in DokuStatuses : <<p, s>> \in sent =>
    /\ inv[p] # "none"
    /\ s = "SUCCESS" => inv[p] = "settled"
    /\ s \in {"EXPIRED", "CANCELLED"} => inv[p] = "void"

(* ... and the application writes what it was told.                        *)
StatusTrue ==
  \A p \in Payments : inv[p] # "none" =>
    /\ pay[p].st = "success" => inv[p] = "settled"
    /\ pay[p].st \in {"failed", "expired"} => inv[p] = "void"

EventsDone ==
  \A p \in Payments : <<p, "SUCCESS">> \in events => pay[p].st = "success"

(* At most one bill of an order is outstanding; when its row says canceled *)
(* although DOKU may still collect it, the order is closed, so that no     *)
(* other bill is issued.                                                   *)
OneOutstanding ==
  \A p, q \in Payments :
    Outstanding(p) /\ Outstanding(q) /\ pay[p].of = pay[q].of => p = q

CanceledOutstanding ==
  \A p \in Payments :
    Outstanding(p) /\ pay[p].st = "canceled" => Closed(pay[p].of)

(* No other live bill and no other settled row has a bill's sequence.      *)
SequencesDiffer ==
  \A p, q \in Payments :
    /\ Billed(p) /\ q # p /\ pay[q].of = pay[p].of
    /\ Billed(q) \/ (pay[q].st = "success" /\ ~pay[q].del)
    => pay[q].seq # pay[p].seq

HostedInv ==
  /\ LedgerInv
  /\ TypeOKHosted
  /\ Requested
  /\ SentTrue
  /\ StatusTrue
  /\ EventsDone
  /\ OneOutstanding
  /\ CanceledOutstanding
  /\ SequencesDiffer

-----------------------------------------------------------------------------
(* Without the legacy entry, the application's steps are Ledger's and      *)
(* DOKU's leave the ledger alone.                                          *)
LEMMA LedgerStep ==
  ASSUME LegacyEntry = {}, [NextHosted]_allVars
  PROVE  [Next]_vars
<1>1. CASE UNCHANGED allVars
  BY <1>1 DEF allVars
<1>2. ASSUME NEW o \in Orders, NEW p \in Payments, Reserve(o, p) \/ Continue(o, p)
      PROVE  Next
  BY <1>2 DEF Reserve, Continue, Next
<1>3. ASSUME NEW p \in Payments, Answer(p) \/ NoAnswer(p) \/ Find(p)
      PROVE  Next
  BY <1>3 DEF Answer, NoAnswer, Find, Next
<1>4. ASSUME NEW p \in Payments,
             InvoiceOpens(p) \/ RequestLost(p) \/ CustomerPays(p) \/ ChannelFails(p)
      PROVE  UNCHANGED vars
  BY <1>4 DEF InvoiceOpens, RequestLost, CustomerPays, ChannelFails
<1>5. ASSUME NEW p \in Payments, NEW s \in DokuStatuses, Apply(p, s)
      PROVE  Next
  BY <1>5 DEF Apply, Next
<1>6. ASSUME NEW p \in Payments, NEW s \in DokuStatuses, InvoiceEnds(p, s)
      PROVE  UNCHANGED vars
  BY <1>6 DEF InvoiceEnds
<1>7. ASSUME NEW o \in Orders, Cancel(o)
      PROVE  Next
  BY <1>7 DEF Cancel, Next
<1> QED BY <1>1, <1>2, <1>3, <1>4, <1>5, <1>6, <1>7 DEF NextHosted

-----------------------------------------------------------------------------
(* DOKU's steps                                                            *)

(* What DOKU does to the invoice of row p, and what it sends.              *)
Provides(p, x) ==
  /\ inv[p] \in {"requested", "payable"}
  /\ x \in {"payable", "settled", "void"}
  /\ inv' = [inv EXCEPT ![p] = x]
  /\ \E new \in SUBSET {<<p, s>> : s \in DokuStatuses} :
       /\ sent' = sent \cup new
       /\ <<p, "SUCCESS">> \in new => x = "settled"
       /\ \A s \in {"EXPIRED", "CANCELLED"} : <<p, s>> \in new => x = "void"
  /\ UNCHANGED <<vars, events, bare>>

(* What DOKU and the network do to an invoice.                             *)
LEMMA ProviderSteps ==
  ASSUME TypeOKHosted, NEW p \in Payments,
         \/ InvoiceOpens(p) \/ RequestLost(p) \/ CustomerPays(p) \/ ChannelFails(p)
         \/ \E s \in DokuStatuses : InvoiceEnds(p, s)
  PROVE  \E x \in {"payable", "settled", "void"} : Provides(p, x)
<1>1. inv \in [Payments -> Invoices]
  BY DEF TypeOKHosted
<1>2. CASE InvoiceOpens(p)
  <2>1. sent' = sent \cup {}
    BY <1>2 DEF InvoiceOpens
  <2>3. {} \in SUBSET {<<p, s>> : s \in DokuStatuses}
    OBVIOUS
  <2>2. Provides(p, "payable")
    BY <1>2, <2>1, <2>3 DEF InvoiceOpens, Provides
  <2> QED BY <2>2
<1>3. CASE RequestLost(p)
  <2>1. sent' = sent \cup {}
    BY <1>3 DEF RequestLost
  <2>2. Provides(p, "void")
    BY <1>3, <2>1 DEF RequestLost, Provides
  <2> QED BY <2>2
<1>4. CASE CustomerPays(p)
  <2>1. {<<p, "SUCCESS">>} \in SUBSET {<<p, s>> : s \in DokuStatuses}
    BY DEF DokuStatuses
  <2>2. Provides(p, "settled")
    BY <1>4, <2>1 DEF CustomerPays, Provides
  <2> QED BY <2>2
<1>5. CASE ChannelFails(p)
  <2>1. {<<p, "FAILED">>} \in SUBSET {<<p, s>> : s \in DokuStatuses}
    BY DEF DokuStatuses
  <2>2. inv' = [inv EXCEPT ![p] = "payable"]
    BY <1>1, <1>5 DEF ChannelFails
  <2>3. Provides(p, "payable")
    BY <1>5, <2>1, <2>2 DEF ChannelFails, Provides
  <2> QED BY <2>3
<1>6. ASSUME NEW s \in DokuStatuses, InvoiceEnds(p, s)
      PROVE  Provides(p, "void")
  <2>1. {<<p, s>>} \in SUBSET {<<p, t>> : t \in DokuStatuses}
    OBVIOUS
  <2> QED BY <1>6, <2>1 DEF InvoiceEnds, Provides
<1> QED BY <1>2, <1>3, <1>4, <1>5, <1>6

(* DOKU may pay or void the one outstanding bill.                          *)
LEMMA ProviderKeeps ==
  ASSUME HostedInv, LedgerInv', NEW p \in Payments, NEW x, Provides(p, x)
  PROVE  HostedInv'
<1>1. /\ inv \in [Payments -> Invoices]
      /\ inv' = [inv EXCEPT ![p] = x] /\ x \in {"payable", "settled", "void"}
      /\ inv[p] \in {"requested", "payable"}
      /\ pay' = pay /\ ord' = ord /\ events' = events /\ bare' = bare
  BY DEF HostedInv, TypeOKHosted, Provides, vars
<1>2. PICK new \in SUBSET {<<p, s>> : s \in DokuStatuses} :
        /\ sent' = sent \cup new
        /\ <<p, "SUCCESS">> \in new => x = "settled"
        /\ \A s \in {"EXPIRED", "CANCELLED"} : <<p, s>> \in new => x = "void"
  BY DEF Provides
<1>3. /\ inv'[p] = x
      /\ \A q \in Payments : q # p => inv'[q] = inv[q]
  BY <1>1
<1>4. TypeOKHosted'
  <2>1. TypeOK'
    BY DEF LedgerInv
  <2>2. inv' \in [Payments -> Invoices]
    BY <1>1 DEF Invoices
  <2>3. sent' \subseteq Payments \X DokuStatuses /\ events' \subseteq sent'
    BY <1>1, <1>2 DEF HostedInv, TypeOKHosted
  <2>4. bare' \in [LegacyEntry -> [at : {"idle", "created", "looked"}, clear : BOOLEAN]]
    BY <1>1 DEF HostedInv, TypeOKHosted
  <2> QED BY <2>1, <2>2, <2>3, <2>4 DEF TypeOKHosted
<1>5. Requested'
  BY <1>1, <1>3 DEF HostedInv, Requested
<1>6. SentTrue'
  <2> SUFFICES ASSUME NEW q \in Payments, NEW s \in DokuStatuses, <<q, s>> \in sent'
               PROVE  /\ inv'[q] # "none"
                      /\ s = "SUCCESS" => inv'[q] = "settled"
                      /\ s \in {"EXPIRED", "CANCELLED"} => inv'[q] = "void"
    BY DEF SentTrue
  <2>1. CASE <<q, s>> \in sent
    BY <1>1, <1>3, <2>1 DEF HostedInv, SentTrue
  <2>2. CASE <<q, s>> \in new
    <3>1. q = p
      BY <2>2
    <3> QED BY <1>1, <1>2, <1>3, <2>2, <3>1
  <2> QED BY <1>2, <2>1, <2>2
<1>7. StatusTrue'
  BY <1>1, <1>3 DEF HostedInv, StatusTrue
<1>8. EventsDone'
  BY <1>1 DEF HostedInv, EventsDone
<1>9. \A q \in Payments : Outstanding(q)' => Outstanding(q)
  BY <1>1, <1>3 DEF Outstanding
<1>10. \A q \in Payments : Billed(q)' => Billed(q)
  BY <1>1, <1>3 DEF Billed
<1>11. OneOutstanding' /\ CanceledOutstanding'
  BY <1>1, <1>9 DEF HostedInv, OneOutstanding, CanceledOutstanding, Closed
<1>12. SequencesDiffer'
  BY <1>1, <1>10 DEF HostedInv, SequencesDiffer
<1> QED BY <1>4, <1>5, <1>6, <1>7, <1>8, <1>11, <1>12 DEF HostedInv

-----------------------------------------------------------------------------
(* A new bill                                                              *)

(* No bill of an order is outstanding when checkout may issue another.     *)
LEMMA NoneOutstanding ==
  ASSUME HostedInv, NEW o \in Orders, Active(pay, o) = {}, ~Closed(o),
         NEW p \in Payments, pay[p].of = o, Outstanding(p)
  PROVE  FALSE
<1>1. inv[p] # "none"
  BY DEF Outstanding
<1>2. pay[p].st # "absent" /\ ~pay[p].del
  BY <1>1 DEF HostedInv, Requested
<1>3. pay[p].st # "success"
  BY <1>1 DEF HostedInv, StatusTrue, Outstanding
<1>4. pay[p].st \notin {"failed", "expired"}
  BY <1>1 DEF HostedInv, StatusTrue, Outstanding
<1>5. pay[p].st # "canceled"
  BY DEF HostedInv, CanceledOutstanding
<1>6. p \in Active(pay, o)
  BY <1>2, <1>3, <1>4, <1>5 DEF Active, Live
<1> QED BY <1>6

(* What a bill asks for: no more than what is due.                         *)
LEMMA BillAmount ==
  ASSUME HostedInv, NEW o \in Orders, Remaining(pay, o) > 0
  PROVE  /\ HostedBill(o).gross \in Nat \ {0}
         /\ HostedBill(o).gross <= Remaining(pay, o)
         /\ HostedBill(o).seq = NextSequence(pay, o)
         /\ HostedBill(o).del = FALSE
         /\ Remaining(pay, o) = Total[o] - Collected(pay, o)
         /\ Total[o] \in Nat \ {0} /\ Collected(pay, o) \in Nat
<1>1. pay \in Tables
  BY DEF HostedInv, LedgerInv, TypeOK, Tables
<1>2. /\ Remaining(pay, o) \in Nat /\ Collected(pay, o) \in Nat /\ Total[o] \in Nat
      /\ Remaining(pay, o) <= Total[o]
  BY <1>1, PaidBounds
<1>3. SegmentLimit \in Nat \ {0}
  BY OrderConstants
<1>4. /\ HostedBill(o).gross = Min2(SegmentLimit, Remaining(pay, o))
      /\ HostedBill(o).seq = NextSequence(pay, o)
      /\ HostedBill(o).del = FALSE
  BY DEF HostedBill, NewPay
<1>5. Remaining(pay, o) = Total[o] - Collected(pay, o)
  BY <1>2 DEF Remaining, Paid, Min2
<1> QED BY <1>2, <1>3, <1>4, <1>5 DEF Min2

Issues(o, p) ==
  /\ Active(pay, o) = {} /\ ~Closed(o) /\ Remaining(pay, o) > 0
  /\ pay[p].st = "absent"
  /\ pay' = [pay EXCEPT ![p] = HostedBill(o)]
  /\ \A x \in Orders : Closed(x) => Closed(x)'
  /\ inv' = [inv EXCEPT ![p] = "requested"]
  /\ UNCHANGED <<sent, events, bare>>

(* A checkout and a continued payment issue a bill in the same way.        *)
LEMMA IssuingSteps ==
  ASSUME HostedInv, NEW o \in Orders, NEW p \in Payments, Reserve(o, p) \/ Continue(o, p)
  PROVE  Issues(o, p)
<1>1. ord \in [Orders -> OrderRow]
  BY DEF HostedInv, LedgerInv, TypeOK
<1>2. CASE Reserve(o, p)
  BY <1>1, <1>2 DEF Reserve, HostedReserve, Request, Unused, Issues, Closed
<1>3. CASE Continue(o, p)
  BY <1>1, <1>3 DEF Continue, ContinueHosted, MayContinue, Request, Unused, Issues, Closed
<1> QED BY <1>2, <1>3

(* A new bill is the only outstanding one, and of a new sequence.          *)
LEMMA IssuingKeeps ==
  ASSUME HostedInv, LedgerInv', NEW o \in Orders, NEW p \in Payments, Issues(o, p)
  PROVE  HostedInv'
<1> DEFINE b == HostedBill(o)
<1>1. /\ pay \in Tables /\ inv \in [Payments -> Invoices]
      /\ LedgerInv
  BY DEF HostedInv, LedgerInv, TypeOK, TypeOKHosted, Tables
<1>2. /\ b.of = o /\ b.st = "created" /\ b.rail = "doku" /\ b.del = FALSE
      /\ b.gross > 0 /\ b.seq = NextSequence(pay, o) /\ b.seq \in Nat \ {0}
      /\ \A q \in Settled(pay, o) : pay[q].seq < b.seq
      /\ Total[o] > 0
  <2>1. Remaining(pay, o) > 0
    BY DEF Issues
  <2>2. b.of = o /\ b.st = "created" /\ b.rail = "doku"
    BY <1>1, HostedBillRow
  <2>3. /\ b.gross \in Nat \ {0} /\ b.seq = NextSequence(pay, o) /\ b.del = FALSE
        /\ Total[o] \in Nat \ {0}
    BY <2>1, BillAmount
  <2>4. /\ NextSequence(pay, o) \in Nat \ {0}
        /\ \A q \in Settled(pay, o) : pay[q].seq < NextSequence(pay, o)
    BY <1>1, NextSequencePositive
  <2> HIDE DEF b
  <2> QED BY <2>2, <2>3, <2>4
<1> HIDE DEF b
<1>3. /\ pay'[p] = b /\ \A q \in Payments : q # p => pay'[q] = pay[q]
      /\ inv'[p] = "requested" /\ \A q \in Payments : q # p => inv'[q] = inv[q]
      /\ sent' = sent /\ events' = events /\ bare' = bare
      /\ \A x \in Orders : Closed(x) => Closed(x)'
  BY <1>1 DEF Issues, b, Tables
<1>4. inv[p] = "none" /\ pay[p].st = "absent"
  BY DEF HostedInv, Requested, Issues
<1>5. TypeOKHosted'
  <2>1. TypeOK'
    BY DEF LedgerInv
  <2>2. inv' \in [Payments -> Invoices]
    BY <1>1 DEF Issues, Invoices
  <2> QED BY <1>3, <2>1, <2>2 DEF TypeOKHosted, HostedInv
<1>6. Requested'
  BY <1>2, <1>3 DEF HostedInv, Requested
<1>7. SentTrue' /\ StatusTrue' /\ EventsDone'
  <2>1. SentTrue'
    BY <1>3, <1>4 DEF HostedInv, SentTrue
  <2>2. StatusTrue'
    BY <1>2, <1>3 DEF HostedInv, StatusTrue
  <2>3. EventsDone'
    BY <1>3, <1>4 DEF HostedInv, EventsDone
  <2> QED BY <2>1, <2>2, <2>3
<1>8. \A q \in Payments : q # p => (Outstanding(q)' <=> Outstanding(q))
  BY <1>3 DEF Outstanding
<1>9. \A q \in Payments : pay[q].of = o => ~Outstanding(q)
  BY NoneOutstanding DEF Issues
<1>10. OneOutstanding'
  BY <1>2, <1>3, <1>8, <1>9 DEF HostedInv, OneOutstanding
<1>11. CanceledOutstanding'
  <2> SUFFICES ASSUME NEW q \in Payments, Outstanding(q)', pay'[q].st = "canceled"
               PROVE  ord'[pay'[q].of].st = "canceled" /\ ord'[pay'[q].of].by
    BY DEF CanceledOutstanding, Closed
  <2>1. q # p
    BY <1>2, <1>3
  <2>2. Outstanding(q) /\ pay'[q] = pay[q]
    BY <1>3, <1>8, <2>1
  <2>3. Closed(pay[q].of) /\ pay[q].of \in Orders
    <3>1. Closed(pay[q].of)
      BY <2>2 DEF HostedInv, CanceledOutstanding
    <3>2. pay[q].st # "absent"
      BY <2>2
    <3> QED BY <1>1, <3>1, <3>2, RowHasOrder
  <2> QED BY <1>3, <2>2, <2>3 DEF Closed
<1>12. \A q \in Payments : q # p /\ pay[q].of = o
          /\ (Billed(q)' \/ (pay'[q].st = "success" /\ ~pay'[q].del)) => q \in Settled(pay, o)
  <2> SUFFICES ASSUME NEW q \in Payments, q # p, pay[q].of = o,
                      Billed(q)' \/ (pay'[q].st = "success" /\ ~pay'[q].del)
               PROVE  q \in Settled(pay, o)
    OBVIOUS
  <2>1. pay'[q] = pay[q] /\ inv'[q] = inv[q]
    BY <1>3
  <2>2. CASE pay'[q].st = "success" /\ ~pay'[q].del
    BY <2>1, <2>2 DEF Settled
  <2>3. CASE Billed(q)'
    <3>1. inv[q] = "settled" /\ pay[q].st = "success"
      BY <1>9, <2>1, <2>3 DEF Billed, Outstanding
    <3>2. ~pay[q].del
      BY <3>1 DEF HostedInv, Requested
    <3> QED BY <3>1, <3>2 DEF Settled
  <2> QED BY <2>2, <2>3
<1>13. SequencesDiffer'
  <2> SUFFICES ASSUME NEW q \in Payments, NEW w \in Payments,
                      Billed(q)', w # q, pay'[w].of = pay'[q].of,
                      Billed(w)' \/ (pay'[w].st = "success" /\ ~pay'[w].del)
               PROVE  pay'[w].seq # pay'[q].seq
    BY DEF SequencesDiffer
  <2>n. \A x \in Payments : x \in Settled(pay, o) => pay[x].seq \in Nat
    BY <1>1 DEF Tables, PayRow
  <2>1. CASE q = p
    <3>1. w \in Settled(pay, o) /\ pay'[w] = pay[w]
      BY <1>2, <1>3, <1>12, <2>1
    <3> QED BY <1>2, <1>3, <2>1, <2>n, <3>1
  <2>2. CASE w = p
    <3>1. q \in Settled(pay, o) /\ pay'[q] = pay[q]
      BY <1>2, <1>3, <1>12, <2>2
    <3> QED BY <1>2, <1>3, <2>2, <2>n, <3>1
  <2>3. CASE q # p /\ w # p
    <3>1. /\ pay'[q] = pay[q] /\ pay'[w] = pay[w]
          /\ Billed(q) /\ (Billed(w)' => Billed(w))
      BY <1>3, <2>3 DEF Billed
    <3> QED BY <3>1 DEF HostedInv, SequencesDiffer
  <2> QED BY <2>1, <2>2, <2>3
<1> QED BY <1>5, <1>6, <1>7, <1>10, <1>11, <1>13 DEF HostedInv

-----------------------------------------------------------------------------
(* What becomes of a bill                                                  *)

(* Only statuses of rows change, no settled row is taken back, and only a  *)
(* row whose invoice is settled becomes one.                               *)
Records ==
  /\ \A q \in Payments :
       /\ pay'[q] = [pay[q] EXCEPT !.st = pay'[q].st]
       /\ pay[q].st # "absent" => pay'[q].st # "absent"
       /\ pay[q].st = "success" => pay'[q].st = "success"
       /\ pay'[q].st = "success" => pay[q].st = "success" \/ inv[q] = "settled"
  /\ events \subseteq events' /\ events' \subseteq sent
  /\ UNCHANGED <<inv, sent, bare>>

(* Steps that only write statuses keep what does not speak of them.        *)
LEMMA RecordingKeeps ==
  ASSUME HostedInv, LedgerInv', Records, StatusTrue', EventsDone', CanceledOutstanding'
  PROVE  HostedInv'
<1>1. /\ \A q \in Payments : pay[q] \in PayRow
      /\ inv' = inv /\ sent' = sent /\ bare' = bare /\ events' \subseteq sent
  BY DEF HostedInv, TypeOKHosted, TypeOK, Records
<1>2. \A q \in Payments :
        /\ pay'[q].of = pay[q].of /\ pay'[q].rail = pay[q].rail
        /\ pay'[q].gross = pay[q].gross /\ pay'[q].seq = pay[q].seq
        /\ pay'[q].del = pay[q].del
  BY <1>1 DEF Records, PayRow
<1>3. TypeOKHosted'
  <2>1. TypeOK'
    BY DEF LedgerInv
  <2> QED BY <1>1, <2>1 DEF TypeOKHosted, HostedInv
<1>4. Requested'
  BY <1>1, <1>2 DEF HostedInv, Requested, Records
<1>5. SentTrue'
  BY <1>1 DEF HostedInv, SentTrue
<1>6. \A q \in Payments : Outstanding(q)' => Outstanding(q)
  BY <1>1 DEF Outstanding, Records
<1>7. OneOutstanding'
  BY <1>2, <1>6 DEF HostedInv, OneOutstanding
<1>8. SequencesDiffer'
  <2>1. \A q \in Payments : pay'[q].st = "success" /\ ~pay'[q].del =>
          Billed(q) \/ (pay[q].st = "success" /\ ~pay[q].del)
    BY <1>2 DEF Records, Billed
  <2>2. \A q \in Payments : Billed(q)' <=> Billed(q)
    BY <1>1 DEF Billed
  <2> QED BY <1>2, <2>1, <2>2 DEF HostedInv, SequencesDiffer
<1> QED BY <1>3, <1>4, <1>5, <1>7, <1>8 DEF HostedInv

(* The steps that write no status                                          *)
LEMMA IdleKeeps ==
  ASSUME HostedInv, LedgerInv', UNCHANGED <<ord, pay, inv, sent, events, bare>>
  PROVE  HostedInv'
<1>1. Records
  <2>1. \A q \in Payments : pay[q] = [pay[q] EXCEPT !.st = pay[q].st]
    BY DEF HostedInv, TypeOKHosted, TypeOK, PayRow
  <2> QED BY <2>1 DEF Records, HostedInv, TypeOKHosted
<1>2. StatusTrue' /\ EventsDone'
  BY DEF HostedInv, StatusTrue, EventsDone
<1>3. CanceledOutstanding'
  BY DEF HostedInv, CanceledOutstanding, Outstanding, Closed
<1> QED BY <1>1, <1>2, <1>3, RecordingKeeps

(* DOKU's answer is written only over a reservation still open.            *)
LEMMA AnswerKeeps ==
  ASSUME HostedInv, LedgerInv', NEW p \in Payments, Answer(p)
  PROVE  HostedInv'
<1>1. /\ \A q \in Payments : pay[q] \in PayRow
      /\ inv' = inv /\ sent' = sent /\ bare' = bare /\ events' = events /\ ord' = ord
      /\ events \subseteq sent
  BY DEF HostedInv, TypeOKHosted, TypeOK, Answer, HostedAnswer, provider
<1>2. /\ pay'[p] = [pay[p] EXCEPT !.st = IF pay[p].st = "created" THEN "pending" ELSE pay[p].st]
      /\ \A q \in Payments : q # p => pay'[q] = pay[q]
  BY DEF HostedInv, TypeOKHosted, TypeOK, Answer, HostedAnswer
<1>3. \A q \in Payments :
        /\ pay'[q] = [pay[q] EXCEPT !.st = pay'[q].st]
        /\ pay'[q].of = pay[q].of
        /\ \/ pay'[q].st = pay[q].st
           \/ pay[q].st = "created" /\ pay'[q].st = "pending"
  BY <1>1, <1>2 DEF PayRow
<1>4. Records
  BY <1>1, <1>3 DEF Records
<1>5. StatusTrue'
  BY <1>1, <1>3 DEF HostedInv, StatusTrue
<1>6. EventsDone'
  BY <1>1, <1>3 DEF HostedInv, EventsDone
<1>7. CanceledOutstanding'
  <2> SUFFICES ASSUME NEW q \in Payments, Outstanding(q)', pay'[q].st = "canceled"
               PROVE  ord'[pay'[q].of].st = "canceled" /\ ord'[pay'[q].of].by
    BY DEF CanceledOutstanding, Closed
  <2>1. pay[q].st = "canceled" /\ Outstanding(q)
    BY <1>1, <1>3 DEF Outstanding
  <2>2. ord[pay[q].of].st = "canceled" /\ ord[pay[q].of].by
    BY <2>1 DEF HostedInv, CanceledOutstanding, Closed
  <2>3. pay'[q].of = pay[q].of
    BY <1>3
  <2> QED BY <1>1, <2>2, <2>3
<1> QED BY <1>4, <1>5, <1>6, <1>7, RecordingKeeps

(* A cancellation closes the order of the bill it leaves outstanding.      *)
LEMMA CancelKeeps ==
  ASSUME HostedInv, LedgerInv', NEW o \in Orders, Cancel(o)
  PROVE  HostedInv'
<1>1. /\ \A q \in Payments : pay[q] \in PayRow
      /\ inv' = inv /\ sent' = sent /\ bare' = bare /\ events' = events
      /\ events \subseteq sent
  BY DEF HostedInv, TypeOKHosted, TypeOK, Cancel, UserCancel, provider
<1>2. \A q \in Payments :
        \/ pay'[q] = pay[q]
        \/ /\ pay[q].of = o /\ pay[q].st \in {"created", "pending"}
           /\ pay'[q] = [pay[q] EXCEPT !.st = "canceled"]
  BY DEF Cancel, UserCancel, Live
<1>3. \A q \in Payments :
        /\ pay'[q] = [pay[q] EXCEPT !.st = pay'[q].st]
        /\ pay'[q].of = pay[q].of
        /\ \/ pay'[q].st = pay[q].st
           \/ pay[q].of = o /\ pay[q].st \in {"created", "pending"} /\ pay'[q].st = "canceled"
  BY <1>1, <1>2 DEF PayRow
<1>4. Records
  BY <1>1, <1>3 DEF Records
<1>5. StatusTrue'
  BY <1>1, <1>3 DEF HostedInv, StatusTrue
<1>6. EventsDone'
  BY <1>1, <1>3 DEF HostedInv, EventsDone
<1>7. \A x \in Orders : Closed(x) \/ x = o => ord'[x].st = "canceled" /\ ord'[x].by
  BY DEF HostedInv, LedgerInv, TypeOK, Cancel, UserCancel, Closed
<1>8. CanceledOutstanding'
  <2> SUFFICES ASSUME NEW q \in Payments, Outstanding(q)', pay'[q].st = "canceled"
               PROVE  ord'[pay'[q].of].st = "canceled" /\ ord'[pay'[q].of].by
    BY DEF CanceledOutstanding, Closed
  <2>1. Outstanding(q)
    BY <1>1, <1>3 DEF Outstanding
  <2>2. pay[q].of \in Orders
    <3>1. pay[q].st # "absent"
      BY <2>1 DEF Outstanding, HostedInv, Requested
    <3> QED BY <3>1, RowHasOrder DEF HostedInv
  <2>3. Closed(pay[q].of) \/ pay[q].of = o
    BY <1>3, <2>1 DEF HostedInv, CanceledOutstanding
  <2> QED BY <1>3, <1>7, <2>2, <2>3
<1> QED BY <1>4, <1>5, <1>6, <1>8, RecordingKeeps

(* A notification opens a closed order only by settling the bill that was  *)
(* outstanding on it.                                                      *)
LEMMA ApplyKeeps ==
  ASSUME HostedInv, LedgerInv', NEW p \in Payments, NEW s \in DokuStatuses, Apply(p, s)
  PROVE  HostedInv'
<1> DEFINE new == DokuResult(pay[p], s)
<1>1. /\ \A q \in Payments : pay[q] \in PayRow
      /\ pay \in [Payments -> PayRow] /\ LedgerInv
      /\ inv' = inv /\ sent' = sent /\ bare' = bare /\ events' = events \cup {<<p, s>>}
      /\ events \subseteq sent /\ <<p, s>> \in sent
  BY DEF HostedInv, TypeOKHosted, TypeOK, Apply, DokuApply
<1>2. /\ inv[p] # "none"
      /\ s = "SUCCESS" => inv[p] = "settled"
      /\ s \in {"EXPIRED", "CANCELLED"} => inv[p] = "void"
  BY <1>1 DEF HostedInv, SentTrue
<1>3. pay[p].rail = "doku" /\ pay[p].st # "absent" /\ pay[p].of \in Orders
  <2>1. pay[p].rail = "doku" /\ pay[p].st # "absent"
    BY <1>2 DEF HostedInv, Requested
  <2> QED BY <1>1, <2>1, RowHasOrder
<1>4. /\ new # "absent"
      /\ new # "canceled"
      /\ pay[p].st = "success" \/ s = "SUCCESS" => new = "success"
      /\ new = "success" => pay[p].st = "success" \/ inv[p] = "settled"
      /\ new \in {"failed", "expired"} => inv[p] = "void"
  BY <1>2, <1>3 DEF DokuResult, DokuStatuses
<1>5. pay' = [pay EXCEPT ![p].st = new] /\ Reconcile(pay', pay[p].of)
  BY DEF Apply, DokuApply, Reconcile
<1> HIDE DEF new
<1>6. /\ \A q \in Payments : q # p => pay'[q] = pay[q]
      /\ pay'[p] = [pay[p] EXCEPT !.st = new]
      /\ pay'[p].st = new /\ pay'[p].of = pay[p].of
  BY <1>1, <1>5 DEF PayRow
<1>7. \A q \in Payments : q # p => pay'[q] = [pay[q] EXCEPT !.st = pay'[q].st]
  BY <1>1, <1>6 DEF PayRow
<1>8. Records
  BY <1>1, <1>4, <1>6, <1>7 DEF Records
<1>9. StatusTrue'
  <2>1. pay'[p].st = "success" => inv[p] = "settled"
    BY <1>2, <1>4, <1>6 DEF HostedInv, StatusTrue
  <2> QED BY <1>1, <1>4, <1>6, <2>1 DEF HostedInv, StatusTrue
<1>10. EventsDone'
  <2> SUFFICES ASSUME NEW q \in Payments, <<q, "SUCCESS">> \in events'
               PROVE  pay'[q].st = "success"
    BY DEF EventsDone
  <2>1. CASE <<q, "SUCCESS">> \in events
    <3>1. pay[q].st = "success"
      BY <2>1 DEF HostedInv, EventsDone
    <3> QED BY <1>4, <1>6, <3>1
  <2>2. CASE q = p /\ s = "SUCCESS"
    BY <1>4, <1>6, <2>2
  <2> QED BY <1>1, <2>1, <2>2
<1>11. CanceledOutstanding'
  <2> SUFFICES ASSUME NEW q \in Payments, Outstanding(q)', pay'[q].st = "canceled"
               PROVE  ord'[pay'[q].of].st = "canceled" /\ ord'[pay'[q].of].by
    BY DEF CanceledOutstanding, Closed
  <2>1. q # p
    BY <1>4, <1>6
  <2>2. pay'[q] = pay[q] /\ Outstanding(q) /\ pay[q].of \in Orders /\ Closed(pay[q].of)
    <3>1. pay'[q] = pay[q] /\ Outstanding(q)
      BY <1>1, <1>6, <2>1 DEF Outstanding
    <3>2. pay[q].st = "canceled"
      BY <3>1
    <3> QED BY <1>1, <3>1, <3>2, RowHasOrder DEF HostedInv, CanceledOutstanding
  <2>3. ASSUME ~(ord'[pay[q].of].st = "canceled" /\ ord'[pay[q].of].by) PROVE FALSE
    <3> PICK x \in Orders : x = pay[q].of
      BY <2>2
    <3>1. pay' \in Tables
      BY DEF LedgerInv, TypeOK, Tables
    <3>2. ord' = [ord EXCEPT ![pay[p].of] = OrderAfter(ord[pay[p].of], pay', pay[p].of)]
      BY <1>1, <1>3, <1>5 DEF Reconcile, HostedInv, LedgerInv, TypeOK
    <3>3. x = pay[p].of
      BY <1>1, <2>2, <2>3, <3>2 DEF Closed, LedgerInv, TypeOK
    <3>4. Paid(pay', x) > 0
      <4>1. Closed(x) /\ ~Closed(x)'
        BY <2>2, <2>3 DEF Closed
      <4> QED BY <1>1, <1>3, <1>5, <3>1, <4>1, ReconcileReopens
    <3>5. ~(Paid(pay, x) > 0)
      BY <2>2 DEF HostedInv, LedgerInv, MoneyKeepsOrderOpen, Closed
    <3>6. CASE Outstanding(p)
      BY <2>1, <2>2, <3>3, <3>6 DEF HostedInv, OneOutstanding
    <3>7. CASE ~Outstanding(p) /\ pay[p].st = "success"
      <4>1. pay'[p] = pay[p]
        BY <1>1, <1>4, <1>6, <3>7 DEF PayRow
      <4>2. \A w \in Payments :
              pay'[w] = pay[w] \/ (pay[w].st # "success" /\ pay'[w].st # "success")
        BY <1>6, <4>1
      <4> QED BY <3>4, <3>5, <4>2, UnsettledTouch
    <3>8. CASE ~Outstanding(p) /\ pay[p].st # "success"
      <4>1. new # "success"
        BY <1>4, <3>8 DEF Outstanding
      <4>2. \A w \in Payments :
              pay'[w] = pay[w] \/ (pay[w].st # "success" /\ pay'[w].st # "success")
        BY <1>6, <3>8, <4>1
      <4> QED BY <3>4, <3>5, <4>2, UnsettledTouch
    <3> QED BY <3>6, <3>7, <3>8
  <2> QED BY <2>2, <2>3
<1> QED BY <1>8, <1>9, <1>10, <1>11, RecordingKeeps

-----------------------------------------------------------------------------
(* The invariant holds before any bill.                                    *)
LEMMA HostedInit == InitHosted => HostedInv
<1> SUFFICES ASSUME InitHosted PROVE HostedInv
  OBVIOUS
<1>1. LedgerInv
  BY InitInv DEF InitHosted
<1>2. \A p \in Payments : inv[p] = "none"
  BY DEF InitHosted
<1>3. TypeOKHosted
  <2>1. TypeOK
    BY <1>1 DEF LedgerInv
  <2> QED BY <2>1 DEF InitHosted, TypeOKHosted, Invoices, NoBare
<1>4. Requested /\ StatusTrue /\ SentTrue /\ EventsDone
  BY <1>2 DEF InitHosted, Requested, StatusTrue, SentTrue, EventsDone
<1>5. OneOutstanding /\ CanceledOutstanding /\ SequencesDiffer
  BY <1>2 DEF OneOutstanding, CanceledOutstanding, SequencesDiffer, Outstanding, Billed
<1> QED BY <1>1, <1>3, <1>4, <1>5 DEF HostedInv

(* Every step of hosted checkout keeps it.                                 *)
LEMMA HostedNext ==
  ASSUME LegacyEntry = {}, HostedInv, [NextHosted]_allVars
  PROVE  HostedInv'
<1>1. LedgerInv'
  BY LedgerStep, NextInv DEF HostedInv
<1>2. CASE UNCHANGED allVars
  <2>1. UNCHANGED <<ord, pay, inv, sent, events, bare>>
    BY <1>2 DEF allVars, vars, provider
  <2> QED BY <1>1, <2>1, IdleKeeps
<1>3. ASSUME NEW o \in Orders, NEW p \in Payments, Reserve(o, p) \/ Continue(o, p)
      PROVE  HostedInv'
  BY <1>1, <1>3, IssuingSteps, IssuingKeeps
<1>4. ASSUME NEW p \in Payments, Answer(p)
      PROVE  HostedInv'
  BY <1>1, <1>4, AnswerKeeps
<1>5. ASSUME NEW p \in Payments, NoAnswer(p) \/ Find(p)
      PROVE  HostedInv'
  <2>1. UNCHANGED <<ord, pay, inv, sent, events, bare>>
    BY <1>5 DEF NoAnswer, Find, HostedNoAnswer, DokuFind, provider
  <2> QED BY <1>1, <2>1, IdleKeeps
<1>6. ASSUME NEW p \in Payments,
             \/ InvoiceOpens(p) \/ RequestLost(p) \/ CustomerPays(p) \/ ChannelFails(p)
             \/ \E s \in DokuStatuses : InvoiceEnds(p, s)
      PROVE  HostedInv'
  <2>1. TypeOKHosted
    BY DEF HostedInv
  <2> QED BY <1>1, <1>6, <2>1, ProviderSteps, ProviderKeeps
<1>7. ASSUME NEW p \in Payments, NEW s \in DokuStatuses, Apply(p, s)
      PROVE  HostedInv'
  BY <1>1, <1>7, ApplyKeeps
<1>8. ASSUME NEW o \in Orders, Cancel(o)
      PROVE  HostedInv'
  BY <1>1, <1>8, CancelKeeps
<1> QED BY <1>2, <1>3, <1>4, <1>5, <1>6, <1>7, <1>8 DEF NextHosted

(* The invariant that ties the ledger to DOKU's invoices.                  *)
THEOREM HostedInvariant ==
  ASSUME LegacyEntry = {}
  PROVE  SpecHosted => []HostedInv
BY HostedInit, HostedNext, PTL DEF SpecHosted

(* Rows, invoices, notifications and legacy entries stay well formed.      *)
THEOREM HostedTypes ==
  ASSUME LegacyEntry = {}
  PROVE  SpecHosted => []TypeOKHosted
<1>1. HostedInv => TypeOKHosted
  BY DEF HostedInv
<1> QED BY <1>1, HostedInvariant, PTL

-----------------------------------------------------------------------------
(* A collected bill whose row is settled is counted, since no other        *)
(* settled row has its sequence.                                           *)
LEMMA SettledBillCounts ==
  ASSUME HostedInv, NEW p \in Payments, inv[p] = "settled", pay[p].st = "success"
  PROVE  p \in Counted(pay, pay[p].of)
<1>1. p \in Settled(pay, pay[p].of)
  BY DEF HostedInv, Requested, Settled
<1>2. \A q \in Settled(pay, pay[p].of) : pay[q].seq = pay[p].seq => q = p
  BY DEF HostedInv, SequencesDiffer, Settled, Billed
<1>3. p <= p
  BY RowIds
<1> QED BY <1>1, <1>2, <1>3 DEF Counted

(* Money DOKU has settled and the application has acknowledged is money    *)
(* of its order for good (handle_doku_notification).                       *)
THEOREM SettledMoneyCounts ==
  ASSUME LegacyEntry = {}
  PROVE  SpecHosted => []SettledIsCounted
<1>1. ASSUME HostedInv PROVE SettledIsCounted
  <2> SUFFICES ASSUME NEW p \in Payments, <<p, "SUCCESS">> \in events
               PROVE  p \in Counted(pay, pay[p].of) /\ Paid(pay, pay[p].of) > 0
    BY DEF SettledIsCounted
  <2>1. pay[p].st = "success" /\ inv[p] = "settled"
    <3>1. <<p, "SUCCESS">> \in sent
      BY <1>1 DEF HostedInv, TypeOKHosted
    <3>2. inv[p] = "settled"
      BY <1>1, <3>1 DEF HostedInv, SentTrue, DokuStatuses
    <3> QED BY <1>1, <3>2 DEF HostedInv, EventsDone
  <2>2. p \in Counted(pay, pay[p].of)
    BY <1>1, <2>1, SettledBillCounts
  <2>3. pay[p].of \in Orders /\ Total[pay[p].of] > 0 /\ pay[p].gross > 0 /\ pay \in Tables
    <3>1. pay[p].st # "absent" /\ Total[pay[p].of] > 0 /\ pay[p].gross > 0
      BY <1>1, <2>1 DEF HostedInv, Requested
    <3>2. LedgerInv /\ pay \in Tables
      BY <1>1 DEF HostedInv, LedgerInv, TypeOK, Tables
    <3> QED BY <3>1, <3>2, RowHasOrder
  <2>4. Collected(pay, pay[p].of) >= pay[p].gross
    <3> DEFINE C == Counted(pay, pay[p].of)
    <3>1. C \in SUBSET Payments /\ {p} \in SUBSET C
      BY <2>2 DEF Counted, Settled
    <3>2. Cardinality(Units(pay, {p})) <= Cardinality(Units(pay, C))
      BY <2>3, <3>1, UnitsMonotone
    <3>3. Cardinality(Units(pay, {p})) = pay[p].gross
      BY <2>3, UnitsOne
    <3> QED BY <3>2, <3>3 DEF Collected
  <2>5. Collected(pay, pay[p].of) \in Nat /\ Total[pay[p].of] \in Nat /\ pay[p].gross \in Nat
    BY <2>3, PaidBounds DEF Tables, PayRow
  <2>6. Paid(pay, pay[p].of) > 0
    BY <2>3, <2>4, <2>5 DEF Paid, Min2
  <2> QED BY <2>2, <2>6
<1> QED BY <1>1, HostedInvariant, PTL

-----------------------------------------------------------------------------
(* The refinement                                                          *)

BillOf(o) == Cardinality(Units(pay, PayableRows(o)))
GotOf(o)  == Cardinality(Units(pay, SettledRows(o)))

(* What the payable rows of an order ask for.                              *)
LEMMA OnePayable ==
  ASSUME HostedInv, NEW p \in Payments, inv[p] \in {"requested", "payable"}
  PROVE  /\ PayableRows(pay[p].of) = {p}
         /\ BillOf(pay[p].of) = pay[p].gross
         /\ pay[p].gross \in Nat \ {0}
         /\ pay[p].of \in Orders
<1>1. pay \in Tables /\ LedgerInv
  BY DEF HostedInv, LedgerInv, TypeOK, Tables
<1>2. PayableRows(pay[p].of) = {p}
  BY DEF HostedInv, OneOutstanding, Outstanding, PayableRows, RowsOf
<1>3. pay[p].gross \in Nat \ {0} /\ pay[p].st # "absent"
  BY <1>1 DEF HostedInv, Requested, Tables, PayRow
<1> QED BY <1>1, <1>2, <1>3, UnitsOne, RowHasOrder DEF BillOf

(* Nothing else of an order changes when only rows that DOKU does not bill *)
(* and statuses change.                                                    *)
LEMMA SameBills ==
  ASSUME NEW o,
         \A p \in Payments : inv[p] # "none" \/ inv'[p] # "none" =>
           /\ inv'[p] = inv[p]
           /\ pay'[p].of = pay[p].of /\ pay'[p].gross = pay[p].gross
  PROVE  BillOf(o)' = BillOf(o) /\ GotOf(o)' = GotOf(o)
<1>1. PayableRows(o)' = PayableRows(o) /\ SettledRows(o)' = SettledRows(o)
  BY DEF PayableRows, SettledRows, RowsOf
<1>2. \A p \in PayableRows(o) \cup SettledRows(o) : pay'[p].gross = pay[p].gross
  BY DEF PayableRows, SettledRows, RowsOf
<1>3. /\ Units(pay', PayableRows(o)) = Units(pay, PayableRows(o))
      /\ Units(pay', SettledRows(o)) = Units(pay, SettledRows(o))
  BY <1>2, UnitsSame
<1> QED BY <1>1, <1>3 DEF BillOf, GotOf

(* No bill, no units.                                                      *)
LEMMA NoBill == ASSUME NEW P PROVE Cardinality(Units(P, {})) = 0
<1>1. Units(P, {}) = {}
  BY DEF Units
<1> QED BY <1>1, FS_EmptySet

(* A new bill asks for no more than what has not been collected.           *)
LEMMA IssuesMaps ==
  ASSUME HostedInv, NEW o \in Orders, NEW p \in Payments, Issues(o, p)
  PROVE  /\ BillOf(o) = 0
         /\ BillOf(o)' \in 1 .. (Total[o] - GotOf(o))
         /\ GotOf(o)' = GotOf(o)
         /\ \A x \in Orders \ {o} : BillOf(x)' = BillOf(x) /\ GotOf(x)' = GotOf(x)
<1> DEFINE b == HostedBill(o)
<1>1. pay \in Tables /\ inv \in [Payments -> Invoices] /\ LedgerInv
  BY DEF HostedInv, LedgerInv, TypeOK, TypeOKHosted, Tables
<1>2. /\ b \in PayRow /\ b.of = o
      /\ b.gross \in Nat \ {0} /\ b.gross <= Total[o] - Collected(pay, o)
      /\ Total[o] \in Nat /\ Collected(pay, o) \in Nat
  <2>1. Remaining(pay, o) > 0
    BY DEF Issues
  <2>2. b \in PayRow /\ b.of = o
    BY <1>1, HostedBillRow
  <2> HIDE DEF b
  <2>3. /\ b.gross \in Nat \ {0} /\ b.gross <= Remaining(pay, o)
        /\ Remaining(pay, o) = Total[o] - Collected(pay, o)
        /\ Total[o] \in Nat /\ Collected(pay, o) \in Nat
    BY <2>1, BillAmount DEF b
  <2> QED BY <2>2, <2>3
<1> HIDE DEF b
<1>3. /\ pay'[p] = b /\ \A q \in Payments : q # p => pay'[q] = pay[q]
      /\ inv'[p] = "requested" /\ \A q \in Payments : q # p => inv'[q] = inv[q]
      /\ inv[p] = "none"
  BY <1>1 DEF HostedInv, Requested, Issues, b, Tables
<1>4. \A q \in Payments : pay[q].of = o => ~Outstanding(q)
  BY NoneOutstanding DEF Issues
<1>5. PayableRows(o) = {} /\ PayableRows(o)' = {p}
  BY <1>2, <1>3, <1>4 DEF PayableRows, RowsOf, Outstanding
<1>6. BillOf(o) = 0
  BY <1>5, NoBill DEF BillOf
<1>7. BillOf(o)' = b.gross
  <2>1. pay' \in Tables
    BY <1>1, <1>2 DEF Issues, Tables, b
  <2>2. Cardinality(Units(pay', {p})) = pay'[p].gross
    BY <2>1, UnitsOne
  <2> QED BY <1>3, <1>5, <2>2 DEF BillOf
<1>8. ASSUME NEW x \in Orders
      PROVE  GotOf(x)' = GotOf(x) /\ (x # o => BillOf(x)' = BillOf(x))
  <2>1. SettledRows(x)' = SettledRows(x) /\ (x # o => PayableRows(x)' = PayableRows(x))
    BY <1>2, <1>3 DEF SettledRows, PayableRows, RowsOf
  <2>2. \A q \in PayableRows(x) \cup SettledRows(x) : pay'[q].gross = pay[q].gross
    BY <1>3 DEF PayableRows, SettledRows, RowsOf
  <2>3. /\ Units(pay', PayableRows(x)) = Units(pay, PayableRows(x))
        /\ Units(pay', SettledRows(x)) = Units(pay, SettledRows(x))
    BY <2>2, UnitsSame
  <2> QED BY <2>1, <2>3 DEF BillOf, GotOf
<1>9. GotOf(o) \in Nat /\ GotOf(o) <= Collected(pay, o)
  <2>1. Counted(pay, o) \in SUBSET Payments
    BY DEF Counted, Settled
  <2>2. SettledRows(o) \in SUBSET Counted(pay, o)
    BY <1>4, SettledBillCounts DEF SettledRows, RowsOf, Outstanding
  <2>3. Cardinality(Units(pay, SettledRows(o))) <= Collected(pay, o)
    BY <1>1, <2>1, <2>2, UnitsMonotone DEF Collected
  <2>4. Cardinality(Units(pay, SettledRows(o))) \in Nat
    BY <1>1, <2>1, <2>2, UnitsFinite
  <2> QED BY <2>3, <2>4 DEF GotOf
<1> QED BY <1>2, <1>6, <1>7, <1>8, <1>9

(* DOKU collects the bill of an order, or voids it, or nothing happens to  *)
(* it.                                                                     *)
LEMMA ProvidesMaps ==
  ASSUME HostedInv, NEW p \in Payments, NEW x, Provides(p, x), NEW o, o = pay[p].of
  PROVE  /\ x \in {"payable", "settled", "void"}
         /\ \A y \in Orders \ {o} : BillOf(y)' = BillOf(y) /\ GotOf(y)' = GotOf(y)
         /\ o \in Orders /\ BillOf(o) > 0 /\ GotOf(o) \in Nat
         /\ x = "payable" => BillOf(o)' = BillOf(o) /\ GotOf(o)' = GotOf(o)
         /\ x = "settled" => BillOf(o)' = 0 /\ GotOf(o)' = GotOf(o) + BillOf(o)
         /\ x = "void" => BillOf(o)' = 0 /\ GotOf(o)' = GotOf(o)
<1>1. /\ inv \in [Payments -> Invoices] /\ pay \in Tables
      /\ inv' = [inv EXCEPT ![p] = x] /\ x \in {"payable", "settled", "void"}
      /\ inv[p] \in {"requested", "payable"}
      /\ pay' = pay
  BY DEF HostedInv, TypeOKHosted, TypeOK, Tables, Provides, vars
<1>2. inv'[p] = x /\ \A q \in Payments : q # p => inv'[q] = inv[q]
  BY <1>1
<1>3. /\ PayableRows(o) = {p} /\ BillOf(o) = pay[p].gross /\ pay[p].gross \in Nat \ {0}
      /\ o \in Orders
  BY <1>1, OnePayable
<1>4. ASSUME NEW y \in Orders \ {o}
      PROVE  BillOf(y)' = BillOf(y) /\ GotOf(y)' = GotOf(y)
  <2>1. PayableRows(y)' = PayableRows(y) /\ SettledRows(y)' = SettledRows(y)
    BY <1>1, <1>2 DEF PayableRows, SettledRows, RowsOf
  <2> QED BY <1>1, <2>1 DEF BillOf, GotOf
<1>5. ASSUME x = "payable"
      PROVE  BillOf(o)' = BillOf(o) /\ GotOf(o)' = GotOf(o)
  <2>1. PayableRows(o)' = PayableRows(o) /\ SettledRows(o)' = SettledRows(o)
    BY <1>1, <1>2, <1>5 DEF PayableRows, SettledRows, RowsOf
  <2> QED BY <1>1, <1>5, <2>1 DEF BillOf, GotOf
<1>6. ASSUME x # "payable"
      PROVE  BillOf(o)' = 0
  <2>1. PayableRows(o)' = {}
    BY <1>1, <1>2, <1>3, <1>6 DEF PayableRows, RowsOf
  <2> QED BY <2>1, NoBill DEF BillOf
<1>7. SettledRows(o) \in SUBSET Payments /\ p \notin SettledRows(o)
  BY <1>1 DEF SettledRows, RowsOf
<1>8. ASSUME x = "void"
      PROVE  GotOf(o)' = GotOf(o)
  <2>1. SettledRows(o)' = SettledRows(o)
    BY <1>1, <1>2, <1>8 DEF SettledRows, RowsOf
  <2> QED BY <1>1, <1>8, <2>1 DEF GotOf
<1>9. ASSUME x = "settled"
      PROVE  GotOf(o)' = GotOf(o) + BillOf(o)
  <2>1. SettledRows(o)' = SettledRows(o) \cup {p}
    BY <1>1, <1>2, <1>9 DEF SettledRows, RowsOf
  <2>2. Cardinality(Units(pay, SettledRows(o) \cup {p}))
          = Cardinality(Units(pay, SettledRows(o))) + pay[p].gross
    BY <1>1, <1>7, UnitsAdd
  <2> QED BY <1>1, <1>3, <1>9, <2>1, <2>2 DEF GotOf
<1>10. GotOf(o) \in Nat
  BY <1>1, <1>7, UnitsFinite DEF GotOf
<1> QED BY <1>1, <1>3, <1>4, <1>5, <1>6, <1>8, <1>9, <1>10

(* The substitution of OneBillAtATime.                                     *)
Bills == [o \in Orders |-> BillOf(o)]
Gots  == [o \in Orders |-> GotOf(o)]

(* Every step is one of SingleBill or invisible to it.                     *)
LEMMA HostedRefines ==
  ASSUME LegacyEntry = {}, HostedInv, [NextHosted]_allVars
  PROVE  [Bill!Next]_<<Bills, Gots>>
<1>1. /\ pay \in [Payments -> PayRow]
      /\ \A p \in Payments : inv[p] # "none" => pay[p].rail = "doku" /\ pay[p].st # "absent"
  BY DEF HostedInv, TypeOKHosted, TypeOK, Requested
<1>2. ASSUME NEW o \in Orders, NEW p \in Payments, Reserve(o, p) \/ Continue(o, p)
      PROVE  Bill!Next
  <2>1. Issues(o, p)
    BY <1>2, IssuingSteps
  <2>2. /\ Bills[o] = 0
        /\ Bills'[o] \in 1 .. (Total[o] - Gots[o])
        /\ Bills' = [Bills EXCEPT ![o] = Bills'[o]]
        /\ Gots' = Gots
    BY <2>1, IssuesMaps DEF Bills, Gots
  <2>3. Bill!Issue(o)
    BY <2>2 DEF Bill!Issue, Bills, Gots, BillOf, GotOf
  <2> QED BY <2>3 DEF Bill!Next
<1>3. ASSUME NEW p \in Payments,
             \/ InvoiceOpens(p) \/ RequestLost(p) \/ CustomerPays(p) \/ ChannelFails(p)
             \/ \E s \in DokuStatuses : InvoiceEnds(p, s)
      PROVE  [Bill!Next]_<<Bills, Gots>>
  <2>1. PICK x \in {"payable", "settled", "void"} : Provides(p, x)
    BY <1>3, ProviderSteps DEF HostedInv
  <2>2. PICK o : o = pay[p].of
    OBVIOUS
  <2>3. /\ o \in Orders /\ BillOf(o) > 0
        /\ \A y \in Orders \ {o} : BillOf(y)' = BillOf(y) /\ GotOf(y)' = GotOf(y)
        /\ x = "payable" => BillOf(o)' = BillOf(o) /\ GotOf(o)' = GotOf(o)
        /\ x = "settled" => BillOf(o)' = 0 /\ GotOf(o)' = GotOf(o) + BillOf(o)
        /\ x = "void" => BillOf(o)' = 0 /\ GotOf(o)' = GotOf(o)
    BY <2>1, <2>2, ProvidesMaps
  <2>4. CASE x = "payable"
    <3>1. Bills' = Bills /\ Gots' = Gots
      BY <2>3, <2>4 DEF Bills, Gots
    <3> QED BY <3>1
  <2>5. CASE x = "settled"
    <3>1. /\ Bills[o] > 0
          /\ Gots' = [Gots EXCEPT ![o] = Gots[o] + Bills[o]]
          /\ Bills' = [Bills EXCEPT ![o] = 0]
      BY <2>3, <2>5 DEF Bills, Gots
    <3>2. Bill!Collect(o)
      BY <3>1 DEF Bill!Collect, Bills, Gots, BillOf, GotOf
    <3> QED BY <2>3, <3>2 DEF Bill!Next
  <2>6. CASE x = "void"
    <3>1. Bills[o] > 0 /\ Gots' = Gots /\ Bills' = [Bills EXCEPT ![o] = 0]
      BY <2>3, <2>6 DEF Bills, Gots
    <3>2. Bill!Void(o)
      BY <3>1 DEF Bill!Void, Bills, Gots, BillOf, GotOf
    <3> QED BY <2>3, <3>2 DEF Bill!Next
  <2> QED BY <2>4, <2>5, <2>6
<1>4. ASSUME \A p \in Payments : inv[p] # "none" \/ inv'[p] # "none" =>
               /\ inv'[p] = inv[p]
               /\ pay'[p].of = pay[p].of /\ pay'[p].gross = pay[p].gross
      PROVE  Bills' = Bills /\ Gots' = Gots
  BY <1>4, SameBills DEF Bills, Gots
<1>5. ASSUME UNCHANGED <<pay, inv>> PROVE Bills' = Bills /\ Gots' = Gots
  BY <1>4, <1>5
<1>6. ASSUME NEW p \in Payments, Answer(p) \/ NoAnswer(p) \/ Find(p)
      PROVE  Bills' = Bills /\ Gots' = Gots
  <2>1. /\ inv' = inv
        /\ \A q \in Payments : pay'[q].of = pay[q].of /\ pay'[q].gross = pay[q].gross
    BY <1>1, <1>6 DEF Answer, NoAnswer, Find, HostedAnswer, HostedNoAnswer, DokuFind,
       provider, PayRow
  <2> QED BY <1>4, <2>1
<1>7. ASSUME NEW p \in Payments, NEW s \in DokuStatuses, Apply(p, s)
      PROVE  Bills' = Bills /\ Gots' = Gots
  <2>1. /\ inv' = inv
        /\ \A q \in Payments : pay'[q].of = pay[q].of /\ pay'[q].gross = pay[q].gross
    BY <1>1, <1>7 DEF Apply, DokuApply, Reconcile, PayRow
  <2> QED BY <1>4, <2>1
<1>8. ASSUME NEW o \in Orders, Cancel(o)
      PROVE  Bills' = Bills /\ Gots' = Gots
  <2>1. inv' = inv /\ \A q \in Payments :
          pay'[q] = pay[q] \/ pay'[q] = [pay[q] EXCEPT !.st = "canceled"]
    BY <1>8 DEF Cancel, UserCancel, provider
  <2>2. \A q \in Payments : pay'[q].of = pay[q].of /\ pay'[q].gross = pay[q].gross
    BY <1>1, <2>1 DEF PayRow
  <2> QED BY <1>4, <2>1, <2>2
<1>9. CASE UNCHANGED allVars
  BY <1>5, <1>9 DEF allVars, vars, provider
<1> QED BY <1>2, <1>3, <1>6, <1>7, <1>8, <1>9 DEF NextHosted

(* The openings map to SingleBill's.                                       *)
LEMMA HostedStarts ==
  ASSUME InitHosted
  PROVE  Bill!Init
<1>1. ASSUME NEW o \in Orders PROVE BillOf(o) = 0 /\ GotOf(o) = 0
  <2>1. PayableRows(o) = {} /\ SettledRows(o) = {}
    BY DEF InitHosted, PayableRows, SettledRows, RowsOf
  <2> QED BY <2>1, NoBill DEF BillOf, GotOf
<1>2. Bills = [o \in Orders |-> 0] /\ Gots = [o \in Orders |-> 0]
  BY <1>1 DEF Bills, Gots
<1> QED BY <1>2 DEF Bill!Init, Bills, Gots, BillOf, GotOf

(* Hosted checkout by order_id implements SingleBill: an order never has   *)
(* two payable bills, and no bill asks for more than what is still due,    *)
(* whatever is lost, repeated or reordered between it and DOKU.            *)
THEOREM HostedImplementsSingleBill ==
  ASSUME LegacyEntry = {}
  PROVE  SpecHosted => OneBillAtATime
<1>1. InitHosted => Bill!Init
  BY HostedStarts
<1>2. HostedInv /\ [NextHosted]_allVars => [Bill!Next]_<<Bills, Gots>>
  BY HostedRefines
<1>3. HostedInv /\ [NextHosted]_allVars =>
        [Bill!Next]_<<[o \in Orders |-> Cardinality(Units(pay, PayableRows(o)))],
                      [o \in Orders |-> Cardinality(Units(pay, SettledRows(o)))]>>
  BY <1>2 DEF Bills, Gots, BillOf, GotOf
<1> QED BY <1>1, <1>3, HostedInvariant, PTL DEF SpecHosted, OneBillAtATime, Bill!Spec

(* A system that keeps SingleBill's promise never collects more than the   *)
(* total of an order, and never has more than the rest of it payable.      *)
THEOREM Overcharge == Bill!Spec => []Bill!NeverOvercharged
<1> DEFINE Inv == Bill!TypeOK /\ Bill!NeverOvercharged
<1>t. Total \in [Orders -> Nat]
  BY OrderConstants
<1> DEFINE B == [o \in Orders |-> Cardinality(Units(pay, PayableRows(o)))]
           G == [o \in Orders |-> Cardinality(Units(pay, SettledRows(o)))]
<1>d. /\ Bill!TypeOK <=> B \in [Orders -> Nat] /\ G \in [Orders -> Nat]
      /\ Bill!NeverOvercharged <=> \A o \in Orders : G[o] + B[o] <= Total[o]
      /\ Bill!Init <=> B = [o \in Orders |-> 0] /\ G = [o \in Orders |-> 0]
      /\ \A o \in Orders :
           /\ Bill!Issue(o) <=> /\ B[o] = 0
                               /\ \E amount \in 1 .. (Total[o] - G[o]) :
                                    B' = [B EXCEPT ![o] = amount]
                               /\ G' = G
           /\ Bill!Collect(o) <=> /\ B[o] > 0
                                 /\ G' = [G EXCEPT ![o] = @ + B[o]]
                                 /\ B' = [B EXCEPT ![o] = 0]
           /\ Bill!Void(o) <=> B[o] > 0 /\ B' = [B EXCEPT ![o] = 0] /\ G' = G
  BY DEF Bill!TypeOK, Bill!NeverOvercharged, Bill!Init, Bill!Issue, Bill!Collect, Bill!Void
<1>p. /\ Bill!TypeOK' <=> B' \in [Orders -> Nat] /\ G' \in [Orders -> Nat]
      /\ Bill!NeverOvercharged' <=> \A o \in Orders : G'[o] + B'[o] <= Total[o]
  BY DEF Bill!TypeOK, Bill!NeverOvercharged
<1> HIDE DEF B, G
<1>1. Bill!Init => Inv
  BY <1>t, <1>d
<1>2. Inv /\ [Bill!Next]_<<B, G>> => Inv'
  <2> SUFFICES ASSUME Inv, [Bill!Next]_<<B, G>> PROVE Bill!TypeOK' /\ Bill!NeverOvercharged'
    OBVIOUS
  <2>0. B \in [Orders -> Nat] /\ G \in [Orders -> Nat] /\ \A o \in Orders : G[o] + B[o] <= Total[o]
    BY <1>d
  <2>1. CASE UNCHANGED <<B, G>>
    BY <1>p, <2>0, <2>1
  <2>2. ASSUME NEW o \in Orders, Bill!Issue(o) PROVE Bill!TypeOK' /\ Bill!NeverOvercharged'
    BY <1>t, <1>d, <1>p, <2>0, <2>2
  <2>3. ASSUME NEW o \in Orders, Bill!Collect(o) PROVE Bill!TypeOK' /\ Bill!NeverOvercharged'
    BY <1>t, <1>d, <1>p, <2>0, <2>3
  <2>4. ASSUME NEW o \in Orders, Bill!Void(o) PROVE Bill!TypeOK' /\ Bill!NeverOvercharged'
    BY <1>t, <1>d, <1>p, <2>0, <2>4
  <2> QED BY <2>1, <2>2, <2>3, <2>4 DEF Bill!Next
<1>3. Inv /\ [Bill!Next]_<<[o \in Orders |-> Cardinality(Units(pay, PayableRows(o)))],
                            [o \in Orders |-> Cardinality(Units(pay, SettledRows(o)))]>> => Inv'
  BY <1>2 DEF B, G
<1>4. Inv => Bill!NeverOvercharged
  OBVIOUS
<1> QED BY <1>1, <1>3, <1>4, PTL DEF Bill!Spec

(* Hosted checkout never lets DOKU collect more than an order's total.     *)
THEOREM HostedNeverOvercharges ==
  ASSUME LegacyEntry = {}
  PROVE  SpecHosted => []Bill!NeverOvercharged
BY HostedImplementsSingleBill, Overcharge, PTL DEF OneBillAtATime
=============================================================================
