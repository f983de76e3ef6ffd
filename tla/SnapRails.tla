----------------------------- MODULE SnapRails ------------------------------
(***************************************************************************)
(* DOKU's direct products around the ledger: the per-method checkout of an *)
(* order (doku_order.py: virtual account, QRIS, card) and the older        *)
(* endpoints by registration (service.py: direct virtual account, QRIS,    *)
(* direct debit).  Each reads the order and its rows, asks DOKU over HTTP  *)
(* for a bill, and writes what it had decided when the answer comes.  The  *)
(* per-method checkout commits its row before the call; the older ones     *)
(* take over an existing row; the direct debit writes its row before the   *)
(* call and commits after, so that it is locked meanwhile.  A row names    *)
(* one bill at a time, and that is how notifications find it.              *)
(***************************************************************************)
EXTENDS Ledger

CONSTANT Bills   \* identifiers of the requests for bills sent to DOKU, in their order

ASSUME BillIds == Bills \subseteq Nat \ {0} /\ IsFiniteSet(Bills)

(* A behaviour starts before anything has been settled, with rows that are *)
(* numbered as they were inserted and ask for no more than their order's   *)
(* total, and for something when they are a segment of it.                 *)
ASSUME SnapOpenings ==
  \A s \in Openings : \A p \in Payments :
    s.pay[p].st # "absent" =>
      /\ s.pay[p].st # "success"
      /\ s.pay[p].gross <= Total[s.pay[p].of]
      /\ s.pay[p].seq # 0 => s.pay[p].gross > 0 \/ Total[s.pay[p].of] = 0
      /\ \A q \in Payments : q < p => s.pay[q].st # "absent"

VARIABLES
  bill,   \* each bill: what was asked of DOKU, and what became of it there
  call,   \* HTTP calls whose answer is awaited: bill and the order's status read
  named,  \* the bill whose reference or account number a row stores
  bound,  \* the participant has a direct debit binding with a token
  shown   \* bills whose account, code or page the user has been given

snap == <<bill, call, named, bound, shown>>
snapVars == <<vars, snap>>

Products == {"va", "qris", "card", "debit"}
Doors    == {"method", "legacy"}
BillStatuses == {"none", "asked", "open", "settled", "ended", "told"}

NoBill == [st |-> "none", of |-> 0, row |-> 0, product |-> "va", amount |-> 0,
           seq |-> 0, door |-> "method", late |-> FALSE]

BillRow == [st : BillStatuses, of : Orders \cup {0}, row : Payments \cup {0},
            product : Products, amount : Nat, seq : Nat, door : Doors,
            late : BOOLEAN]

TypeOKSnap ==
  /\ TypeOK
  /\ bill \in [Bills -> BillRow]
  /\ call \subseteq Bills \X OrderStatuses
  /\ named \in [Payments -> Bills \cup {0}]
  /\ bound \in BOOLEAN
  /\ shown \subseteq Bills
  /\ \A b \in shown : bill[b].st \notin {"none", "asked"}

InitSnap ==
  /\ Init
  /\ bill = [b \in Bills |-> NoBill]
  /\ call = {}
  /\ named = [p \in Payments |-> 0]
  /\ bound = FALSE
  /\ shown = {}

RailOf(product) == IF product = "card" THEN "doku" ELSE product

NextBill(b) == bill[b].st = "none" /\ \A c \in Bills : c < b => bill[c].st # "none"

(* What DOKU is asked for: the amount of the order's row, as a product.    *)
BillAsked(o, row, product, amount, seq, door) ==
  [st |-> "asked", of |-> o, row |-> row, product |-> product,
   amount |-> amount, seq |-> seq, door |-> door, late |-> FALSE]

Ask(b, o, row, product, amount, seq, door) ==
  /\ NextBill(b)
  /\ bill' = [bill EXCEPT ![b] = BillAsked(o, row, product, amount, seq, door)]
  /\ call' = call \cup {<<b, ord[o].st>>}

(* Rows and orders a direct debit keeps locked during its call: the row it *)
(* takes over, or the order its new row refers to.                         *)
Debits == {c[1] : c \in {d \in call : bill[d[1]].product = "debit"}}
RowFree(p) == \A b \in Debits : bill[b].row # p
Free(o) == \A b \in Debits : bill[b].of = o => bill[b].row # 0

Latest(P, S) == {p \in S : \A q \in S : q <= p}

(* The row's code, account or page is there to be shown again.             *)
Ready(p) == \E b \in shown : bill[b].row = p

-----------------------------------------------------------------------------
(* doku_order.create_payment                                               *)

\* A slip: only attempts that DOKU has answered block another one.
UndecidedAnswered(o) == {p \in Live(pay, o) : pay[p].st = "pending"}

Undecided(o) == {p \in Live(pay, o) : pay[p].st \in {"created", "pending"}}

(* Under the order's lock, up to the commit before the HTTP call.  QRIS    *)
(* charges one segment, the other methods all that remains; an account     *)
(* number is not known before DOKU answers.                                *)
ChooseMethod(b, o, p, product) ==
  /\ product \in {"va", "qris", "card"}
  /\ ord[o].st \in {"draft", "pending", "partially_paid"}
  /\ Undecided(o) = {}
  /\ Remaining(pay, o) > 0
  /\ Unused(p)
  /\ Free(o)
  /\ \E i \in 1 .. SegmentCount(o) :
       /\ NextSegment(o, i)
       /\ LET amount == IF product = "qris" THEN SegmentAmount(o, i) ELSE Remaining(pay, o)
          IN  /\ Ask(b, o, p, product, amount, i, "method")
              /\ pay' = [pay EXCEPT ![p] = NewPay(o, RailOf(product), "created", amount, i)]
  /\ named' = [named EXCEPT ![p] = IF product = "va" THEN 0 ELSE b]
  /\ UNCHANGED <<ord, reg, sel, calls, found, leaving, mtSeen, bound, shown>>

-----------------------------------------------------------------------------
(* The endpoints by registration, up to their HTTP call.  None of them     *)
(* locks the order or the row it takes over.                               *)

(* create_doku_qris: the segment's last QRIS row is used again unless its  *)
(* code can still be shown.                                                *)
AskQris(b, o, i) ==
  /\ ord[o].st \in {"draft", "pending", "partially_paid"}
  /\ NextSegment(o, i)
  /\ LET rows == Latest(pay, {p \in Live(pay, o) : pay[p].rail = "qris" /\ pay[p].seq = i})
     IN  /\ \A p \in rows : ~(pay[p].st \in {"created", "pending"} /\ Ready(p))
         /\ \E row \in IF rows = {} THEN {0} ELSE rows :
              Ask(b, o, row, "qris", SegmentAmount(o, i), i, "legacy")
  /\ UNCHANGED <<vars, named, bound, shown>>

(* create_doku_direct_va: the order's last row of any provider is used     *)
(* again unless it is undecided; a first row is committed before the call. *)
AskVa(b, o, p) ==
  /\ ord[o].st \in {"draft", "pending"}
  /\ IF Live(pay, o) = {} THEN Unused(p)
                          ELSE p \in Latest(pay, Live(pay, o)) \ Undecided(o)
  /\ Ask(b, o, p, "va", Total[o], 0, "legacy")
  /\ pay' = IF Live(pay, o) # {} THEN pay
            ELSE [pay EXCEPT ![p] = NewPay(o, "doku", "created", Total[o], 0)]
  /\ UNCHANGED <<ord, reg, sel, calls, found, leaving, mtSeen, named, bound, shown>>

(* create_doku_direct_debit_binding.  A binding that needs the bank's page *)
(* gets no token, and never will: nothing updates it.                      *)
Bind ==
  /\ bound' = TRUE
  /\ UNCHANGED <<vars, bill, call, named, shown>>

(* create_doku_direct_debit_payment: the order's last row is used again in *)
(* any status when it is DOKU's.                                           *)
AskDebit(b, o) ==
  /\ bound
  /\ ord[o].st \in {"draft", "pending"}
  /\ \A p \in Latest(pay, Live(pay, o)) : pay[p].rail \in {"doku", "va", "debit"}
  /\ \E row \in IF Live(pay, o) = {} THEN {0} ELSE Latest(pay, Live(pay, o)) :
       RowFree(row) /\ Ask(b, o, row, "debit", Total[o], 0, "legacy")
  /\ UNCHANGED <<vars, named, bound, shown>>

-----------------------------------------------------------------------------
\* A slip: the answer to a direct debit is taken for its settlement.
AnsweredSettled(b) == IF bill[b].product = "debit" THEN "success" ELSE "pending"

Answered(b) == "pending"

(* The row as it is written: a new one, or the one taken over.             *)
AnsweredRow(b, row) ==
  IF bill[b].row = 0
  THEN NewPay(bill[b].of, RailOf(bill[b].product), Answered(b), bill[b].amount, bill[b].seq)
  ELSE [row EXCEPT !.rail = RailOf(bill[b].product), !.st = Answered(b)]

(* Only the per-method checkout had named its row, except for an account.  *)
NamedAfter(b, now) == IF bill[b].door = "method" /\ bill[b].product # "va" THEN now ELSE b

(* The answer of each endpoint: the row is written as decided before the   *)
(* call, whatever happened to it since, and a draft order read then is     *)
(* made pending now (not by the older QRIS and direct debit endpoints).    *)
Answer(b, p) ==
  /\ \E st \in OrderStatuses :
       LET o == bill[b].of
           opens == st = "draft" /\ (bill[b].door = "method" \/ bill[b].product = "va")
       IN  /\ <<b, st>> \in call
           /\ call' = call \ {<<b, st>>}
           /\ ord' = IF opens THEN [ord EXCEPT ![o].st = "pending"] ELSE ord
           /\ bill' = [bill EXCEPT ![b].row = p,
                ![b].late = \/ bill[b].row # 0 /\ (pay[p].st # "created" \/ pay[p].del)
                            \/ opens /\ ord[o].st # "draft"]
  /\ bill[b].st # "asked"
  /\ IF bill[b].row = 0 THEN Unused(p) ELSE p = bill[b].row
  /\ \A c \in Debits \ {b} : bill[c].row # p
  /\ pay' = [pay EXCEPT ![p] = AnsweredRow(b, @)]
  /\ named' = [named EXCEPT ![p] = NamedAfter(b, @)]
  /\ shown' = shown \cup {b}
  /\ UNCHANGED <<reg, sel, calls, found, leaving, mtSeen, bound>>

(* A timeout, an HTTP error or the end of the process.                     *)
AnswerLost(b) ==
  /\ \E c \in call : c[1] = b /\ call' = call \ {c}
  /\ UNCHANGED <<vars, bill, named, bound, shown>>

-----------------------------------------------------------------------------
(* DOKU, and the webhook each of its products is configured to call        *)

BillMoves(b, from, to) ==
  /\ bill[b].st = from
  /\ bill' = [bill EXCEPT ![b].st = to]

BillOpens(b) == BillMoves(b, "asked", "open") /\ UNCHANGED <<vars, call, named, bound, shown>>

CustomerSettles(b) ==
  b \in shown /\ BillMoves(b, "open", "settled") /\ UNCHANGED <<vars, call, named, bound, shown>>

(* verify_doku_direct_debit_otp: neither the row's status nor the order's  *)
(* is looked at.                                                           *)
VerifyOtp(p) ==
  /\ pay[p].rail = "debit" /\ ~pay[p].del
  /\ bound
  /\ \E b \in shown \cap {named[p]} : BillMoves(b, "open", "settled")
  /\ UNCHANGED <<vars, call, named, bound, shown>>

Hears(p, b) ==
  /\ named[p] = b
  /\ ~pay[p].del
  /\ RowFree(p) /\ Free(pay[p].of)
  /\ CASE bill[b].product = "va"    -> bill[b].amount = pay[p].gross
       [] bill[b].product = "debit" -> bill[b].amount = Total[pay[p].of]
       [] OTHER -> pay[p].rail \in DokuRails /\ bill[b].amount = pay[p].gross

(* The SNAP webhooks for accounts and direct debit; cards and QR codes are *)
(* announced to /webhooks/doku, which knows rows of provider "doku" only.  *)
HearSettled(b, p) ==
  /\ Hears(p, b)
  /\ BillMoves(b, "settled", "told")
  /\ Reconcile([pay EXCEPT ![p].st = "success"], pay[p].of)
  /\ UNCHANGED <<calls, found, leaving, mtSeen, call, named, bound, shown>>

HearEnded(b, p) ==
  /\ Hears(p, b)
  /\ bill[b].product \in {"card", "qris"}
  /\ BillMoves(b, "open", "ended")
  /\ Reconcile([pay EXCEPT ![p].st = DokuResult(pay[p], "EXPIRED")], pay[p].of)
  /\ UNCHANGED <<calls, found, leaving, mtSeen, call, named, bound, shown>>

(* handle_inquiry: what the bank is told when a customer enters the number *)
(* of an account, before it takes the row's amount.                        *)
Inquired(b) == {p \in Payments : named[p] = b /\ pay[p].rail = "va" /\ ~pay[p].del}

\* A slip: only the row is looked at.
InquiryOfRow(p) ==
  CASE pay[p].st = "success" -> "billing_already_paid"
    [] pay[p].st = "expired" -> "billing_was_expired"
    [] pay[p].st \in {"created", "pending"} -> "success"
    [] OTHER -> "decline"

InquiryOf(p) ==
  LET o == pay[p].of
  IN  IF pay[p].st = "success" \/ ord[o].st = "paid" THEN "billing_already_paid"
      ELSE IF pay[p].st = "expired" \/ ord[o].st = "expired" THEN "billing_was_expired"
      ELSE IF pay[p].st \in {"created", "pending"}
              /\ ord[o].st \in {"pending", "partially_paid"} /\ pay[p].gross > 0
      THEN "success" ELSE "decline"

Inquiry(b) ==
  IF Inquired(b) = {} THEN "billing_not_found"
  ELSE IF Cardinality(Inquired(b)) > 1 THEN "decline"
  ELSE InquiryOf(CHOOSE p \in Inquired(b) : TRUE)

-----------------------------------------------------------------------------
NextSnap ==
  \/ \E b \in Bills, o \in Orders :
       \/ \E p \in Payments, product \in Products : ChooseMethod(b, o, p, product)
       \/ \E i \in 1 .. SegmentCount(o) : AskQris(b, o, i)
       \/ \E p \in Payments : AskVa(b, o, p)
       \/ AskDebit(b, o)
  \/ \E b \in Bills :
       \/ AnswerLost(b)
       \/ BillOpens(b)
       \/ CustomerSettles(b)
       \/ \E p \in Payments : Answer(b, p) \/ HearSettled(b, p) \/ HearEnded(b, p)
  \/ Bind
  \/ \E p \in Payments :
       \/ VerifyOtp(p)
       \/ RowFree(p) /\ Free(pay[p].of) /\ (AdminCancel(p) \/ AdminDelete(p)) /\ UNCHANGED snap
  \/ \E o \in Orders :
       (\A p \in Live(pay, o) : RowFree(p)) /\ Free(o) /\ UserCancel(o) /\ UNCHANGED snap

SpecSnap == InitSnap /\ [][NextSnap]_snapVars

-----------------------------------------------------------------------------
Chosen(p) ==
  /\ \E b \in Bills : bill[b].row = p
  /\ \A b \in Bills : bill[b].row = p => bill[b].door = "method"

(* "Never create another invoice on a network retry or switch channels     *)
(* while the backend still considers a payment active" (doku_order.py):    *)
(* through lost and late answers, expiries, deletions and cancellations,   *)
(* two undecided rows of the per-method checkout stand on one order only   *)
(* when an answer has reopened a row that was closed during its call.      *)
OneInvoice ==
  \A o \in Orders : \A p, q \in Undecided(o) :
    p # q /\ Chosen(p) /\ Chosen(q) => \E b \in Bills : bill[b].row \in {p, q} /\ bill[b].late

(* The money of the bills DOKU has announced, one element per unit.        *)
UnitsTold(o) ==
  UNION {{b} \X (1 .. bill[b].amount) :
           b \in {c \in Bills : bill[c].of = o /\ bill[c].st = "told"}}

(* What an order has collected was settled at DOKU in its name: no row     *)
(* that a later request takes over, no answer that comes late and no       *)
(* notification of another bill turns into money nobody has paid.          *)
CreditIsSettled ==
  \A o \in Orders : Collected(pay, o) <= Cardinality(UnitsTold(o))

(* The bank is told to collect an account only while its order needs that  *)
(* much (doku_inquiry.py).                                                 *)
InquiryIsOwed ==
  \A b \in Bills : Inquiry(b) = "success" =>
    \A p \in Inquired(b) :
      \/ pay[p].gross <= Remaining(pay, pay[p].of)
      \/ \E c \in Bills : bill[c].of = pay[p].of /\ bill[c].late
=============================================================================
