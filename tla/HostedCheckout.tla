--------------------------- MODULE HostedCheckout ---------------------------
(***************************************************************************)
(* Hosted DOKU checkout together with the provider: DOKU's own record of   *)
(* every invoice, the notifications it sends and repeats, and the requests *)
(* that get lost.  The application's side is Ledger's actions unchanged;   *)
(* the legacy entry by registration, which creates the order first, is     *)
(* added here.                                                             *)
(***************************************************************************)
EXTENDS Ledger

CONSTANT LegacyEntry   \* the orders that checkout by registration_id creates

VARIABLES
  inv,     \* DOKU's invoice of a payment row
  sent,    \* notifications DOKU has issued and keeps delivering
  events,  \* the ones recorded as processed (payment_webhook_events)
  bare     \* legacy checkouts between create_order's commit and their reservation

provider == <<inv, sent, events, bare>>
allVars == <<vars, provider>>

Invoices == {"none", "requested", "payable", "settled", "void"}

NoBare == [at |-> "idle", clear |-> FALSE]

TypeOKHosted ==
  /\ TypeOK
  /\ inv \in [Payments -> Invoices]
  /\ sent \subseteq Payments \X DokuStatuses
  /\ events \subseteq sent
  /\ bare \in [LegacyEntry -> [at : {"idle", "created", "looked"}, clear : BOOLEAN]]

InitHosted ==
  /\ Init
  /\ inv = [p \in Payments |-> "none"]
  /\ sent = {}
  /\ events = {}
  /\ bare = [o \in LegacyEntry |-> NoBare]

-----------------------------------------------------------------------------
(* The application's steps                                                 *)

Request(p) == inv' = [inv EXCEPT ![p] = "requested"]

Reserve(o, p) ==
  /\ HostedReserve(o, p)
  /\ Request(p)
  /\ UNCHANGED <<sent, events, bare>>

Continue(o, p) ==
  /\ ContinueHosted(o, p)
  /\ Request(p)
  /\ UNCHANGED <<sent, events, bare>>

Answer(p) ==
  /\ inv[p] \in {"payable", "settled", "void"}
  /\ HostedAnswer(p)
  /\ UNCHANGED provider

NoAnswer(p) == HostedNoAnswer(p) /\ UNCHANGED provider

Cancel(o) == UserCancel(o) /\ UNCHANGED provider

(* A delivery looks its request id up before it looks for the row ...      *)
Find(p) ==
  /\ \E s \in DokuStatuses : <<p, s>> \in sent \ events
  /\ DokuFind(p)
  /\ UNCHANGED provider

(* ... and again once it holds the locks                                   *)
Apply(p, s) ==
  /\ <<p, s>> \in sent \ events
  /\ DokuApply(p, s)
  /\ events' = events \cup {<<p, s>>}
  /\ UNCHANGED <<inv, sent, bare>>

(* create_doku_checkout by registration_id without an order: create_order  *)
(* commits the order, and with that ends the transaction that held the     *)
(* user's row; the attempts are then read without the order's lock ...     *)
LegacyCreate(o) ==
  /\ o \in LegacyEntry
  /\ ~Exists(o)
  /\ ord' = [ord EXCEPT ![o] = [st |-> "pending", by |-> FALSE]]
  /\ bare' = [bare EXCEPT ![o] = [at |-> "created", clear |-> FALSE]]
  /\ UNCHANGED <<pay, reg, sel, calls, found, leaving, mtSeen, inv, sent, events>>

LegacyLook(o) ==
  /\ bare[o].at = "created"
  /\ bare' = [bare EXCEPT ![o] = [at |-> "looked", clear |-> Active(pay, o) = {}]]
  /\ UNCHANGED <<vars, inv, sent, events>>

(* ... and the reservation is inserted on what they showed.                *)
LegacyReserve(o, p) ==
  /\ bare[o].at = "looked"
  /\ bare' = [bare EXCEPT ![o] = NoBare]
  /\ \/ /\ bare[o].clear
        /\ Remaining(pay, o) > 0
        /\ Unused(p)
        /\ pay' = [pay EXCEPT ![p] = HostedBill(o)]
        /\ calls' = calls \cup {p}
        /\ Request(p)
        /\ UNCHANGED <<ord, reg, sel, found, leaving, mtSeen, sent, events>>
     \/ /\ ~bare[o].clear \/ Remaining(pay, o) = 0
        /\ UNCHANGED <<vars, inv, sent, events>>

-----------------------------------------------------------------------------
(* DOKU                                                                    *)

InvoiceOpens(p) ==
  /\ inv[p] = "requested"
  /\ inv' = [inv EXCEPT ![p] = "payable"]
  /\ UNCHANGED <<vars, sent, events, bare>>

(* The request never arrives.                                              *)
RequestLost(p) ==
  /\ inv[p] = "requested"
  /\ inv' = [inv EXCEPT ![p] = "void"]
  /\ UNCHANGED <<vars, sent, events, bare>>

CustomerPays(p) ==
  /\ inv[p] = "payable"
  /\ inv' = [inv EXCEPT ![p] = "settled"]
  /\ sent' = sent \cup {<<p, "SUCCESS">>}
  /\ UNCHANGED <<vars, events, bare>>

(* A channel attempt failed; the invoice stays payable.                    *)
ChannelFails(p) ==
  /\ inv[p] = "payable"
  /\ sent' = sent \cup {<<p, "FAILED">>}
  /\ UNCHANGED <<vars, inv, events, bare>>

InvoiceEnds(p, s) ==
  /\ s \in {"EXPIRED", "CANCELLED"}
  /\ inv[p] = "payable"
  /\ inv' = [inv EXCEPT ![p] = "void"]
  /\ sent' = sent \cup {<<p, s>>}
  /\ UNCHANGED <<vars, events, bare>>

-----------------------------------------------------------------------------
NextHosted ==
  \/ \E o \in Orders, p \in Payments : Reserve(o, p) \/ Continue(o, p)
  \/ \E p \in Payments :
       \/ Answer(p)
       \/ NoAnswer(p)
       \/ Find(p)
       \/ InvoiceOpens(p)
       \/ RequestLost(p)
       \/ CustomerPays(p)
       \/ ChannelFails(p)
  \/ \E p \in Payments, s \in DokuStatuses : Apply(p, s) \/ InvoiceEnds(p, s)
  \/ \E o \in Orders : Cancel(o)
  \/ \E o \in LegacyEntry : LegacyCreate(o) \/ LegacyLook(o)
  \/ \E o \in LegacyEntry, p \in Payments : LegacyReserve(o, p)

SpecHosted == InitHosted /\ [][NextHosted]_allVars

(* DOKU repeats a notification until it is acknowledged, and a delivery    *)
(* that has found its row gets the locks it waits for.  Only settlements   *)
(* need to get through for what is claimed below.                          *)
Delivery ==
  \A p \in Payments : WF_allVars(Find(p)) /\ SF_allVars(Apply(p, "SUCCESS"))

FairHosted == SpecHosted /\ Delivery

-----------------------------------------------------------------------------
RowsOf(o) == {p \in Payments : pay[p].of = o}

PayableRows(o) == {p \in RowsOf(o) : inv[p] \in {"requested", "payable"}}
SettledRows(o) == {p \in RowsOf(o) : inv[p] = "settled"}

Bill == INSTANCE SingleBill WITH
  bill <- [o \in Orders |-> Cardinality(Units(pay, PayableRows(o)))],
  got  <- [o \in Orders |-> Cardinality(Units(pay, SettledRows(o)))]

(* Hosted checkout keeps SingleBill's promise, whatever is lost, repeated  *)
(* or reordered between the application and DOKU.                          *)
OneBillAtATime == Bill!Spec

(* The legacy registration route serializes requests too                   *)
(* (docs/DOKU_CHECKOUT_HARDENING.md): an order never has two payable bills *)
OnePayableBill == \A o \in Orders : Cardinality(PayableRows(o)) <= 1

(* Money DOKU has settled is money of the order as soon as its             *)
(* notification is processed: nothing that happens later hides it.         *)
SettledIsCounted ==
  \A p \in Payments :
    <<p, "SUCCESS">> \in events =>
      p \in Counted(pay, pay[p].of) /\ Paid(pay, pay[p].of) > 0

(* Every invoice DOKU settles is eventually a settled row, also when its   *)
(* request timed out, its order was canceled or notifications overtook     *)
(* one another.                                                            *)
SettlementArrives ==
  \A p \in Payments : inv[p] = "settled" ~> pay[p].st = "success"
=============================================================================
