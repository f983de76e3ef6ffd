----------------------------- MODULE WebhookInbox -----------------------------
(***************************************************************************)
(* Midtrans' notifications: the capture of the raw body, the handler and   *)
(* the mark of the capture are transactions of their own, and a crash may  *)
(* come between any two.  The handler itself is MidtransNotify of Ledger;  *)
(* here it applies an event, finds it recorded, or refuses it.             *)
(***************************************************************************)
EXTENDS FiniteSets

CONSTANTS Captures,  \* rows of payment_webhook_captures
          Events     \* event identifiers of the provider

VARIABLES cap,    \* captures, with the step of the request that wrote them
          seen    \* payment_webhook_events
inboxVars == <<cap, seen>>

NoEvent == "none"
Providers == {"midtrans", "midtrans_recurring", "midtrans_account"}
NoCapture == [st |-> "absent", at |-> "idle", by |-> "midtrans", ev |-> NoEvent, applied |-> FALSE]

\* The body is kept before anything is read from it.
Capture(c) ==
  /\ cap[c].st = "absent"
  /\ \E by \in Providers, e \in Events \cup {NoEvent} :
       /\ by = "midtrans" <=> e \in Events
       /\ cap' = [cap EXCEPT ![c] = [st |-> "received", at |-> "captured", by |-> by, ev |-> e,
                                     applied |-> FALSE]]
  /\ UNCHANGED seen

\* A body that is no JSON object fails, a good one is stored.
Parse(c) ==
  /\ cap[c].at = "captured"
  /\ \E to \in {"parsed", "failing"} : cap' = [cap EXCEPT ![c].at = to]
  /\ UNCHANGED seen

\* A slip: the captures are consulted instead of the events.
RepeatedWhenMarked(c) == \E k \in Captures : cap[k].ev = cap[c].ev /\ cap[k].st = "processed"

Repeated(c) == cap[c].ev \in seen

\* handle_midtrans_notification commits the new status and the event.
Handle(c) ==
  /\ cap[c].at = "parsed" /\ cap[c].by = "midtrans"
  /\ ~Repeated(c)
  /\ seen' = seen \cup {cap[c].ev}
  /\ cap' = [cap EXCEPT ![c].at = "handled", ![c].applied = TRUE]

\* The event is known: nothing is changed.
Skip(c) ==
  /\ cap[c].at = "parsed" /\ cap[c].by = "midtrans"
  /\ Repeated(c)
  /\ cap' = [cap EXCEPT ![c].at = "handled"]
  /\ UNCHANGED seen

\* Subscriptions and linked accounts change nothing but their capture.
Acknowledge(c, by) ==
  /\ cap[c].at = "parsed" /\ cap[c].by = by
  /\ cap' = [cap EXCEPT ![c].at = "handled"]
  /\ UNCHANGED seen

Recurring(c) == Acknowledge(c, "midtrans_recurring")
AccountLinking(c) == Acknowledge(c, "midtrans_account")

\* Signature, provider status, amount or row refused: the session rolls back.
Refuse(c) ==
  /\ cap[c].at = "parsed"
  /\ cap' = [cap EXCEPT ![c].at = "failing"]
  /\ UNCHANGED seen

\* The last transaction; it may raise.
Mark(c) ==
  /\ cap[c].at = "handled"
  /\ \/ cap' = [cap EXCEPT ![c].st = "processed", ![c].at = "idle"]
     \/ cap' = [cap EXCEPT ![c].at = "failing"]
  /\ UNCHANGED seen

\* Whatever was raised: what was not committed is rolled back.
Fail(c) ==
  /\ cap[c].at = "failing"
  /\ cap' = [cap EXCEPT ![c].st = "failed", ![c].at = "idle"]
  /\ UNCHANGED seen

\* The process stops and its requests are lost.
InboxStops ==
  /\ \E c \in Captures : cap[c].at # "idle"
  /\ cap' = [c \in Captures |-> [cap[c] EXCEPT !.at = "idle"]]
  /\ UNCHANGED seen

InboxInit ==
  /\ cap = [c \in Captures |-> NoCapture]
  /\ seen = {}

InboxNext ==
  \/ \E c \in Captures :
       \/ Capture(c) \/ Parse(c) \/ Handle(c) \/ Skip(c) \/ Recurring(c) \/ AccountLinking(c)
       \/ Refuse(c) \/ Mark(c) \/ Fail(c)
  \/ InboxStops

InboxSpec == InboxInit /\ [][InboxNext]_inboxVars

-----------------------------------------------------------------------------
(***************************************************************************)
(* Claims                                                                  *)
(***************************************************************************)
\* An event in the table was applied, by exactly one of the requests that
\* carried it, whatever was repeated, refused or lost in a crash.
EventAppliedOnce ==
  \A e \in Events : Cardinality({c \in Captures : cap[c].ev = e /\ cap[c].applied})
                      = IF e \in seen THEN 1 ELSE 0
=============================================================================
