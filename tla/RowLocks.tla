------------------------------ MODULE RowLocks ------------------------------
(***************************************************************************)
(* The row locks of the handlers that meet on one order, in the order in   *)
(* which each takes them, under PostgreSQL's rules: a lock is held to the  *)
(* end of the transaction, and a request waits while another transaction   *)
(* holds a conflicting mode.  Inserting a row takes a key-share lock on    *)
(* the rows it references (a payment its order, a notification its user).  *)
(***************************************************************************)
EXTENDS Integers, Sequences, FiniteSets

CONSTANTS
  Workers,   \* concurrent requests
  Jobs       \* the handlers they run

VARIABLES
  job,    \* the handler a worker runs, or "none"
  step    \* how many locks of its script it holds

vars == <<job, step>>

Modes == {"update", "nokey", "share"}

(* FOR UPDATE conflicts with every mode, FOR NO KEY UPDATE with all but    *)
(* FOR KEY SHARE.                                                          *)
Conflict(m, n) ==
  \/ m = "update" \/ n = "update"
  \/ m = "nokey" /\ n = "nokey"

Lock(row, mode) == [row |-> row, mode |-> mode]

\* handle_doku_notification, with _reconcile_order_payment and the notifications
DokuWebhook == <<Lock("order", "update"), Lock("payment", "update"),
                 Lock("registration", "update"), Lock("user", "share")>>

\* handle_midtrans_notification, and the SNAP virtual account and direct debit webhooks
RowFirstWebhook == <<Lock("payment", "update"), Lock("order", "update"),
                     Lock("registration", "update"), Lock("user", "share")>>

\* update_transaction_status
AdminStatus == <<Lock("payment", "update"), Lock("order", "update"),
                 Lock("registration", "update"), Lock("user", "share")>>

\* delete_transaction
AdminDelete == <<Lock("payment", "update"), Lock("order", "update"),
                 Lock("registration", "update")>>

\* A slip: the payment is locked before its order.
UserCancelRowFirst == <<Lock("payment", "update"), Lock("order", "update")>>

\* cancel_user_order and delete_user_payment_attempts
UserCancel == <<Lock("order", "update"), Lock("payment", "update")>>

\* continue_user_order_payment
UserContinue == <<Lock("order", "update"), Lock("payment", "update"),
                  Lock("registration", "update")>>

\* submit_manual_payment_proof
ManualProof == <<Lock("order", "update"), Lock("payment", "update"), Lock("user", "share")>>

\* confirm_manual_payment
ManualConfirm == <<Lock("order", "update"), Lock("payment", "update"),
                   Lock("registration", "update"), Lock("user", "share")>>

\* create_offline_registration_payment
Offline == <<Lock("registration", "update"), Lock("order", "update"), Lock("user", "share")>>

\* A slip: the user is locked FOR UPDATE.
LegacyCheckoutExclusive == <<Lock("user", "update"), Lock("order", "update")>>

\* create_doku_checkout by registration_id
LegacyCheckout == <<Lock("user", "nokey"), Lock("order", "update")>>

\* create_doku_checkout's second transaction, after the HTTP call
CheckoutAnswer == <<Lock("payment", "update")>>

\* create_midtrans_checkout: an outdated attempt is written, a new one inserted
MidtransCheckout == <<Lock("payment", "nokey"), Lock("order", "share")>>

\* store/service.py checkout of additional packages
StoreCheckout == <<Lock("user", "update"), Lock("cart", "update"),
                   Lock("registration", "update")>>

\* admin_command of iwbif/routes.py
RegistrationCommand == <<Lock("registration", "update")>>

Script ==
  [DokuWebhook |-> DokuWebhook, RowFirstWebhook |-> RowFirstWebhook,
   AdminStatus |-> AdminStatus, AdminDelete |-> AdminDelete,
   UserCancel |-> UserCancel, UserContinue |-> UserContinue,
   ManualProof |-> ManualProof, ManualConfirm |-> ManualConfirm,
   Offline |-> Offline, LegacyCheckout |-> LegacyCheckout,
   CheckoutAnswer |-> CheckoutAnswer, MidtransCheckout |-> MidtransCheckout,
   StoreCheckout |-> StoreCheckout, RegistrationCommand |-> RegistrationCommand]

ASSUME JobsAreScripts == Jobs \subseteq DOMAIN Script

-----------------------------------------------------------------------------
Running(w) == job[w] # "none"

Held(w) == IF Running(w) THEN {Script[job[w]][i] : i \in 1 .. step[w]} ELSE {}

Wants(w) == Running(w) /\ step[w] < Len(Script[job[w]])

Wanted(w) == Script[job[w]][step[w] + 1]

Blocks(v, w) ==
  /\ v # w
  /\ Wants(w)
  /\ \E l \in Held(v) : l.row = Wanted(w).row /\ Conflict(l.mode, Wanted(w).mode)

(* Workers that all wait for one another: PostgreSQL must abort one.       *)
Deadlocked(S) == S # {} /\ \A w \in S : \E v \in S : Blocks(v, w)

(* A worker holds a prefix of its script, and nothing between requests.    *)
TypeOK ==
  /\ job \in [Workers -> Jobs \cup {"none"}]
  /\ step \in [Workers -> Nat]
  /\ \A w \in Workers : step[w] <= (IF Running(w) THEN Len(Script[job[w]]) ELSE 0)

Init ==
  /\ job = [w \in Workers |-> "none"]
  /\ step = [w \in Workers |-> 0]

Begin(w, j) ==
  /\ ~Running(w)
  /\ job' = [job EXCEPT ![w] = j]
  /\ UNCHANGED step

Acquire(w) ==
  /\ Wants(w)
  /\ \A v \in Workers : ~Blocks(v, w)
  /\ step' = [step EXCEPT ![w] = @ + 1]
  /\ UNCHANGED job

End(w) ==
  /\ job' = [job EXCEPT ![w] = "none"]
  /\ step' = [step EXCEPT ![w] = 0]

Commit(w) == Running(w) /\ ~Wants(w) /\ End(w)

(* The request is refused or fails, or PostgreSQL aborts it.               *)
Rollback(w) == Running(w) /\ Wants(w) /\ End(w)

Next ==
  \E w \in Workers :
    \/ \E j \in Jobs : Begin(w, j)
    \/ Acquire(w)
    \/ Commit(w)
    \/ Rollback(w)

Spec == Init /\ [][Next]_vars

(* PostgreSQL serves the waiters of a row in order, and a handler that has *)
(* its locks finishes.                                                     *)
FairSpec ==
  /\ Spec
  /\ \A w \in Workers : SF_vars(Acquire(w)) /\ WF_vars(Commit(w))

-----------------------------------------------------------------------------
(* No set of requests waits in a circle, so none has to be aborted: the    *)
(* webhooks acquire order then payment locks, matching resume and cancel   *)
(* operations (docs/DOKU_CHECKOUT_HARDENING.md).                           *)
NoDeadlock == \A S \in SUBSET Workers : ~Deadlocked(S)

(* Every request that has begun finishes without PostgreSQL's help.        *)
RequestsFinish == \A w \in Workers : Running(w) ~> ~Running(w)
=============================================================================
