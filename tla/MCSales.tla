------------------------------ MODULE MCSales -------------------------------
(***************************************************************************)
(* What surrounds the ledger, from the account to the gate: the services   *)
(* that bill, sell, notify and admit, side by side.  They share no         *)
(* rows, so that their interleavings add nothing: each behaviour follows   *)
(* one of them, chosen at the start, while the others rest in an initial   *)
(* state.                                                                  *)
(***************************************************************************)
EXTENDS SnapRails, EmailDelivery, WebhookInbox, Accounts, PurchaseTracking, Admission,
        Packages, TLC

CONSTANTS r1

VARIABLE service   \* the one this behaviour is about

Services == {"snap", "mail", "inbox", "accounts", "store", "admission", "packages"}

StandStill(S) ==
  /\ UNCHANGED service
  /\ "snap"      \in S => UNCHANGED snapVars
  /\ "mail"      \in S => UNCHANGED mailVars
  /\ "inbox"     \in S => UNCHANGED inboxVars
  /\ "accounts"  \in S => UNCHANGED accountVars
  /\ "store"     \in S => UNCHANGED storeVars
  /\ "admission" \in S => UNCHANGED admissionVars
  /\ "packages"  \in S => UNCHANGED packageVars

SalesInit ==
  /\ service \in Services
  /\ InitSnap
  /\ MailInit
  /\ InboxInit
  /\ AccountInit
  /\ StoreInit
  /\ AdmissionInit
  /\ PackageInit
  /\ service # "snap"  => \A o \in Orders : ord[o].st = "draft"
  /\ service # "mail"  => \A c \in Locales : tmpl[c] = "enabled"
  /\ service # "store" => shelf = CHOOSE c \in Catalogues : TRUE

Follow(s, step) == service = s /\ step /\ StandStill(Services \ {s})

SalesNext ==
  \/ Follow("snap", NextSnap)
  \/ Follow("mail", MailNext)
  \/ Follow("inbox", InboxNext)
  \/ Follow("accounts", AccountNext)
  \/ Follow("store", StoreNext)
  \/ Follow("admission", AdmissionNext)
  \/ Follow("packages", PackageNext)

SalesSpec ==
  SalesInit /\ [][SalesNext]_<<service, snapVars, mailVars, inboxVars, accountVars, storeVars, admissionVars, packageVars>>

-----------------------------------------------------------------------------
(* One order of 3 units in segments of 2 and 1, untouched or with a hosted  *)
(* bill of its first segment expired.                                      *)
BillTotal == [o \in Orders |-> 3]
OfReg   == [o \in Orders |-> r1]
Main    == [o \in Orders |-> "main_registration"]
NoItems == [o \in Orders |-> {}]

Opening(st, row1) ==
  [ord |-> [o \in Orders |-> [st |-> st, by |-> FALSE]],
   pay |-> [p \in Payments |-> IF p = 1 THEN row1 ELSE NoPay],
   reg |-> [r \in Regs |-> "submitted"],
   sel |-> [r \in Regs |-> [k \in {} |-> 0]]]

FreshOrExpired ==
  {Opening("draft", NoPay),
   Opening("pending", NewPay(1, "doku", "expired", 2, 1))}

(* A rate is the default, an alternative, or withdrawn.                    *)
MCRateForms ==
  {[default |-> TRUE, active |-> TRUE, price |-> 1],
   [default |-> FALSE, active |-> TRUE, price |-> 2],
   [default |-> FALSE, active |-> FALSE, price |-> 1]}

\* A request that adds to the cart meets no other: the claims do not read the cart.
AddsAlone ==
  \A q, r \in Handlers : q # r /\ visit[q].step = "add" => visit[r] = Away

\* Once edits have met, which is recorded for the claims, no more are started.
EditsStopAfterMeeting ==
  met # {} => \A a \in Admins : desk[a] = DeskIdle => desk'[a] = DeskIdle

\* The services use the same identifiers, so that the permutations stay few.
MCSymmetry ==
  Permutations(StoreOrders) \cup Permutations(Registrations) \cup Permutations(Handlers)
=============================================================================
