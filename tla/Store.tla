-------------------------------- MODULE Store --------------------------------
(***************************************************************************)
(* The store for one user and one event: cart, checkout, the registration  *)
(* made from a purchased order, exhibitor registration, and what payments  *)
(* of an order do to them.                                                 *)
(*                                                                         *)
(* Checkout, and adding an exhibitor package, hold the lock of the user's  *)
(* row from their first statement to their commit.  Nothing else does: the *)
(* other handlers read, decide and commit with others in between.  An      *)
(* order that is draft, pending or partially paid is `pending' here, and a *)
(* registration neither confirmed nor cancelled is `open'.                 *)
(***************************************************************************)
EXTENDS Naturals, FiniteSets

CONSTANTS Mains, Additionals,  \* packages by type; the third type is Exhibitor
          Exhibitor,
          Catalogues,          \* the sets of packages an event may sell
          StoreOrders,         \* identifiers of orders
          Registrations,       \* identifiers of registrations
          Handlers,            \* requests of the user under way
          Nil                  \* SQL NULL

ASSUME StoreConstants ==
  /\ Mains \cap Additionals = {} /\ Exhibitor \notin Mains \cup Additionals
  /\ \A c \in Catalogues : c \subseteq Mains \cup Additionals \cup {Exhibitor}
  /\ Nil \notin Registrations

VARIABLES shelf,   \* products that exist
          cart,    \* packages in the cart
          purchase,\* orders with their items
          regn,    \* registrations
          chosen,  \* delegate_registration_package_selections, as <<registration, package>>
          booth,   \* the exhibitor registration
          visit    \* handlers: their step and what they have read
storeVars == <<shelf, cart, purchase, regn, chosen, booth, visit>>

StorePackages == Mains \cup Additionals \cup {Exhibitor}
NoOrder == [st |-> "absent", items |-> {}, reg |-> Nil, reopened |-> FALSE]
Away == [step |-> "away"]

Go(q, state) == visit' = [visit EXCEPT ![q] = state]

\* ACTIVE_ORDER_STATUSES
ActiveOrder(o) == purchase[o].st \in {"pending", "paid"}
HasMain(o) == purchase[o].items \cap Mains # {}
AdditionalOnly(items) == items # {} /\ items \subseteq Additionals
Current == {r \in Registrations : regn[r] \in {"open", "confirmed"}}

\* A slip: the user's row is not locked.
UserNeverBusy == FALSE

\* Another handler holds the user's row.
UserBusy == \E q \in Handlers : visit[q].step \in {"checkout", "add exhibitor"}

\* Checkout of additional packages holds the row of the registration.
RegistrationBusy(r) ==
  \E q \in Handlers : visit[q].step = "checkout" /\ visit[q].reg = r

-----------------------------------------------------------------------------
(***************************************************************************)
(* Availability                                                            *)
(***************************************************************************)
ExhibitorAvailable ==
  /\ \A o \in StoreOrders : ActiveOrder(o) => Exhibitor \notin purchase[o].items
  /\ booth = "absent"

PaidMainOrder(r) ==
  \E o \in StoreOrders : purchase[o].reg = r /\ purchase[o].st = "paid" /\ HasMain(o)

Ordered(p) == \E o \in StoreOrders : ActiveOrder(o) /\ p \in purchase[o].items

\* A registration selects a package at most once.
Selected(r, packages) == {<<r, p>> : p \in packages}

AdditionalState(p) ==
  IF \E r \in Current : Selected(r, {p}) \subseteq chosen THEN "owned"
  ELSE IF Ordered(p) THEN "ordered"
  ELSE IF Current = {} THEN "registration_required"
  ELSE IF \E r \in Current : PaidMainOrder(r) THEN "available" ELSE "main_payment_required"

-----------------------------------------------------------------------------
(***************************************************************************)
(* Cart                                                                    *)
(***************************************************************************)
AddLook(q, p) ==
  /\ visit[q] = Away
  /\ p \in shelf
  /\ p = Exhibitor => ~UserBusy /\ ExhibitorAvailable
  /\ p \in Additionals => AdditionalState(p) \in {"available", "registration_required"}
  /\ Go(q, [step |-> IF p = Exhibitor THEN "add exhibitor" ELSE "add", item |-> p,
            drop |-> IF p \in Mains THEN cart \cap Mains ELSE {}])
  /\ UNCHANGED <<shelf, cart, purchase, regn, chosen, booth>>

\* The product must still exist for the foreign key.
AddCommit(q) ==
  /\ visit[q].step \in {"add", "add exhibitor"}
  /\ visit[q].item \in shelf
  /\ cart' = (cart \ visit[q].drop) \cup {visit[q].item}
  /\ Go(q, Away)
  /\ UNCHANGED <<shelf, purchase, regn, chosen, booth>>

RemoveItem(p) ==
  /\ p \in cart
  /\ cart' = cart \ {p}
  /\ UNCHANGED <<shelf, purchase, regn, chosen, booth, visit>>

\* A product in a cart cannot be deleted; the items of orders lose their link.
DeleteProduct(p) ==
  /\ p \in shelf \ cart
  /\ shelf' = shelf \ {p}
  /\ UNCHANGED <<cart, purchase, regn, chosen, booth, visit>>

-----------------------------------------------------------------------------
(***************************************************************************)
(* Checkout                                                                *)
(***************************************************************************)
Sellable(items) ==
  /\ items # {}
  /\ Exhibitor \in items => ExhibitorAvailable
  /\ Cardinality(items \cap Mains) = 1 \/ AdditionalOnly(items) \/ items = {Exhibitor}

CheckoutLook(q) ==
  /\ visit[q] = Away
  /\ ~UserBusy
  /\ Sellable(cart)
  /\ IF AdditionalOnly(cart)
     THEN \E r \in Current :
            /\ PaidMainOrder(r)
            /\ \A p \in cart : AdditionalState(p) = "available"
            /\ ~RegistrationBusy(r)
            /\ Go(q, [step |-> "checkout", items |-> cart, reg |-> r])
     ELSE Go(q, [step |-> "checkout", items |-> cart, reg |-> Nil])
  /\ UNCHANGED <<shelf, cart, purchase, regn, chosen, booth>>

\* The whole cart is emptied, with what was added since it was read.
CheckoutCommit(q) ==
  /\ visit[q].step = "checkout"
  /\ visit[q].items \subseteq shelf
  /\ \E o \in StoreOrders :
       /\ purchase[o] = NoOrder
       /\ purchase' = [purchase EXCEPT ![o] = [st |-> "pending", items |-> visit[q].items,
                                               reg |-> visit[q].reg, reopened |-> FALSE]]
  /\ cart' = {}
  /\ Go(q, Away)
  /\ UNCHANGED <<shelf, regn, chosen, booth>>

-----------------------------------------------------------------------------
(***************************************************************************)
(* Payments: cancel_user_order, and what reconciling an order changes.     *)
(***************************************************************************)
CancelOrder(o) ==
  /\ purchase[o].st = "pending"
  /\ purchase' = [purchase EXCEPT ![o].st = "canceled"]
  /\ UNCHANGED <<shelf, cart, regn, chosen, booth, visit>>

\* A slip: the partial unique index is missing.
AnyRegistration(r) == TRUE

\* The unique index on the registrations of a participant that are not cancelled.
OnlyRegistration(r) == Current \subseteq {r}

\* An order with a registration writes it, a cancelled one included.
RegistrationAfterPayment(o) ==
  IF purchase[o].reg = Nil \/ AdditionalOnly(purchase[o].items) THEN UNCHANGED regn
  ELSE LET r == purchase[o].reg
       IN /\ ~RegistrationBusy(r)
          /\ OnlyRegistration(r)
          /\ regn' = [regn EXCEPT ![r] = IF @ = "confirmed" THEN @ ELSE "open"]

\* A slip: the packages go to the participant's current registration.
GrantToCurrent(o) ==
  chosen' = chosen \cup UNION {Selected(r, purchase[o].items \cap Additionals) : r \in Current}

\* _activate_paid_additional_packages fails when no item has its product any more.
Grant(o) ==
  IF AdditionalOnly(purchase[o].items)
  THEN /\ purchase[o].items \cap shelf # {}
       /\ chosen' = chosen \cup Selected(purchase[o].reg, purchase[o].items \cap shelf)
  ELSE UNCHANGED chosen

\* A settlement, also of an order that was cancelled.
OrderPaid(o) ==
  /\ purchase[o].st \in {"pending", "canceled"}
  /\ purchase' = [purchase EXCEPT ![o].st = "paid",
                                  ![o].reopened = @ \/ purchase[o].st = "canceled"]
  /\ RegistrationAfterPayment(o)
  /\ Grant(o)
  /\ UNCHANGED <<shelf, cart, booth, visit>>

\* A refund; the packages stay.
OrderRefunded(o) ==
  /\ purchase[o].st = "paid"
  /\ purchase' = [purchase EXCEPT ![o].st = "pending"]
  /\ RegistrationAfterPayment(o)
  /\ UNCHANGED <<shelf, cart, chosen, booth, visit>>

-----------------------------------------------------------------------------
(***************************************************************************)
(* Registrations                                                           *)
(***************************************************************************)
\* A paid order is preferred to a pending one.
RegisterFrom(o) ==
  /\ ActiveOrder(o) /\ purchase[o].reg = Nil /\ purchase[o].items \cap Mains \cap shelf # {}
  /\ purchase[o].st = "paid" \/
       \A n \in StoreOrders :
         purchase[n].st = "paid" /\ HasMain(n) => purchase[n].reg # Nil

DelegateLook(q) ==
  /\ visit[q] = Away
  /\ Current = {}
  /\ \E o \in StoreOrders : RegisterFrom(o) /\ Go(q, [step |-> "register", order |-> o])
  /\ UNCHANGED <<shelf, cart, purchase, regn, chosen, booth>>

DelegateCommit(q) ==
  /\ visit[q].step = "register"
  /\ \E r \in Registrations :
       /\ regn[r] = "absent" /\ OnlyRegistration(r)
       /\ regn' = [regn EXCEPT ![r] = "open"]
       /\ purchase' = [purchase EXCEPT ![visit[q].order].reg = r]
       /\ chosen' = chosen \cup Selected(r, purchase[visit[q].order].items \cap shelf)
  /\ Go(q, Away)
  /\ UNCHANGED <<shelf, cart, booth>>

\* The user's cancellation decides on the status it has read.
CancelLook(q, r) ==
  /\ visit[q] = Away
  /\ regn[r] = "open"
  /\ Go(q, [step |-> "cancel", reg |-> r])
  /\ UNCHANGED <<shelf, cart, purchase, regn, chosen, booth>>

CancelCommit(q) ==
  /\ visit[q].step = "cancel"
  /\ ~RegistrationBusy(visit[q].reg)
  /\ regn' = [regn EXCEPT ![visit[q].reg] = "cancelled"]
  /\ Go(q, Away)
  /\ UNCHANGED <<shelf, cart, purchase, chosen, booth>>

ConfirmRegistration(r) ==
  /\ regn[r] = "open" /\ PaidMainOrder(r) /\ ~RegistrationBusy(r)
  /\ regn' = [regn EXCEPT ![r] = "confirmed"]
  /\ UNCHANGED <<shelf, cart, purchase, chosen, booth, visit>>

-----------------------------------------------------------------------------
(***************************************************************************)
(* Exhibitors                                                              *)
(***************************************************************************)
ExhibitorLook(q) ==
  /\ visit[q] = Away
  /\ \E o \in StoreOrders : ActiveOrder(o) /\ Exhibitor \in purchase[o].items
  /\ booth = "absent"
  /\ Go(q, [step |-> "exhibit"])
  /\ UNCHANGED <<shelf, cart, purchase, regn, chosen, booth>>

ExhibitorCommit(q) ==
  /\ visit[q].step = "exhibit"
  /\ booth = "absent"
  /\ booth' = "draft"
  /\ Go(q, Away)
  /\ UNCHANGED <<shelf, cart, purchase, regn, chosen>>

SaveCatalogue ==
  /\ booth # "absent"
  /\ booth' = "submitted"
  /\ UNCHANGED <<shelf, cart, purchase, regn, chosen, visit>>

DeleteExhibitor ==
  /\ booth = "draft"
  /\ booth' = "absent"
  /\ UNCHANGED <<shelf, cart, purchase, regn, chosen, visit>>

\* Refused by a constraint, or lost.
Leave(q) ==
  /\ visit[q] # Away
  /\ Go(q, Away)
  /\ UNCHANGED <<shelf, cart, purchase, regn, chosen, booth>>

-----------------------------------------------------------------------------
StoreInit ==
  /\ shelf \in Catalogues /\ cart = {} /\ chosen = {} /\ booth = "absent"
  /\ purchase = [o \in StoreOrders |-> NoOrder]
  /\ regn = [r \in Registrations |-> "absent"]
  /\ visit = [q \in Handlers |-> Away]

StoreNext ==
  \/ \E q \in Handlers :
       \/ AddCommit(q) \/ CheckoutLook(q) \/ CheckoutCommit(q) \/ DelegateLook(q)
       \/ DelegateCommit(q) \/ CancelCommit(q) \/ ExhibitorLook(q) \/ ExhibitorCommit(q)
       \/ Leave(q)
       \/ \E p \in StorePackages : AddLook(q, p)
       \/ \E r \in Registrations : CancelLook(q, r)
  \/ \E p \in StorePackages : RemoveItem(p) \/ DeleteProduct(p)
  \/ \E o \in StoreOrders : CancelOrder(o) \/ OrderPaid(o) \/ OrderRefunded(o)
  \/ \E r \in Registrations : ConfirmRegistration(r)
  \/ SaveCatalogue \/ DeleteExhibitor

StoreSpec == StoreInit /\ [][StoreNext]_storeVars

-----------------------------------------------------------------------------
(***************************************************************************)
(* Claims                                                                  *)
(***************************************************************************)
Share(o, n) ==
  LET both == purchase[o].items \cap purchase[n].items
  IN \/ Exhibitor \in both
     \/ both # {} /\ AdditionalOnly(purchase[o].items) /\ AdditionalOnly(purchase[n].items)

\* The exhibitor package, and an additional package bought on its own, is in one
\* order that can still be paid or is paid; a second one is there only when a
\* settlement reached an order after it had been cancelled.
PackageSoldOnce ==
  \A o, n \in StoreOrders :
    o # n /\ ActiveOrder(o) /\ ActiveOrder(n) /\ Share(o, n)
      => purchase[o].reopened \/ purchase[n].reopened

\* A participant has one registration that is not cancelled, although payments
\* of old orders bring cancelled registrations back.
OneCurrentRegistration == Cardinality(Current) <= 1

\* A current registration holds only packages of orders made for it, whatever
\* settles after another one was cancelled and replaced by it.
PackagesAreOrdered ==
  \A c \in chosen : c[1] \in Current => \E o \in StoreOrders : purchase[o].reg = c[1] /\ c[2] \in purchase[o].items
=============================================================================
