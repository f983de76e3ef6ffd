-------------------------- MODULE PurchaseTracking --------------------------
(***************************************************************************)
(* What a user is told of the own purchases: for each type of package how  *)
(* far the purchase is, and one status of the account.  It is computed     *)
(* from the cart, the orders and the registrations by other rules than     *)
(* those by which the store refuses a package and a registration finds its *)
(* order.                                                                  *)
(*                                                                         *)
(* A registration of Store that is `open' may be a draft: `submitted' is   *)
(* the set of those the user has completed.                                *)
(***************************************************************************)
EXTENDS Store

PackageTypes == {"delegate", "exhibitor"}
OfType(type) == IF type = "delegate" THEN Mains ELSE {Exhibitor}

\* A slip: only what is paid counts.
TrackedWhenPaid(type) ==
  {o \in StoreOrders : purchase[o].st = "paid" /\ purchase[o].items \cap OfType(type) # {}}

\* Orders paid, or open for payment, with a package of the type.
Tracked(type) ==
  {o \in StoreOrders : ActiveOrder(o) /\ purchase[o].items \cap OfType(type) # {}}

\* A registration of the type exists, a cancelled one included.
Registered(type) ==
  IF type = "delegate" THEN \E r \in Registrations : regn[r] # "absent" ELSE booth # "absent"

Complete(type, submitted) ==
  IF type = "delegate"
  THEN \E r \in Current : r \in submitted \/ regn[r] = "confirmed"
  ELSE booth = "submitted"

PurchaseStatus(type, submitted) ==
  CASE \E o \in Tracked(type) : purchase[o].st # "paid" -> "payment_pending"
    [] \A o \in Tracked(type) : purchase[o].st = "paid"
         -> IF Tracked(type) # {}
            THEN IF Complete(type, submitted) THEN "completed" ELSE "paid_profile_incomplete"
            ELSE IF cart \cap OfType(type) # {} \/ Registered(type) THEN "selected" ELSE "not_selected"

EffectiveStatus(submitted) ==
  LET states == {PurchaseStatus(type, submitted) : type \in PackageTypes}
  IN CASE "payment_pending" \in states -> "payment_pending"
       [] "payment_pending" \notin states /\ "selected" \in states -> "package_selected"
       [] states \cap {"payment_pending", "selected"} = {}
          /\ states \cap {"completed", "paid_profile_incomplete"} # {} -> "paid"
       [] OTHER -> "account_created"

-----------------------------------------------------------------------------
(***************************************************************************)
(* Claims                                                                  *)
(***************************************************************************)
CanRegister == Current = {} /\ \E o \in StoreOrders : RegisterFrom(o)

\* The user's page agrees with what the store and the registration would do: an
\* exhibitor package is offered exactly when the store would sell it; nobody who
\* could register from an order is told to choose or to pay a cart first; and
\* who is told that only the profile is missing can register, or has a draft to
\* complete, unless the registration made from the order was cancelled or the
\* package is no longer there.
TrackingAgrees ==
  \A submitted \in SUBSET Current :
    /\ PurchaseStatus("exhibitor", submitted) = "not_selected"
         <=> ExhibitorAvailable /\ Exhibitor \notin cart
    /\ CanRegister => EffectiveStatus(submitted) \notin {"account_created", "package_selected"}
                      \/ PurchaseStatus("exhibitor", submitted) = "selected"
    /\ PurchaseStatus("delegate", submitted) = "paid_profile_incomplete"
         => \/ CanRegister \/ Current # {}
            \/ \E o \in Tracked("delegate") :
                 IF purchase[o].reg = Nil THEN purchase[o].items \cap Mains \cap shelf = {}
                 ELSE regn[purchase[o].reg] = "cancelled"
=============================================================================
