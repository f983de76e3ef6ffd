----------------------------- MODULE StoreProofs -----------------------------
(***************************************************************************)
(* The store for any number of packages, orders, registrations and         *)
(* requests of a user: one current registration, which holds only packages *)
(* of its own orders, and nothing sold twice unless a cancelled order was  *)
(* paid after all.                                                         *)
(*                                                                         *)
(* What a participant holds is not inductive: a registration loses its     *)
(* main order when a second request takes the order for another one, and   *)
(* can be brought back only by an order with a main package.  A            *)
(* registration has at most one such order (MainOrdersDiffer), so the one  *)
(* that lost it stays cancelled.                                           *)
(***************************************************************************)
EXTENDS PurchaseTracking, Packages, FiniteSetTheorems, TLAPS

OrderRows == [st : {"absent", "pending", "paid", "canceled"}, items : SUBSET StorePackages,
              reg : Registrations \cup {Nil}, reopened : BOOLEAN]

StoreTypeOK ==
  /\ shelf \subseteq StorePackages /\ cart \subseteq StorePackages
  /\ purchase \in [StoreOrders -> OrderRows]
  /\ regn \in [Registrations -> {"absent", "open", "confirmed", "cancelled"}]
  /\ visit = [q \in Handlers |-> visit[q]]

\* Sold together these two break the claim PackageSoldOnce.
Overlap(a, b) ==
  \/ Exhibitor \in a \cap b
  \/ a \cap b # {} /\ AdditionalOnly(a) /\ AdditionalOnly(b)

\* An order with items exists; the others are untouched.
OrdersFilled ==
  \A o \in StoreOrders : IF purchase[o].st = "absent" THEN purchase[o] = NoOrder
                         ELSE purchase[o].items # {}

\* Orders and packages of registrations that do not exist.
NothingAbsent ==
  /\ \A o \in StoreOrders : purchase[o].reg # Nil => regn[purchase[o].reg] # "absent"
  /\ \A c \in chosen : c[1] \in Registrations /\ regn[c[1]] # "absent"

\* An order of additional packages alone has its registration from the start.
AdditionalsHaveRegistration ==
  \A o \in StoreOrders : AdditionalOnly(purchase[o].items) => purchase[o].reg # Nil

MainOrder(o) == purchase[o].items # {} /\ ~AdditionalOnly(purchase[o].items)

MainOrdersDiffer ==
  \A o, n \in StoreOrders :
    MainOrder(o) /\ MainOrder(n) /\ purchase[o].reg = purchase[n].reg /\ purchase[o].reg # Nil
      => o = n

OneCurrent == \A r, s \in Current : r = s

\* A registration that is, or can become, current has orders for its packages.
HeldAreOrdered ==
  \A c \in chosen :
    c[1] \in Current \/ (\E o \in StoreOrders : MainOrder(o) /\ purchase[o].reg = c[1])
      => \E o \in StoreOrders : purchase[o].reg = c[1] /\ c[2] \in purchase[o].items

\* What the requests under way have read.
VisitAdds(v) == v.step \in {"add", "add exhibitor"} => v.item \in StorePackages

VisitRegisters(v) ==
  v.step = "register" =>
    v.order \in StoreOrders /\ purchase[v.order].items \cap Mains # {}

VisitCancels(v) == v.step = "cancel" => v.reg \in Registrations /\ regn[v.reg] # "absent"

VisitBuys(v) ==
  v.step = "checkout" =>
    /\ v.items # {} /\ v.items \in SUBSET StorePackages
    /\ v.reg \in Registrations \cup {Nil}
    /\ v.reg # Nil <=> AdditionalOnly(v.items)
    /\ v.reg # Nil => regn[v.reg] # "absent"
    /\ \A o \in StoreOrders :
         ActiveOrder(o) /\ Overlap(v.items, purchase[o].items) => purchase[o].reopened

VisitsRead ==
  \A q \in Handlers :
    VisitAdds(visit[q]) /\ VisitRegisters(visit[q]) /\ VisitCancels(visit[q]) /\ VisitBuys(visit[q])

\* The user's row is locked by one request.
OneBuyer ==
  \A q, p \in Handlers : visit[q].step = "checkout" /\ visit[p].step = "checkout" => q = p

Tables ==
  /\ StoreTypeOK
  /\ OrdersFilled
  /\ NothingAbsent
  /\ AdditionalsHaveRegistration
  /\ MainOrdersDiffer
  /\ OneCurrent
  /\ HeldAreOrdered
  /\ PackageSoldOnce

StoreInv == Tables /\ VisitsRead /\ OneBuyer

-----------------------------------------------------------------------------
(* The requests under way                                                  *)

(* Requests that go on keep what they have read when orders keep their     *)
(* items, registrations stay, and no order becomes active but one paid     *)
(* after its cancellation.                                                 *)
LEMMA VisitsKeep ==
  ASSUME StoreInv,
         \A o \in StoreOrders : purchase[o].items # {} => purchase'[o].items = purchase[o].items,
         \A r \in Registrations : regn[r] # "absent" => regn'[r] # "absent",
         \A q \in Handlers : visit'[q] = visit[q] \/ visit'[q] = Away,
         (\E q \in Handlers : visit'[q].step = "checkout") =>
           \A o \in StoreOrders : ActiveOrder(o)' =>
             \/ purchase'[o].reopened
             \/ /\ ActiveOrder(o) /\ purchase'[o].items = purchase[o].items
                /\ purchase[o].reopened => purchase'[o].reopened
  PROVE  VisitsRead' /\ OneBuyer'
<1>1. OneBuyer'
  BY DEF StoreInv, OneBuyer, Away
<1>2. ASSUME NEW q \in Handlers
      PROVE  (VisitAdds(visit[q]) /\ VisitRegisters(visit[q]) /\ VisitCancels(visit[q])
               /\ VisitBuys(visit[q]))'
  <2>1. CASE visit'[q] = Away
    BY <2>1 DEF Away, VisitAdds, VisitRegisters, VisitCancels, VisitBuys
  <2>2. CASE visit'[q] = visit[q]
    <3> DEFINE v == visit[q]
    <3>1. VisitAdds(v) /\ VisitRegisters(v) /\ VisitCancels(v) /\ VisitBuys(v)
      BY DEF StoreInv, VisitsRead
    <3>2. VisitAdds(visit[q])'
      BY <2>2, <3>1 DEF VisitAdds
    <3>3. VisitRegisters(visit[q])'
      BY <2>2, <3>1 DEF VisitRegisters
    <3>4. VisitCancels(visit[q])'
      BY <2>2, <3>1 DEF VisitCancels
    <3>5. VisitBuys(visit[q])'
      <4> SUFFICES ASSUME v.step = "checkout"
                   PROVE  VisitBuys(visit[q])'
        BY <2>2 DEF VisitBuys
      <4>1. /\ v.items # {} /\ v.items \in SUBSET StorePackages
            /\ v.reg \in Registrations \cup {Nil}
            /\ v.reg # Nil <=> AdditionalOnly(v.items)
            /\ v.reg # Nil => regn[v.reg] # "absent"
        BY <3>1 DEF VisitBuys
      <4>2. v.reg # Nil => regn'[v.reg] # "absent"
        BY <4>1
      <4>3. ASSUME NEW o \in StoreOrders, ActiveOrder(o)', Overlap(v.items, purchase'[o].items)
            PROVE  purchase'[o].reopened
        BY <2>2, <3>1, <4>3 DEF VisitBuys
      <4> QED BY <2>2, <4>1, <4>2, <4>3 DEF VisitBuys, ActiveOrder, Overlap, AdditionalOnly
    <3> QED BY <3>2, <3>3, <3>4, <3>5
  <2> QED BY <2>1, <2>2
<1> QED BY <1>1, <1>2 DEF VisitsRead

(* A step that changes neither orders nor registrations nor what they hold *)
LEMMA SameTables ==
  ASSUME Tables, UNCHANGED <<purchase, regn, chosen>>,
         shelf' \subseteq StorePackages, cart' \subseteq StorePackages,
         visit' = [q \in Handlers |-> visit'[q]]
  PROVE  Tables'
<1>1. StoreTypeOK'
  BY DEF Tables, StoreTypeOK
<1>2. OrdersFilled' /\ NothingAbsent' /\ AdditionalsHaveRegistration'
  BY DEF Tables, OrdersFilled, NothingAbsent, AdditionalsHaveRegistration
<1>3. MainOrdersDiffer' /\ OneCurrent'
  BY DEF Tables, MainOrdersDiffer, OneCurrent, MainOrder, Current
<1>4. HeldAreOrdered'
  BY DEF Tables, HeldAreOrdered, MainOrder, Current
<1>5. PackageSoldOnce'
  BY DEF Tables, PackageSoldOnce, ActiveOrder, Share
<1> QED BY <1>1, <1>2, <1>3, <1>4, <1>5 DEF Tables

(* A request reads and decides.                                            *)
LEMMA LookKeeps ==
  ASSUME StoreInv, UNCHANGED <<shelf, cart, purchase, regn, chosen>>,
         NEW q \in Handlers, NEW v, Go(q, v),
         VisitAdds(v), VisitRegisters(v), VisitCancels(v), VisitBuys(v),
         v.step = "checkout" => ~UserBusy
  PROVE  StoreInv'
<1>1. /\ visit' = [p \in Handlers |-> visit'[p]]
      /\ visit'[q] = v
      /\ \A p \in Handlers \ {q} : visit'[p] = visit[p]
  BY DEF Go, StoreInv, Tables, StoreTypeOK
<1>2. Tables'
  BY <1>1, SameTables DEF StoreInv, Tables, StoreTypeOK
<1>3. VisitsRead'
  BY <1>1 DEF StoreInv, VisitsRead, VisitAdds, VisitRegisters, VisitCancels, VisitBuys, ActiveOrder
<1>4. OneBuyer'
  BY <1>1 DEF StoreInv, OneBuyer, UserBusy
<1> QED BY <1>2, <1>3, <1>4 DEF StoreInv

\* A request that looks has read what holds, and a checkout found nothing to refuse.
LEMMA Looks ==
  ASSUME StoreInv, NEW q \in Handlers,
         \/ CheckoutLook(q) \/ DelegateLook(q) \/ ExhibitorLook(q)
         \/ \E p \in StorePackages : AddLook(q, p)
         \/ \E r \in Registrations : CancelLook(q, r)
  PROVE  StoreInv'
<1>1. ASSUME NEW p \in StorePackages, AddLook(q, p) PROVE StoreInv'
  <2> DEFINE v == [step |-> IF p = Exhibitor THEN "add exhibitor" ELSE "add", item |-> p,
                   drop |-> IF p \in Mains THEN cart \cap Mains ELSE {}]
  <2>1. VisitAdds(v) /\ VisitRegisters(v) /\ VisitCancels(v) /\ VisitBuys(v)
    BY DEF VisitAdds, VisitRegisters, VisitCancels, VisitBuys
  <2>2. v.step # "checkout" /\ Go(q, v) /\ UNCHANGED <<shelf, cart, purchase, regn, chosen>>
    BY <1>1 DEF AddLook
  <2> HIDE DEF v
  <2> QED BY <2>1, <2>2, LookKeeps
<1>2. ASSUME DelegateLook(q) PROVE StoreInv'
  <2>1. PICK o \in StoreOrders : RegisterFrom(o) /\ Go(q, [step |-> "register", order |-> o])
    BY <1>2 DEF DelegateLook
  <2> DEFINE v == [step |-> "register", order |-> o]
  <2>2. VisitAdds(v) /\ VisitRegisters(v) /\ VisitCancels(v) /\ VisitBuys(v)
    BY <2>1 DEF VisitAdds, VisitRegisters, VisitCancels, VisitBuys, RegisterFrom
  <2>3. v.step # "checkout" /\ Go(q, v) /\ UNCHANGED <<shelf, cart, purchase, regn, chosen>>
    BY <1>2, <2>1 DEF DelegateLook
  <2> HIDE DEF v
  <2> QED BY <2>2, <2>3, LookKeeps
<1>3. ASSUME ExhibitorLook(q) PROVE StoreInv'
  <2> DEFINE v == [step |-> "exhibit"]
  <2>1. VisitAdds(v) /\ VisitRegisters(v) /\ VisitCancels(v) /\ VisitBuys(v)
    BY DEF VisitAdds, VisitRegisters, VisitCancels, VisitBuys
  <2>2. v.step # "checkout" /\ Go(q, v) /\ UNCHANGED <<shelf, cart, purchase, regn, chosen>>
    BY <1>3 DEF ExhibitorLook
  <2> HIDE DEF v
  <2> QED BY <2>1, <2>2, LookKeeps
<1>4. ASSUME NEW r \in Registrations, CancelLook(q, r) PROVE StoreInv'
  <2> DEFINE v == [step |-> "cancel", reg |-> r]
  <2>1. VisitAdds(v) /\ VisitRegisters(v) /\ VisitCancels(v) /\ VisitBuys(v)
    BY <1>4 DEF VisitAdds, VisitRegisters, VisitCancels, VisitBuys, CancelLook
  <2>2. v.step # "checkout" /\ Go(q, v) /\ UNCHANGED <<shelf, cart, purchase, regn, chosen>>
    BY <1>4 DEF CancelLook
  <2> HIDE DEF v
  <2> QED BY <2>1, <2>2, LookKeeps
<1>5. ASSUME CheckoutLook(q) PROVE StoreInv'
  <2>1. PICK r \in Registrations \cup {Nil} :
          /\ Go(q, [step |-> "checkout", items |-> cart, reg |-> r])
          /\ r # Nil <=> AdditionalOnly(cart)
          /\ r # Nil => r \in Current /\ \A p \in cart : AdditionalState(p) = "available"
    <3>1. CASE AdditionalOnly(cart)
      BY <1>5, <3>1, StoreConstants DEF CheckoutLook, Current
    <3>2. CASE ~AdditionalOnly(cart)
      BY <1>5, <3>2 DEF CheckoutLook
    <3> QED BY <3>1, <3>2
  <2>2. /\ cart # {} /\ cart \in SUBSET StorePackages
        /\ Exhibitor \in cart => ExhibitorAvailable
        /\ ~UserBusy
    BY <1>5 DEF CheckoutLook, Sellable, StoreInv, Tables, StoreTypeOK
  <2>3. ASSUME NEW o \in StoreOrders, ActiveOrder(o), Overlap(cart, purchase[o].items)
        PROVE  FALSE
    <3>1. CASE Exhibitor \in cart \cap purchase[o].items
      BY <2>2, <2>3, <3>1 DEF ExhibitorAvailable
    <3>2. CASE cart \cap purchase[o].items # {} /\ AdditionalOnly(cart)
      <4>1. PICK p \in cart : p \in purchase[o].items
        BY <3>2
      <4>2. Ordered(p)
        BY <2>3, <4>1 DEF Ordered
      <4>3. AdditionalState(p) # "available"
        BY <4>2 DEF AdditionalState
      <4> QED BY <2>1, <3>2, <4>1, <4>3
    <3> QED BY <2>3, <3>1, <3>2 DEF Overlap
  <2> DEFINE v == [step |-> "checkout", items |-> cart, reg |-> r]
  <2>4. VisitBuys(v)
    BY <2>1, <2>2, <2>3 DEF VisitBuys, Current
  <2>5. VisitAdds(v) /\ VisitRegisters(v) /\ VisitCancels(v)
    BY DEF VisitAdds, VisitRegisters, VisitCancels
  <2>6. Go(q, v) /\ UNCHANGED <<shelf, cart, purchase, regn, chosen>>
    BY <1>5, <2>1 DEF CheckoutLook
  <2> HIDE DEF v
  <2> QED BY <2>2, <2>4, <2>5, <2>6, LookKeeps
<1> QED BY <1>1, <1>2, <1>3, <1>4, <1>5

-----------------------------------------------------------------------------
(* The steps that write                                                    *)

(* Requests end, the cart or the catalogue changes.                        *)
LEMMA CartKeeps ==
  ASSUME StoreInv, UNCHANGED <<purchase, regn, chosen>>,
         shelf' \subseteq StorePackages, cart' \subseteq StorePackages,
         visit' = visit \/ \E q \in Handlers : Go(q, Away)
  PROVE  StoreInv'
<1>1. /\ visit' = [q \in Handlers |-> visit'[q]]
      /\ \A q \in Handlers : visit'[q] = visit[q] \/ visit'[q] = Away
  BY DEF Go, StoreInv, Tables, StoreTypeOK
<1>2. Tables'
  BY <1>1, SameTables DEF StoreInv
<1>3. VisitsRead' /\ OneBuyer'
  BY <1>1, VisitsKeep DEF ActiveOrder, StoreInv
<1> QED BY <1>2, <1>3 DEF StoreInv

(* The cart, the shelf and the booth are not what the claims speak of.     *)
LEMMA QuietSteps ==
  ASSUME StoreInv,
         \/ \E q \in Handlers : AddCommit(q) \/ ExhibitorCommit(q) \/ Leave(q)
         \/ \E p \in StorePackages : RemoveItem(p) \/ DeleteProduct(p)
         \/ SaveCatalogue \/ DeleteExhibitor \/ UNCHANGED storeVars
  PROVE  StoreInv'
<1>1. shelf \subseteq StorePackages /\ cart \subseteq StorePackages
  BY DEF StoreInv, Tables, StoreTypeOK
<1>2. ASSUME NEW q \in Handlers, AddCommit(q) PROVE StoreInv'
  <2>1. visit[q].item \in StorePackages
    BY <1>2 DEF AddCommit, StoreInv, VisitsRead, VisitAdds
  <2> QED BY <1>1, <1>2, <2>1, CartKeeps DEF AddCommit
<1>3. ASSUME NEW q \in Handlers, ExhibitorCommit(q) \/ Leave(q) PROVE StoreInv'
  BY <1>1, <1>3, CartKeeps DEF ExhibitorCommit, Leave
<1>4. ASSUME NEW p \in StorePackages, RemoveItem(p) \/ DeleteProduct(p) PROVE StoreInv'
  BY <1>1, <1>4, CartKeeps DEF RemoveItem, DeleteProduct
<1>5. ASSUME SaveCatalogue \/ DeleteExhibitor \/ UNCHANGED storeVars PROVE StoreInv'
  BY <1>1, <1>5, CartKeeps DEF SaveCatalogue, DeleteExhibitor, storeVars
<1> QED BY <1>2, <1>3, <1>4, <1>5

(* A registration is cancelled or confirmed.                               *)
LEMMA RegistrationSteps ==
  ASSUME StoreInv,
         \/ \E q \in Handlers : CancelCommit(q)
         \/ \E r \in Registrations : ConfirmRegistration(r)
  PROVE  StoreInv'
<1>1. /\ regn' \in [Registrations -> {"absent", "open", "confirmed", "cancelled"}]
      /\ \A r \in Registrations : regn'[r] = "absent" <=> regn[r] = "absent"
      /\ Current' \subseteq Current
      /\ UNCHANGED <<shelf, cart, purchase, chosen>>
      /\ visit' = [q \in Handlers |-> visit'[q]]
      /\ \A q \in Handlers : visit'[q] = visit[q] \/ visit'[q] = Away
  <2>1. ASSUME NEW q \in Handlers, CancelCommit(q) PROVE <1>1!:
    <3>1. visit[q].reg \in Registrations /\ regn[visit[q].reg] # "absent"
      BY <2>1 DEF CancelCommit, StoreInv, VisitsRead, VisitCancels
    <3>2. regn \in [Registrations -> {"absent", "open", "confirmed", "cancelled"}]
      BY DEF StoreInv, Tables, StoreTypeOK
    <3>3. regn' = [regn EXCEPT ![visit[q].reg] = "cancelled"]
      BY <2>1 DEF CancelCommit
    <3>4. \A r \in Registrations : regn'[r] = "absent" <=> regn[r] = "absent"
      BY <3>1, <3>2, <3>3
    <3>5. Current' \subseteq Current
      BY <3>2, <3>3 DEF Current
    <3>6. /\ visit' = [p \in Handlers |-> visit'[p]]
          /\ \A p \in Handlers : visit'[p] = visit[p] \/ visit'[p] = Away
      BY <2>1 DEF CancelCommit, Go, StoreInv, Tables, StoreTypeOK
    <3> QED BY <2>1, <3>2, <3>3, <3>4, <3>5, <3>6 DEF CancelCommit
  <2>2. ASSUME NEW r \in Registrations, ConfirmRegistration(r) PROVE <1>1!:
    BY <2>2 DEF ConfirmRegistration, StoreInv, Tables, StoreTypeOK, Current
  <2> QED BY <2>1, <2>2
<1>2. StoreTypeOK'
  BY <1>1 DEF StoreInv, Tables, StoreTypeOK
<1>3. OrdersFilled' /\ AdditionalsHaveRegistration' /\ MainOrdersDiffer'
  BY <1>1 DEF StoreInv, Tables, OrdersFilled, AdditionalsHaveRegistration, MainOrdersDiffer,
              MainOrder
<1>4. NothingAbsent'
  BY <1>1 DEF StoreInv, Tables, StoreTypeOK, OrderRows, NothingAbsent
<1>5. OneCurrent'
  BY <1>1 DEF StoreInv, Tables, OneCurrent
<1>6. HeldAreOrdered'
  BY <1>1 DEF StoreInv, Tables, HeldAreOrdered, MainOrder
<1>7. PackageSoldOnce'
  BY <1>1 DEF StoreInv, Tables, PackageSoldOnce, ActiveOrder, Share
<1>8. VisitsRead' /\ OneBuyer'
  BY <1>1, VisitsKeep DEF ActiveOrder
<1> QED BY <1>2, <1>3, <1>4, <1>5, <1>6, <1>7, <1>8 DEF StoreInv, Tables

(* An order is cancelled, paid or refunded: a registration with a main     *)
(* order becomes the current one, packages of the order are granted.       *)
LEMMA StatusKeeps ==
  ASSUME StoreInv, NEW o \in StoreOrders, NEW row \in OrderRows,
         purchase' = [purchase EXCEPT ![o] = row],
         purchase[o].st # "absent", row.st # "absent",
         row.items = purchase[o].items, row.reg = purchase[o].reg,
         row.st \in {"pending", "paid"} => ActiveOrder(o) \/ row.reopened,
         purchase[o].reopened => row.reopened,
         regn' \in [Registrations -> {"absent", "open", "confirmed", "cancelled"}],
         \A r \in Registrations : regn'[r] = "absent" <=> regn[r] = "absent",
         \/ Current' \subseteq Current
         \/ (MainOrder(o) /\ row.reg # Nil /\ Current' \subseteq {row.reg}),
         \A c \in chosen' : c \in chosen \/ (c[1] = row.reg /\ c[2] \in row.items /\ row.reg # Nil),
         UNCHANGED <<shelf, cart, visit>>
  PROVE  StoreInv'
<1>1. /\ purchase \in [StoreOrders -> OrderRows] /\ purchase' \in [StoreOrders -> OrderRows]
      /\ \A n \in StoreOrders : /\ purchase'[n].items = purchase[n].items
                                /\ purchase'[n].reg = purchase[n].reg
                                /\ purchase[n].reopened => purchase'[n].reopened
                                /\ n # o => purchase'[n] = purchase[n]
      /\ purchase'[o] = row
  BY DEF StoreInv, Tables, StoreTypeOK
<1>2. StoreTypeOK'
  BY <1>1 DEF StoreInv, Tables, StoreTypeOK
<1>3. OrdersFilled'
  BY <1>1 DEF StoreInv, Tables, OrdersFilled
<1>4. AdditionalsHaveRegistration' /\ MainOrdersDiffer'
  BY <1>1 DEF StoreInv, Tables, AdditionalsHaveRegistration, MainOrdersDiffer, MainOrder
<1>5. NothingAbsent'
  <2>1. \A n \in StoreOrders : purchase[n].reg # Nil =>
          purchase[n].reg \in Registrations /\ regn[purchase[n].reg] # "absent"
    BY <1>1 DEF StoreInv, Tables, NothingAbsent, OrderRows
  <2> QED BY <1>1, <2>1 DEF StoreInv, Tables, NothingAbsent
<1>6. OneCurrent'
  BY DEF StoreInv, Tables, OneCurrent
<1>7. HeldAreOrdered'
  <2> SUFFICES ASSUME NEW c \in chosen',
                      \/ c[1] \in Current'
                      \/ \E n \in StoreOrders : MainOrder(n)' /\ purchase'[n].reg = c[1]
               PROVE  \E n \in StoreOrders : purchase'[n].reg = c[1] /\ c[2] \in purchase'[n].items
    BY DEF HeldAreOrdered
  <2>1. CASE c[1] = row.reg /\ c[2] \in row.items
    BY <1>1, <2>1
  <2>2. CASE c \in chosen
    <3>1. c[1] \in Current \/ \E n \in StoreOrders : MainOrder(n) /\ purchase[n].reg = c[1]
      BY <1>1 DEF MainOrder
    <3>2. \E n \in StoreOrders : purchase[n].reg = c[1] /\ c[2] \in purchase[n].items
      BY <2>2, <3>1 DEF StoreInv, Tables, HeldAreOrdered
    <3> QED BY <1>1, <3>2
  <2> QED BY <2>1, <2>2
<1>8. \A n \in StoreOrders : ActiveOrder(n)' => ActiveOrder(n) \/ purchase'[n].reopened
  BY <1>1 DEF ActiveOrder
<1>9. PackageSoldOnce'
  BY <1>1, <1>8 DEF StoreInv, Tables, PackageSoldOnce, Share
<1>10. VisitsRead' /\ OneBuyer'
  BY <1>1, <1>8, VisitsKeep
<1> QED BY <1>2, <1>3, <1>4, <1>5, <1>6, <1>7, <1>9, <1>10 DEF StoreInv, Tables

(* What reconciling an order does to its registration.                     *)
LEMMA Reinstates ==
  ASSUME StoreInv, NEW o \in StoreOrders, purchase[o].st # "absent", RegistrationAfterPayment(o)
  PROVE  /\ regn' \in [Registrations -> {"absent", "open", "confirmed", "cancelled"}]
         /\ \A r \in Registrations : regn'[r] = "absent" <=> regn[r] = "absent"
         /\ \/ Current' \subseteq Current
            \/ MainOrder(o) /\ purchase[o].reg # Nil /\ Current' \subseteq {purchase[o].reg}
<1>1. /\ regn \in [Registrations -> {"absent", "open", "confirmed", "cancelled"}]
      /\ purchase[o] \in OrderRows /\ purchase[o].items # {}
  BY DEF StoreInv, Tables, StoreTypeOK, OrdersFilled
<1>2. CASE UNCHANGED regn
  BY <1>1, <1>2 DEF Current
<1>3. CASE ~UNCHANGED regn
  <2> DEFINE r == purchase[o].reg
  <2>1. /\ r # Nil /\ MainOrder(o) /\ OnlyRegistration(r)
        /\ regn' = [regn EXCEPT ![r] = IF @ = "confirmed" THEN @ ELSE "open"]
    BY <1>1, <1>3 DEF RegistrationAfterPayment, MainOrder
  <2>2. r \in Registrations /\ regn[r] # "absent"
    BY <1>1, <2>1 DEF OrderRows, StoreInv, Tables, NothingAbsent
  <2> HIDE DEF r
  <2>3. /\ regn' \in [Registrations -> {"absent", "open", "confirmed", "cancelled"}]
        /\ \A x \in Registrations : regn'[x] = "absent" <=> regn[x] = "absent"
    BY <1>1, <2>1, <2>2
  <2>4. Current' \subseteq {r}
    BY <1>1, <2>1 DEF Current, OnlyRegistration
  <2> QED BY <2>1, <2>3, <2>4 DEF r
<1> QED BY <1>2, <1>3

(* Payments, refunds and cancellations of orders, also late ones.          *)
LEMMA PaymentSteps ==
  ASSUME StoreInv, NEW o \in StoreOrders, CancelOrder(o) \/ OrderPaid(o) \/ OrderRefunded(o)
  PROVE  StoreInv'
<1>1. purchase \in [StoreOrders -> OrderRows]
  BY DEF StoreInv, Tables, StoreTypeOK
<1>2. CASE CancelOrder(o)
  <2> DEFINE row == [purchase[o] EXCEPT !.st = "canceled"]
  <2>1. /\ row \in OrderRows /\ row.st = "canceled" /\ row.items = purchase[o].items
        /\ row.reg = purchase[o].reg /\ row.reopened = purchase[o].reopened
    BY <1>1 DEF OrderRows
  <2>2. purchase' = [purchase EXCEPT ![o] = row]
    BY <1>2 DEF CancelOrder
  <2> HIDE DEF row
  <2>3. /\ purchase[o].st # "absent"
        /\ UNCHANGED <<shelf, cart, regn, chosen, visit>>
    BY <1>2 DEF CancelOrder
  <2>4. /\ regn' \in [Registrations -> {"absent", "open", "confirmed", "cancelled"}]
        /\ Current' \subseteq Current
    BY <2>3 DEF Current, StoreInv, Tables, StoreTypeOK
  <2> QED BY <2>1, <2>2, <2>3, <2>4, StatusKeeps
<1>3. CASE OrderPaid(o)
  <2> DEFINE row == [purchase[o] EXCEPT !.st = "paid",
                                        !.reopened = @ \/ purchase[o].st = "canceled"]
  <2>1. /\ row \in OrderRows /\ row.st = "paid" /\ row.items = purchase[o].items
        /\ row.reg = purchase[o].reg
        /\ row.reopened <=> purchase[o].reopened \/ purchase[o].st = "canceled"
    BY <1>1 DEF OrderRows
  <2>2. purchase' = [purchase EXCEPT ![o] = row]
    BY <1>1, <1>3 DEF OrderPaid
  <2> HIDE DEF row
  <2>3. /\ purchase[o].st \in {"pending", "canceled"}
        /\ UNCHANGED <<shelf, cart, visit>>
        /\ RegistrationAfterPayment(o) /\ Grant(o)
    BY <1>3 DEF OrderPaid
  <2>4. ActiveOrder(o) \/ row.reopened
    BY <2>1, <2>3 DEF ActiveOrder
  <2>5. \A c \in chosen' : c \in chosen \/ (c[1] = row.reg /\ c[2] \in row.items /\ row.reg # Nil)
    <3>1. CASE AdditionalOnly(purchase[o].items)
      <4>1. row.reg # Nil
        BY <2>1, <3>1 DEF StoreInv, Tables, AdditionalsHaveRegistration
      <4>2. chosen' = chosen \cup Selected(row.reg, row.items \cap shelf)
        BY <2>1, <2>3, <3>1 DEF Grant
      <4> QED BY <4>1, <4>2 DEF Selected
    <3>2. CASE ~AdditionalOnly(purchase[o].items)
      BY <2>3, <3>2 DEF Grant
    <3> QED BY <3>1, <3>2
  <2> QED BY <2>1, <2>2, <2>3, <2>4, <2>5, Reinstates, StatusKeeps
<1>4. CASE OrderRefunded(o)
  <2> DEFINE row == [purchase[o] EXCEPT !.st = "pending"]
  <2>1. /\ row \in OrderRows /\ row.st = "pending" /\ row.items = purchase[o].items
        /\ row.reg = purchase[o].reg /\ row.reopened = purchase[o].reopened
    BY <1>1 DEF OrderRows
  <2>2. purchase' = [purchase EXCEPT ![o] = row]
    BY <1>4 DEF OrderRefunded
  <2> HIDE DEF row
  <2>3. /\ purchase[o].st = "paid" /\ ActiveOrder(o)
        /\ UNCHANGED <<shelf, cart, chosen, visit>>
        /\ RegistrationAfterPayment(o)
    BY <1>4 DEF OrderRefunded, ActiveOrder
  <2> QED BY <2>1, <2>2, <2>3, Reinstates, StatusKeeps
<1> QED BY <1>2, <1>3, <1>4

(* A checkout inserts the order it decided on.                             *)
LEMMA CheckoutKeeps ==
  ASSUME StoreInv, NEW q \in Handlers, CheckoutCommit(q)
  PROVE  StoreInv'
<1> DEFINE v == visit[q]
           row == [st |-> "pending", items |-> v.items, reg |-> v.reg, reopened |-> FALSE]
<1>1. /\ v.items # {} /\ v.items \in SUBSET StorePackages
      /\ v.reg \in Registrations \cup {Nil}
      /\ v.reg # Nil <=> AdditionalOnly(v.items)
      /\ v.reg # Nil => regn[v.reg] # "absent"
      /\ \A n \in StoreOrders :
           ActiveOrder(n) /\ Overlap(v.items, purchase[n].items) => purchase[n].reopened
  BY DEF CheckoutCommit, StoreInv, VisitsRead, VisitBuys
<1>2. PICK o \in StoreOrders : purchase[o] = NoOrder /\ purchase' = [purchase EXCEPT ![o] = row]
  BY DEF CheckoutCommit
<1>3. /\ cart' = {} /\ UNCHANGED <<shelf, regn, chosen>>
      /\ Go(q, Away)
      /\ v.step = "checkout"
  BY DEF CheckoutCommit
<1>4. /\ row \in OrderRows /\ row.st = "pending" /\ row.items = v.items /\ row.reg = v.reg
  BY <1>1 DEF OrderRows
<1>5. /\ purchase \in [StoreOrders -> OrderRows] /\ purchase' \in [StoreOrders -> OrderRows]
      /\ purchase'[o] = row
      /\ \A n \in StoreOrders : n # o => purchase'[n] = purchase[n]
      /\ purchase[o].st = "absent" /\ purchase[o].items = {} /\ purchase[o].reg = Nil
  BY <1>2, <1>4 DEF StoreInv, Tables, StoreTypeOK, NoOrder
<1>6. /\ visit' = [p \in Handlers |-> visit'[p]]
      /\ visit'[q] = Away
      /\ \A p \in Handlers : p # q => visit'[p] = visit[p]
  BY <1>3 DEF Go, StoreInv, Tables, StoreTypeOK
<1> HIDE DEF row
<1>7. StoreTypeOK'
  BY <1>3, <1>5, <1>6 DEF StoreInv, Tables, StoreTypeOK
<1>8. OrdersFilled'
  BY <1>1, <1>4, <1>5 DEF StoreInv, Tables, OrdersFilled
<1>9. NothingAbsent'
  BY <1>1, <1>3, <1>4, <1>5 DEF StoreInv, Tables, NothingAbsent
<1>10. AdditionalsHaveRegistration'
  BY <1>1, <1>4, <1>5 DEF StoreInv, Tables, AdditionalsHaveRegistration
<1>11. MainOrdersDiffer'
  BY <1>1, <1>4, <1>5 DEF StoreInv, Tables, MainOrdersDiffer, MainOrder
<1>12. OneCurrent'
  BY <1>3 DEF StoreInv, Tables, OneCurrent, Current
<1>13. HeldAreOrdered'
  <2> SUFFICES ASSUME NEW c \in chosen,
                      \/ c[1] \in Current
                      \/ \E n \in StoreOrders : MainOrder(n)' /\ purchase'[n].reg = c[1]
               PROVE  \E n \in StoreOrders : purchase'[n].reg = c[1] /\ c[2] \in purchase'[n].items
    BY <1>3 DEF HeldAreOrdered, Current
  <2>1. c[1] \in Registrations /\ c[1] # Nil
    BY StoreConstants DEF StoreInv, Tables, NothingAbsent
  <2>2. ~(MainOrder(o)' /\ purchase'[o].reg = c[1])
    BY <1>1, <1>4, <1>5, <2>1 DEF MainOrder
  <2>3. c[1] \in Current \/ \E n \in StoreOrders : MainOrder(n) /\ purchase[n].reg = c[1]
    BY <1>5, <2>2 DEF MainOrder
  <2>4. PICK n \in StoreOrders : purchase[n].reg = c[1] /\ c[2] \in purchase[n].items
    BY <2>3 DEF StoreInv, Tables, HeldAreOrdered
  <2>5. n # o
    BY <1>5, <2>1, <2>4
  <2> QED BY <1>5, <2>4, <2>5
<1>14. PackageSoldOnce'
  <2> SUFFICES ASSUME NEW x \in StoreOrders, NEW y \in StoreOrders, x # y,
                      ActiveOrder(x)', ActiveOrder(y)', Share(x, y)'
               PROVE  purchase'[x].reopened \/ purchase'[y].reopened
    BY DEF PackageSoldOnce
  <2>1. CASE x # o /\ y # o
    BY <1>5, <2>1 DEF ActiveOrder, Share, StoreInv, Tables, PackageSoldOnce
  <2>2. CASE x = o
    BY <1>1, <1>4, <1>5, <2>2 DEF ActiveOrder, Share, Overlap
  <2>3. CASE y = o
    BY <1>1, <1>4, <1>5, <2>3 DEF ActiveOrder, Share, Overlap
  <2> QED BY <2>1, <2>2, <2>3
<1>15. \A p \in Handlers : visit'[p].step # "checkout"
  BY <1>3, <1>6 DEF StoreInv, OneBuyer, Away
<1>16. VisitsRead' /\ OneBuyer'
  BY <1>3, <1>5, <1>6, <1>15, VisitsKeep
<1> QED BY <1>7, <1>8, <1>9, <1>10, <1>11, <1>12, <1>13, <1>14, <1>16 DEF StoreInv, Tables

(* A registration is made from an order, which another may have been made  *)
(* from since the order was read.                                          *)
LEMMA DelegateKeeps ==
  ASSUME StoreInv, NEW q \in Handlers, DelegateCommit(q)
  PROVE  StoreInv'
<1> DEFINE o == visit[q].order
<1>1. o \in StoreOrders /\ purchase[o].items \cap Mains # {}
  BY DEF DelegateCommit, StoreInv, VisitsRead, VisitRegisters
<1>2. PICK r \in Registrations :
        /\ regn[r] = "absent" /\ OnlyRegistration(r)
        /\ regn' = [regn EXCEPT ![r] = "open"]
        /\ purchase' = [purchase EXCEPT ![o].reg = r]
        /\ chosen' = chosen \cup Selected(r, purchase[o].items \cap shelf)
  BY DEF DelegateCommit
<1>3. Go(q, Away) /\ UNCHANGED <<shelf, cart>>
  BY DEF DelegateCommit
<1>4. /\ visit' = [p \in Handlers |-> visit'[p]]
      /\ \A p \in Handlers : visit'[p] = visit[p] \/ visit'[p] = Away
  BY <1>3 DEF Go, StoreInv, Tables, StoreTypeOK
<1> HIDE DEF o
<1>5. /\ purchase \in [StoreOrders -> OrderRows]
      /\ regn \in [Registrations -> {"absent", "open", "confirmed", "cancelled"}]
  BY DEF StoreInv, Tables, StoreTypeOK
<1>6. /\ purchase' \in [StoreOrders -> OrderRows]
      /\ purchase'[o].reg = r
      /\ \A n \in StoreOrders : /\ purchase'[n].items = purchase[n].items
                                /\ purchase'[n].st = purchase[n].st
                                /\ purchase'[n].reopened = purchase[n].reopened
                                /\ n # o => purchase'[n] = purchase[n]
  BY <1>1, <1>2, <1>5 DEF OrderRows
<1>7. ~AdditionalOnly(purchase[o].items) /\ MainOrder(o)
  BY <1>1, StoreConstants DEF AdditionalOnly, MainOrder
<1>8. r # Nil /\ \A n \in StoreOrders : purchase[n].reg # r
  BY <1>2, StoreConstants DEF StoreInv, Tables, NothingAbsent
<1>9. \A c \in chosen : c[1] \in Registrations /\ c[1] # r
  BY <1>2 DEF StoreInv, Tables, NothingAbsent
<1>10. Current = {} /\ Current' \subseteq {r}
  BY <1>2, <1>5 DEF OnlyRegistration, Current
<1>11. StoreTypeOK'
  BY <1>2, <1>3, <1>4, <1>5, <1>6 DEF StoreInv, Tables, StoreTypeOK
<1>12. OrdersFilled'
  <2>1. purchase[o].st # "absent"
    BY <1>1 DEF StoreInv, Tables, OrdersFilled, NoOrder
  <2> QED BY <1>6, <2>1 DEF StoreInv, Tables, OrdersFilled
<1>13. NothingAbsent'
  <2>1. \A n \in StoreOrders : purchase[n].reg # Nil =>
          purchase[n].reg \in Registrations /\ regn[purchase[n].reg] # "absent"
    BY <1>5 DEF StoreInv, Tables, NothingAbsent, OrderRows
  <2>2. \A x \in Registrations : regn[x] # "absent" => regn'[x] # "absent"
    BY <1>2, <1>5
  <2>3. regn'[r] # "absent"
    BY <1>2, <1>5
  <2>4. \A c \in chosen' : c[1] \in Registrations /\ regn'[c[1]] # "absent"
    BY <1>2, <1>5, <2>2, <2>3 DEF Selected, StoreInv, Tables, NothingAbsent
  <2> QED BY <1>6, <2>1, <2>2, <2>3, <2>4 DEF NothingAbsent
<1>14. AdditionalsHaveRegistration'
  BY <1>6, <1>8 DEF StoreInv, Tables, AdditionalsHaveRegistration
<1>15. MainOrdersDiffer'
  BY <1>6, <1>8 DEF StoreInv, Tables, MainOrdersDiffer, MainOrder
<1>16. OneCurrent'
  BY <1>10 DEF OneCurrent
<1>17. HeldAreOrdered'
  <2> SUFFICES ASSUME NEW c \in chosen',
                      \/ c[1] \in Current'
                      \/ \E n \in StoreOrders : MainOrder(n)' /\ purchase'[n].reg = c[1]
               PROVE  \E n \in StoreOrders : purchase'[n].reg = c[1] /\ c[2] \in purchase'[n].items
    BY DEF HeldAreOrdered
  <2>1. CASE c \in chosen
    <3>1. c[1] \in Registrations /\ c[1] # r /\ c[1] # Nil
      BY <1>9, <2>1, StoreConstants
    <3>2. PICK n \in StoreOrders : MainOrder(n)' /\ purchase'[n].reg = c[1]
      BY <1>10, <3>1
    <3>3. n # o /\ MainOrder(n) /\ purchase[n].reg = c[1]
      BY <1>6, <3>1, <3>2 DEF MainOrder
    <3>4. PICK w \in StoreOrders : purchase[w].reg = c[1] /\ c[2] \in purchase[w].items
      BY <2>1, <3>3 DEF StoreInv, Tables, HeldAreOrdered
    <3>5. w # o
      BY <1>1, <1>7, <3>1, <3>3, <3>4 DEF StoreInv, Tables, MainOrdersDiffer
    <3> QED BY <1>6, <3>4, <3>5
  <2>2. CASE c \in Selected(r, purchase[o].items \cap shelf)
    BY <1>1, <1>6, <2>2 DEF Selected
  <2> QED BY <1>2, <2>1, <2>2
<1>18. \A n \in StoreOrders : ActiveOrder(n)' <=> ActiveOrder(n)
  BY <1>6 DEF ActiveOrder
<1>19. PackageSoldOnce'
  BY <1>6, <1>18 DEF StoreInv, Tables, PackageSoldOnce, Share
<1>20. \A x \in Registrations : regn[x] # "absent" => regn'[x] # "absent"
  BY <1>2, <1>5
<1>21. VisitsRead' /\ OneBuyer'
  BY <1>4, <1>6, <1>18, <1>20, VisitsKeep
<1> QED BY <1>11, <1>12, <1>13, <1>14, <1>15, <1>16, <1>17, <1>19, <1>21 DEF StoreInv, Tables

-----------------------------------------------------------------------------
(* The claims                                                              *)

(* Every step of the store keeps the invariant.                            *)
LEMMA StoreStep == StoreInv /\ [StoreNext]_storeVars => StoreInv'
<1> SUFFICES ASSUME StoreInv, [StoreNext]_storeVars PROVE StoreInv'
  OBVIOUS
<1> QED BY Looks, QuietSteps, RegistrationSteps, PaymentSteps, CheckoutKeeps, DelegateKeeps
        DEF StoreNext

(* The store opens without orders.                                         *)
LEMMA StoreStart == StoreInit => StoreInv
<1> SUFFICES ASSUME StoreInit PROVE StoreInv
  OBVIOUS
<1>1. /\ \A o \in StoreOrders : purchase[o] = NoOrder
      /\ \A r \in Registrations : regn[r] = "absent"
      /\ \A q \in Handlers : visit[q] = Away
      /\ chosen = {} /\ cart = {}
  BY DEF StoreInit
<1>2. NoOrder \in OrderRows
  BY DEF NoOrder, OrderRows
<1>3. StoreTypeOK
  BY <1>2, StoreConstants DEF StoreInit, StoreTypeOK, StorePackages
<1>4. OrdersFilled /\ NothingAbsent /\ AdditionalsHaveRegistration
  <2>1. \A o \in StoreOrders : purchase[o].reg = Nil /\ purchase[o].items = {}
    BY <1>1 DEF NoOrder
  <2>2. OrdersFilled
    <3>1. NoOrder.st = "absent"
      BY DEF NoOrder
    <3> QED BY <1>1, <3>1 DEF OrdersFilled
  <2>3. NothingAbsent /\ AdditionalsHaveRegistration
    BY <1>1, <2>1 DEF NothingAbsent, AdditionalsHaveRegistration, AdditionalOnly
  <2> QED BY <2>2, <2>3
<1>5. MainOrdersDiffer /\ OneCurrent /\ HeldAreOrdered /\ PackageSoldOnce
  BY <1>1 DEF MainOrdersDiffer, OneCurrent, HeldAreOrdered, PackageSoldOnce, NoOrder, MainOrder,
              Current, ActiveOrder
<1>6. VisitsRead /\ OneBuyer
  <2>1. \A q \in Handlers : visit[q].step = "away"
    BY <1>1 DEF Away
  <2>2. \A v : v.step = "away" => VisitAdds(v) /\ VisitRegisters(v) /\ VisitCancels(v) /\ VisitBuys(v)
    BY DEF VisitAdds, VisitRegisters, VisitCancels, VisitBuys
  <2>3. OneBuyer
    BY <2>1 DEF OneBuyer
  <2>4. VisitsRead
    BY <2>1, <2>2 DEF VisitsRead
  <2> QED BY <2>3, <2>4
<1> QED BY <1>3, <1>4, <1>5, <1>6 DEF StoreInv, Tables

(* Orders, registrations, held packages and requests keep their invariant. *)
THEOREM StoreInvariant == StoreSpec => []StoreInv
  BY StoreStart, StoreStep, PTL DEF StoreSpec

(* The exhibitor package, or an additional package, is in one order that   *)
(* can be paid or is (checkout under the lock of the user's row), unless a *)
(* cancelled order was settled.                                            *)
THEOREM SoldOnce == StoreSpec => []PackageSoldOnce
<1>1. StoreInv => PackageSoldOnce
  BY DEF StoreInv, Tables
<1> QED BY <1>1, StoreInvariant, PTL

(* A set whose members are all equal has at most one.                      *)
LEMMA AtMostOne ==
  ASSUME NEW S, \A x, y \in S : x = y
  PROVE  Cardinality(S) <= 1
<1>1. CASE S = {}
  <2>1. Cardinality(S) = 0
    BY <1>1, FS_EmptySet
  <2> QED BY <2>1
<1>2. CASE S # {}
  <2>1. PICK x \in S : TRUE
    BY <1>2
  <2>2. S = {x}
    BY <2>1
  <2>3. Cardinality(S) = 1
    BY <2>2, FS_Singleton
  <2> QED BY <2>3
<1> QED BY <1>1, <1>2

(* A participant has at most one registration that is not cancelled, which *)
(* the partial unique index has to keep against payments of old orders.    *)
THEOREM OneRegistration == StoreSpec => []OneCurrentRegistration
<1>1. StoreInv => OneCurrentRegistration
  BY AtMostOne DEF StoreInv, Tables, OneCurrent, OneCurrentRegistration
<1> QED BY <1>1, StoreInvariant, PTL

(* A current registration holds packages of its own orders only            *)
(* (_activate_paid_additional_packages, the delegate registration).        *)
THEOREM HeldPackagesAreOrdered == StoreSpec => []PackagesAreOrdered
<1>1. StoreInv => PackagesAreOrdered
  BY DEF StoreInv, Tables, HeldAreOrdered, PackagesAreOrdered
<1> QED BY <1>1, StoreInvariant, PTL

(* The user's page agrees with the store: the exhibitor package is offered *)
(* when the store sells it, who can register is not told to buy, and who   *)
(* lacks only the profile can register, unless the package is gone or the  *)
(* registration was cancelled.                                             *)
THEOREM PageAgrees == StoreSpec => []TrackingAgrees
<1>1. StoreInv => TrackingAgrees
  <2> SUFFICES ASSUME StoreInv, NEW submitted \in SUBSET Current
               PROVE  /\ PurchaseStatus("exhibitor", submitted) = "not_selected"
                           <=> ExhibitorAvailable /\ Exhibitor \notin cart
                      /\ CanRegister =>
                           \/ EffectiveStatus(submitted) \notin {"account_created", "package_selected"}
                           \/ PurchaseStatus("exhibitor", submitted) = "selected"
                      /\ PurchaseStatus("delegate", submitted) = "paid_profile_incomplete"
                           => \/ CanRegister \/ Current # {}
                              \/ \E o \in Tracked("delegate") :
                                   IF purchase[o].reg = Nil THEN purchase[o].items \cap Mains \cap shelf = {}
                                   ELSE regn[purchase[o].reg] = "cancelled"
    BY DEF TrackingAgrees
  <2>1. ASSUME NEW type
        PROVE  /\ Tracked(type) # {} =>
                    PurchaseStatus(type, submitted) \in {"payment_pending", "completed", "paid_profile_incomplete"}
               /\ Tracked(type) = {} =>
                    PurchaseStatus(type, submitted) =
                      IF cart \cap OfType(type) # {} \/ Registered(type) THEN "selected" ELSE "not_selected"
               /\ PurchaseStatus(type, submitted) = "paid_profile_incomplete" =>
                    Tracked(type) # {} /\ \A o \in Tracked(type) : purchase[o].st = "paid"
    <3>1. CASE \E o \in Tracked(type) : purchase[o].st # "paid"
      <4>1. PurchaseStatus(type, submitted) = "payment_pending"
        BY <3>1 DEF PurchaseStatus
      <4> QED BY <3>1, <4>1
    <3>2. CASE \A o \in Tracked(type) : purchase[o].st = "paid"
      <4>1. PurchaseStatus(type, submitted) =
              IF Tracked(type) # {}
              THEN IF Complete(type, submitted) THEN "completed" ELSE "paid_profile_incomplete"
              ELSE IF cart \cap OfType(type) # {} \/ Registered(type) THEN "selected" ELSE "not_selected"
        BY <3>2 DEF PurchaseStatus
      <4> QED BY <3>2, <4>1
    <3> QED BY <3>1, <3>2
  <2>2. PurchaseStatus("exhibitor", submitted) = "not_selected"
          <=> ExhibitorAvailable /\ Exhibitor \notin cart
    <3>1. OfType("exhibitor") = {Exhibitor} /\ (Registered("exhibitor") <=> booth # "absent")
      BY DEF OfType, Registered
    <3>2. Tracked("exhibitor") = {} <=> \A o \in StoreOrders : ActiveOrder(o) => Exhibitor \notin purchase[o].items
      BY <3>1 DEF Tracked
    <3> QED BY <2>1, <3>1, <3>2 DEF ExhibitorAvailable
  <2>3. ASSUME CanRegister, PurchaseStatus("exhibitor", submitted) # "selected"
        PROVE  EffectiveStatus(submitted) \notin {"account_created", "package_selected"}
    <3> DEFINE states == {PurchaseStatus(type, submitted) : type \in PackageTypes}
    <3>1. Tracked("delegate") # {}
      BY <2>3 DEF CanRegister, RegisterFrom, Tracked, OfType
    <3>2. /\ PurchaseStatus("delegate", submitted) \in {"payment_pending", "completed", "paid_profile_incomplete"}
          /\ states = {PurchaseStatus("delegate", submitted), PurchaseStatus("exhibitor", submitted)}
      BY <2>1, <3>1 DEF PackageTypes
    <3>3. "selected" \notin states
      BY <2>3, <3>2
    <3>4. EffectiveStatus(submitted) =
            CASE "payment_pending" \in states -> "payment_pending"
              [] "payment_pending" \notin states /\ "selected" \in states -> "package_selected"
              [] states \cap {"payment_pending", "selected"} = {}
                 /\ states \cap {"completed", "paid_profile_incomplete"} # {} -> "paid"
              [] OTHER -> "account_created"
      BY DEF EffectiveStatus
    <3>5. "payment_pending" \in states \/ states \cap {"completed", "paid_profile_incomplete"} # {}
      BY <3>2
    <3> HIDE DEF states
    <3>6. CASE "payment_pending" \in states
      BY <3>3, <3>4, <3>6
    <3>7. CASE "payment_pending" \notin states
      BY <3>3, <3>4, <3>5, <3>7
    <3> QED BY <3>6, <3>7
  <2>4. ASSUME PurchaseStatus("delegate", submitted) = "paid_profile_incomplete", Current = {}
        PROVE  \/ CanRegister
               \/ \E o \in Tracked("delegate") :
                    IF purchase[o].reg = Nil THEN purchase[o].items \cap Mains \cap shelf = {}
                    ELSE regn[purchase[o].reg] = "cancelled"
    <3>1. PICK o \in Tracked("delegate") : purchase[o].st = "paid"
      BY <2>1, <2>4
    <3>2. o \in StoreOrders /\ ActiveOrder(o)
      BY <3>1 DEF Tracked
    <3>3. CASE purchase[o].reg = Nil
      BY <2>4, <3>1, <3>2, <3>3 DEF CanRegister, RegisterFrom
    <3>4. CASE purchase[o].reg # Nil
      <4>1. /\ purchase[o].reg \in Registrations /\ regn[purchase[o].reg] # "absent"
            /\ regn[purchase[o].reg] \in {"absent", "open", "confirmed", "cancelled"}
        BY <3>2, <3>4 DEF StoreInv, Tables, StoreTypeOK, OrderRows, NothingAbsent
      <4>2. regn[purchase[o].reg] = "cancelled"
        BY <2>4, <4>1 DEF Current
      <4> QED BY <3>1, <3>4, <4>2
    <3> QED BY <3>3, <3>4
  <2> QED BY <2>2, <2>3, <2>4
<1> QED BY <1>1, StoreInvariant, PTL

-----------------------------------------------------------------------------
(***************************************************************************)
(* Packages and their rates. A handler locks the row it is named after and *)
(* the rates it unsets, so a rate has one writer at a time; without an     *)
(* edit of the package beside it, that writer has read the product as it   *)
(* is.                                                                     *)
(***************************************************************************)

DeskTypes ==
  /\ onSale \in BOOLEAN
  /\ rate \in [Rates -> RateForm \cup {NoRate}]
  /\ sold \in [Rates -> [active : BOOLEAN, price : Nat]]
  /\ desk = [a \in Admins |-> desk[a]]
  /\ \A a \in Admins : desk[a].step \in {"idle", "package", "package read", "rate", "rate read"}
  /\ \A a \in OnPackage :
       desk[a].sale \in BOOLEAN /\ desk[a].rows \in [Rates -> RateForm \cup {NoRate}]
  /\ \A a \in OnRates :
       /\ desk[a].r \in Rates /\ desk[a].insert \in BOOLEAN /\ desk[a].row \in RateForm
       /\ desk[a].want \in [active : BOOLEAN, price : Nat]

\* The rate that a request has locked, or inserts, is touched by no other.
RowsLocked ==
  \A a \in OnRates :
    /\ ~desk[a].insert => desk[a].r \in Existing
    /\ desk[a].insert /\ desk[a].step = "rate read" => desk[a].r \notin Existing
    /\ \A b \in OnRates \ {a} :
         /\ Held(a) \cap Held(b) = {}
         /\ ~ /\ desk[a].step = "rate read" /\ desk[a].insert
              /\ desk[b].step = "rate read" /\ desk[b].insert /\ desk[b].r = desk[a].r

\* Without a request for the package beside another: requests have read what is so.
DeskReads ==
  "package" \notin met =>
    /\ \A a \in OnPackage :
         /\ \A b \in Admins \ {a} : desk[b].step = "idle"
         /\ desk[a].rows = rate
         /\ desk[a].step = "package read" => desk[a].seen = sold
    /\ \A a \in OnRates :
         /\ \/ desk[a].want = Wanted(onSale, desk[a].row)
            \/ /\ desk[a].want = NoProduct /\ ~desk[a].insert /\ ~desk[a].row.active
               /\ desk[a].row.price = rate[desk[a].r].price
         /\ desk[a].step = "rate read" => desk[a].seen = sold[desk[a].r]
    /\ \A r \in Existing : sold[r] = Wanted(onSale, rate[r])

\* Without two rates edited at once: the one request unsets the other defaults.
DefaultsApart ==
  "rate" \notin met =>
    /\ \A a, b \in OnRates : a = b
    /\ \A a \in OnRates : desk[a].row.default => Defaults \ {desk[a].r} \subseteq desk[a].unset
    /\ \A r, n \in Defaults : r = n

PackageInv ==
  /\ DeskTypes
  /\ RowsLocked
  /\ DeskReads
  /\ DefaultsApart

-----------------------------------------------------------------------------
(* A request moves, and the others stay at their step.                     *)
LEMMA DeskOne ==
  ASSUME DeskTypes, NEW a \in Admins, NEW s, desk' = [desk EXCEPT ![a] = s]
  PROVE  /\ desk'[a] = s /\ \A b \in Admins \ {a} : desk'[b] = desk[b]
         /\ desk' = [b \in Admins |-> desk'[b]]
         /\ s.step \in {"rate", "rate read"} => OnRates' = OnRates \cup {a}
         /\ s.step \notin {"rate", "rate read"} => OnRates' = OnRates \ {a}
         /\ s.step \in {"package", "package read"} => OnPackage' = OnPackage \cup {a}
         /\ s.step \notin {"package", "package read"} => OnPackage' = OnPackage \ {a}
         /\ \A b \in Admins \ {a} : Held(b)' = Held(b)
<1>1. /\ desk'[a] = s /\ \A b \in Admins \ {a} : desk'[b] = desk[b]
      /\ desk' = [b \in Admins |-> desk'[b]]
  BY DEF DeskTypes
<1>2. /\ s.step \in {"rate", "rate read"} => OnRates' = OnRates \cup {a}
      /\ s.step \notin {"rate", "rate read"} => OnRates' = OnRates \ {a}
      /\ s.step \in {"package", "package read"} => OnPackage' = OnPackage \cup {a}
      /\ s.step \notin {"package", "package read"} => OnPackage' = OnPackage \ {a}
  BY <1>1 DEF OnRates, OnPackage
<1>3. ASSUME NEW b \in Admins \ {a}
      PROVE  Held(b)' = Held(b)
  <2>1. b \in OnRates' <=> b \in OnRates
    BY <1>2
  <2> QED BY <1>1, <2>1 DEF Held
<1> QED BY <1>1, <1>2, <1>3

(* Rows that a form makes exist, and unsetting a default keeps the rest.   *)
LEMMA FormsExist ==
  /\ \A row \in RateForm : /\ row # NoRate /\ row.active \in BOOLEAN /\ row.default \in BOOLEAN
                           /\ row.price \in Nat \ {0} /\ (row.default => row.active)
  /\ NoRate.default = FALSE /\ NoRate.price = 0 /\ NoRate.active = FALSE
BY DEF RateForm, NoRate

(* A row whose default is taken.                                           *)
LEMMA UnsetKeeps ==
  ASSUME NEW row \in RateForm \cup {NoRate}, NEW new, new = [row EXCEPT !.default = FALSE]
  PROVE  /\ new \in RateForm \cup {NoRate} /\ new.default = FALSE
         /\ new.active = row.active /\ new.price = row.price
         /\ new = NoRate <=> row = NoRate
<1>1. CASE row = NoRate
  BY <1>1 DEF NoRate
<1>2. CASE row \in RateForm
  <2>1. new \in RateForm /\ new.default = FALSE /\ new.active = row.active /\ new.price = row.price
    BY <1>2 DEF RateForm
  <2> QED BY <1>2, <2>1, FormsExist
<1> QED BY <1>1, <1>2

(* A write of a product gives what is wanted when the product is as it was *)
(* read, except that a price of 0 is not written.                          *)
LEMMA ProductAsWanted ==
  ASSUME NEW now, NEW want \in [active : BOOLEAN, price : Nat],
         now \in [active : BOOLEAN, price : Nat]
  PROVE  /\ ProductWritten(now, now, want).active = want.active
         /\ ProductWritten(now, now, want).price = IF want.price = 0 THEN now.price ELSE want.price
BY DEF ProductWritten

(* A product stays a product whatever was read.                            *)
LEMMA ProductTyped ==
  ASSUME NEW now \in [active : BOOLEAN, price : Nat], NEW seen,
         NEW want \in [active : BOOLEAN, price : Nat]
  PROVE  ProductWritten(now, seen, want) \in [active : BOOLEAN, price : Nat]
BY DEF ProductWritten

(* What is wanted of a product is a product.                               *)
LEMMA WantedTyped ==
  ASSUME NEW sale \in BOOLEAN, NEW row \in RateForm
  PROVE  /\ Wanted(sale, row) \in [active : BOOLEAN, price : Nat]
         /\ Wanted(sale, row).active = (sale /\ row.active)
         /\ Wanted(sale, row).price = row.price /\ row.price # 0
BY FormsExist DEF Wanted

(* An administrator begins to edit a rate.                                 *)
LEMMA RateStarts ==
  ASSUME PackageInv, NEW a \in Admins, NEW s, DeskStart(a, s), s.step = "rate",
         s.r \in Rates, s.insert \in BOOLEAN, s.row \in RateForm,
         s.want \in [active : BOOLEAN, price : Nat],
         ~s.insert => s.r \in Existing \ HeldByOthers(a),
         s.row.default => Defaults \ {s.r} \subseteq s.unset,
         \/ s.want = Wanted(onSale, s.row)
         \/ /\ s.want = NoProduct /\ ~s.insert /\ ~s.row.active
            /\ s.row.price = rate[s.r].price
  PROVE  PackageInv'
<1>1. DeskTypes /\ RowsLocked /\ DeskReads /\ DefaultsApart
  BY DEF PackageInv
<1>2. /\ desk' = [desk EXCEPT ![a] = s] /\ desk[a] = DeskIdle
      /\ onSale' = onSale /\ rate' = rate /\ sold' = sold
      /\ "package" \notin met' => "package" \notin met /\ OnPackage = {}
      /\ "rate" \notin met' => "rate" \notin met /\ OnRates = {}
  BY DEF DeskStart
<1>3. a \notin OnRates /\ a \notin OnPackage
  <2>1. desk[a].step = "idle"
    BY <1>2 DEF DeskIdle
  <2> QED BY <2>1 DEF OnRates, OnPackage
<1>4. /\ desk'[a] = s /\ \A b \in Admins \ {a} : desk'[b] = desk[b]
      /\ desk' = [b \in Admins |-> desk'[b]]
      /\ OnRates' = OnRates \cup {a} /\ OnPackage' = OnPackage
      /\ \A b \in Admins \ {a} : Held(b)' = Held(b)
  <2>1. s.step \in {"rate", "rate read"} /\ s.step \notin {"package", "package read"}
    OBVIOUS
  <2>2. OnPackage \ {a} = OnPackage
    BY <1>3
  <2>3. /\ desk'[a] = s /\ \A b \in Admins \ {a} : desk'[b] = desk[b]
        /\ desk' = [b \in Admins |-> desk'[b]]
        /\ \A b \in Admins \ {a} : Held(b)' = Held(b)
    BY <1>1, <1>2, DeskOne
  <2>4. OnRates' = OnRates \cup {a}
    BY <1>1, <1>2, <2>1, DeskOne
  <2>5. OnPackage' = OnPackage \ {a}
    BY <1>1, <1>2, <2>1, DeskOne
  <2> QED BY <2>2, <2>3, <2>4, <2>5
<1>5. Existing' = Existing /\ Defaults' = Defaults
  BY <1>2 DEF Existing, Defaults
<1>6. OnRates \subseteq Admins /\ OnPackage \subseteq Admins
  BY DEF OnRates, OnPackage
<1>7. DeskTypes'
  <2>1. \A b \in Admins : desk'[b].step \in {"idle", "package", "package read", "rate", "rate read"}
    BY <1>1, <1>4 DEF DeskTypes
  <2>2. \A b \in OnPackage' :
          desk'[b].sale \in BOOLEAN /\ desk'[b].rows \in [Rates -> RateForm \cup {NoRate}]
    BY <1>1, <1>3, <1>4, <1>6 DEF DeskTypes
  <2>3. \A b \in OnRates' :
          /\ desk'[b].r \in Rates /\ desk'[b].insert \in BOOLEAN /\ desk'[b].row \in RateForm
          /\ desk'[b].want \in [active : BOOLEAN, price : Nat]
    BY <1>1, <1>4, <1>6 DEF DeskTypes
  <2> QED BY <1>1, <1>2, <1>4, <2>1, <2>2, <2>3 DEF DeskTypes
<1>8. RowsLocked'
  <2>1. Held(a)' = IF s.insert THEN {} ELSE {s.r}
    BY <1>4 DEF Held
  <2>2. \A b \in OnRates : Held(b) \cap Held(a)' = {}
    <3>1. \A b \in OnRates : Held(b) \subseteq HeldByOthers(a)
      BY <1>3, <1>6 DEF HeldByOthers
    <3> QED BY <2>1, <3>1
  <2>3. ASSUME NEW b \in OnRates', NEW c \in OnRates' \ {b}
        PROVE  /\ Held(b)' \cap Held(c)' = {}
               /\ ~ /\ desk'[b].step = "rate read" /\ desk'[b].insert
                    /\ desk'[c].step = "rate read" /\ desk'[c].insert /\ desk'[c].r = desk'[b].r
    <3>1. CASE b = a \/ c = a
      BY <1>4, <1>6, <2>2, <2>3, <3>1
    <3>2. CASE b # a /\ c # a
      BY <1>1, <1>4, <1>6, <2>3, <3>2 DEF RowsLocked
    <3> QED BY <3>1, <3>2
  <2>4. ASSUME NEW b \in OnRates'
        PROVE  /\ ~desk'[b].insert => desk'[b].r \in Existing'
               /\ desk'[b].insert /\ desk'[b].step = "rate read" => desk'[b].r \notin Existing'
    BY <1>1, <1>4, <1>5, <1>6, <2>4 DEF RowsLocked
  <2> QED BY <2>3, <2>4 DEF RowsLocked
<1>9. DeskReads'
  <2> SUFFICES ASSUME "package" \notin met'
               PROVE  DeskReads'
    BY DEF DeskReads
  <2>1. OnPackage' = {}
    BY <1>2, <1>4
  <2>2. ASSUME NEW b \in OnRates'
        PROVE  /\ \/ desk'[b].want = Wanted(onSale, desk'[b].row)
                  \/ /\ desk'[b].want = NoProduct /\ ~desk'[b].insert /\ ~desk'[b].row.active
                     /\ desk'[b].row.price = rate[desk'[b].r].price
               /\ desk'[b].step = "rate read" => desk'[b].seen = sold[desk'[b].r]
    BY <1>1, <1>2, <1>4, <1>6, <2>2 DEF DeskReads
  <2>3. \A r \in Existing : sold[r] = Wanted(onSale, rate[r])
    BY <1>1, <1>2 DEF DeskReads
  <2>4. ASSUME NEW b \in OnRates'
        PROVE  /\ \/ desk'[b].want = Wanted(onSale, desk[b].row)'
                  \/ /\ desk'[b].want = NoProduct /\ ~desk'[b].insert /\ ~desk'[b].row.active
                     /\ desk'[b].row.price = rate'[desk'[b].r].price
               /\ desk'[b].step = "rate read" => desk'[b].seen = sold'[desk'[b].r]
    BY <1>2, <2>2, <2>4 DEF Wanted
  <2>5. \A r \in Existing' : sold'[r] = Wanted(onSale, rate[r])'
    BY <1>2, <1>5, <2>3 DEF Wanted
  <2> QED BY <2>1, <2>4, <2>5 DEF DeskReads
<1>10. DefaultsApart'
  BY <1>1, <1>2, <1>4, <1>5 DEF DefaultsApart
<1> QED BY <1>7, <1>8, <1>9, <1>10 DEF PackageInv

(* A request is done, or gives up; the rows keep their form.               *)
LEMMA DeskLeft ==
  ASSUME DeskTypes, NEW a \in Admins, desk' = [desk EXCEPT ![a] = DeskIdle],
         onSale' \in BOOLEAN, rate' \in [Rates -> RateForm \cup {NoRate}],
         sold' \in [Rates -> [active : BOOLEAN, price : Nat]]
  PROVE  /\ DeskTypes'
         /\ desk'[a].step = "idle" /\ \A b \in Admins \ {a} : desk'[b] = desk[b]
         /\ OnRates' = OnRates \ {a} /\ OnPackage' = OnPackage \ {a}
         /\ \A b \in Admins \ {a} : Held(b)' = Held(b)
<1>1. DeskIdle.step = "idle"
  BY DEF DeskIdle
<1>2. /\ desk'[a] = DeskIdle /\ \A b \in Admins \ {a} : desk'[b] = desk[b]
      /\ desk' = [b \in Admins |-> desk'[b]]
      /\ \A b \in Admins \ {a} : Held(b)' = Held(b)
  BY DeskOne
<1>3. OnRates' = OnRates \ {a} /\ OnPackage' = OnPackage \ {a}
  BY <1>1, DeskOne
<1>4. OnRates \subseteq Admins /\ OnPackage \subseteq Admins
  BY DEF OnRates, OnPackage
<1>5. \A b \in Admins : desk'[b].step \in {"idle", "package", "package read", "rate", "rate read"}
  BY <1>1, <1>2 DEF DeskTypes
<1>6. \A b \in OnPackage' :
        desk'[b].sale \in BOOLEAN /\ desk'[b].rows \in [Rates -> RateForm \cup {NoRate}]
  BY <1>2, <1>3, <1>4 DEF DeskTypes
<1>7. \A b \in OnRates' :
        /\ desk'[b].r \in Rates /\ desk'[b].insert \in BOOLEAN /\ desk'[b].row \in RateForm
        /\ desk'[b].want \in [active : BOOLEAN, price : Nat]
  BY <1>2, <1>3, <1>4 DEF DeskTypes
<1> QED BY <1>1, <1>2, <1>3, <1>5, <1>6, <1>7 DEF DeskTypes

(* Locks of the others hold when no other rate appears than the one that   *)
(* is edited.                                                              *)
LEMMA LocksLeft ==
  ASSUME RowsLocked, NEW a \in Admins,
         \A b \in Admins \ {a} : desk'[b] = desk[b] /\ Held(b)' = Held(b),
         OnRates' = OnRates \ {a},
         Existing \subseteq Existing',
         \A b \in OnRates' :
           desk[b].insert /\ desk[b].step = "rate read" => desk[b].r \notin Existing' \ Existing
  PROVE  RowsLocked'
<1>1. OnRates \subseteq Admins
  BY DEF OnRates
<1>2. ASSUME NEW b \in OnRates'
      PROVE  /\ ~desk'[b].insert => desk'[b].r \in Existing'
             /\ desk'[b].insert /\ desk'[b].step = "rate read" => desk'[b].r \notin Existing'
  BY <1>1, <1>2 DEF RowsLocked
<1>3. ASSUME NEW b \in OnRates', NEW c \in OnRates' \ {b}
      PROVE  /\ Held(b)' \cap Held(c)' = {}
             /\ ~ /\ desk'[b].step = "rate read" /\ desk'[b].insert
                  /\ desk'[c].step = "rate read" /\ desk'[c].insert /\ desk'[c].r = desk'[b].r
  BY <1>1, <1>3 DEF RowsLocked
<1> QED BY <1>2, <1>3 DEF RowsLocked

(* A request gives up.                                                     *)
LEMMA LeaveDeskKeeps ==
  ASSUME PackageInv, NEW a \in Admins, LeaveDesk(a)
  PROVE  PackageInv'
<1>1. DeskTypes /\ RowsLocked /\ DeskReads /\ DefaultsApart
  BY DEF PackageInv
<1>2. /\ desk' = [desk EXCEPT ![a] = DeskIdle]
      /\ onSale' = onSale /\ rate' = rate /\ sold' = sold /\ met' = met
  BY DEF LeaveDesk
<1>3. Existing' = Existing /\ Defaults' = Defaults
  BY <1>2 DEF Existing, Defaults
<1>4. /\ DeskTypes'
      /\ desk'[a].step = "idle" /\ \A b \in Admins \ {a} : desk'[b] = desk[b]
      /\ OnRates' = OnRates \ {a} /\ OnPackage' = OnPackage \ {a}
      /\ \A b \in Admins \ {a} : Held(b)' = Held(b)
  <2>1. /\ onSale' \in BOOLEAN /\ rate' \in [Rates -> RateForm \cup {NoRate}]
        /\ sold' \in [Rates -> [active : BOOLEAN, price : Nat]]
    BY <1>1, <1>2 DEF DeskTypes
  <2> QED BY <1>1, <1>2, <2>1, DeskLeft
<1>5. RowsLocked'
  BY <1>1, <1>3, <1>4, LocksLeft
<1>6. OnRates \subseteq Admins /\ OnPackage \subseteq Admins
  BY DEF OnRates, OnPackage
<1>7. DeskReads'
  <2> SUFFICES ASSUME "package" \notin met
               PROVE  DeskReads'
    BY <1>2 DEF DeskReads
  <2>1. ASSUME NEW b \in OnPackage'
        PROVE  /\ \A c \in Admins \ {b} : desk'[c].step = "idle"
               /\ desk'[b].rows = rate
               /\ desk'[b].step = "package read" => desk'[b].seen = sold
    BY <1>1, <1>4, <1>6, <2>1 DEF DeskReads
  <2>2. ASSUME NEW b \in OnRates'
        PROVE  /\ \/ desk'[b].want = Wanted(onSale, desk'[b].row)
                  \/ /\ desk'[b].want = NoProduct /\ ~desk'[b].insert /\ ~desk'[b].row.active
                     /\ desk'[b].row.price = rate[desk'[b].r].price
               /\ desk'[b].step = "rate read" => desk'[b].seen = sold[desk'[b].r]
    BY <1>1, <1>4, <1>6, <2>2 DEF DeskReads
  <2>3. ASSUME NEW b \in OnRates'
        PROVE  /\ \/ desk'[b].want = Wanted(onSale, desk[b].row)'
                  \/ /\ desk'[b].want = NoProduct /\ ~desk'[b].insert /\ ~desk'[b].row.active
                     /\ desk'[b].row.price = rate'[desk'[b].r].price
               /\ desk'[b].step = "rate read" => desk'[b].seen = sold'[desk'[b].r]
    BY <1>2, <2>2, <2>3 DEF Wanted
  <2>4. \A r \in Existing : sold[r] = Wanted(onSale, rate[r])
    BY <1>1 DEF DeskReads
  <2>5. \A r \in Existing' : sold'[r] = Wanted(onSale, rate[r])'
    BY <1>2, <1>3, <2>4 DEF Wanted
  <2> QED BY <1>2, <2>1, <2>3, <2>5 DEF DeskReads
<1>8. DefaultsApart'
  BY <1>1, <1>2, <1>3, <1>4, <1>6 DEF DefaultsApart
<1> QED BY <1>4, <1>5, <1>7, <1>8 DEF PackageInv

(* The changed rates are locked and the product is read.                   *)
LEMMA RateFlushKeeps ==
  ASSUME PackageInv, NEW a \in Admins, RateFlush(a)
  PROVE  PackageInv'
<1> DEFINE d == desk[a]
           s == [step |-> "rate read", r |-> d.r, insert |-> d.insert, row |-> d.row,
                 want |-> d.want, unset |-> d.unset, seen |-> sold[d.r]]
<1>1. DeskTypes /\ RowsLocked /\ DeskReads /\ DefaultsApart
  BY DEF PackageInv
<1>2. /\ desk' = [desk EXCEPT ![a] = s] /\ desk[a].step = "rate"
      /\ onSale' = onSale /\ rate' = rate /\ sold' = sold /\ met' = met
      /\ d.unset \cap HeldByOthers(a) = {}
      /\ d.insert => d.r \notin Existing /\ ~BeingInserted(a, d.r)
  BY DEF RateFlush
<1>3. /\ s.step = "rate read" /\ s.r = d.r /\ s.insert = d.insert /\ s.row = d.row
      /\ s.want = d.want /\ s.unset = d.unset /\ s.seen = sold[d.r]
  OBVIOUS
<1> HIDE DEF s
<1>4. /\ Existing' = Existing /\ Defaults' = Defaults
      /\ a \in OnRates /\ OnRates \subseteq Admins /\ OnPackage \subseteq Admins
  BY <1>2 DEF Existing, Defaults, OnRates, OnPackage
<1>5. /\ desk'[a] = s /\ \A b \in Admins \ {a} : desk'[b] = desk[b]
      /\ desk' = [b \in Admins |-> desk'[b]]
      /\ \A b \in Admins \ {a} : Held(b)' = Held(b)
  BY <1>1, <1>2, DeskOne
<1>6. OnRates' = OnRates /\ OnPackage' = OnPackage
  <2>1. a \notin OnPackage
    BY <1>2 DEF OnPackage
  <2>2. OnRates' = OnRates \cup {a}
    BY <1>1, <1>2, <1>3, DeskOne
  <2>3. OnPackage' = OnPackage \ {a}
    BY <1>1, <1>2, <1>3, DeskOne
  <2> QED BY <1>4, <2>1, <2>2, <2>3
<1>7. DeskTypes'
  <2>1. \A b \in Admins : desk'[b].step \in {"idle", "package", "package read", "rate", "rate read"}
    BY <1>1, <1>3, <1>5 DEF DeskTypes
  <2>2. \A b \in OnPackage' :
          desk'[b].sale \in BOOLEAN /\ desk'[b].rows \in [Rates -> RateForm \cup {NoRate}]
    <3>1. a \notin OnPackage
      BY <1>2 DEF OnPackage
    <3> QED BY <1>1, <1>4, <1>5, <1>6, <3>1 DEF DeskTypes
  <2>3. \A b \in OnRates' :
          /\ desk'[b].r \in Rates /\ desk'[b].insert \in BOOLEAN /\ desk'[b].row \in RateForm
          /\ desk'[b].want \in [active : BOOLEAN, price : Nat]
    BY <1>1, <1>3, <1>4, <1>5, <1>6 DEF DeskTypes
  <2> QED BY <1>1, <1>2, <1>5, <2>1, <2>2, <2>3 DEF DeskTypes
<1>8. RowsLocked'
  <2>1. Held(a) = IF d.insert THEN {} ELSE {d.r}
    BY <1>2, <1>4 DEF Held
  <2>2. Held(a)' = Held(a) \cup d.unset
    BY <1>3, <1>4, <1>5, <1>6, <2>1 DEF Held
  <2>3. ASSUME NEW b \in OnRates \ {a}
        PROVE  /\ Held(b) \cap Held(a)' = {}
               /\ ~ /\ desk[b].step = "rate read" /\ desk[b].insert /\ d.insert /\ desk[b].r = d.r
    <3>1. Held(b) \subseteq HeldByOthers(a)
      BY <1>4 DEF HeldByOthers
    <3>2. Held(b) \cap Held(a) = {}
      BY <1>1, <1>4 DEF RowsLocked
    <3> QED BY <1>2, <1>4, <2>2, <3>1, <3>2 DEF BeingInserted
  <2>4. ASSUME NEW b \in OnRates', NEW c \in OnRates' \ {b}
        PROVE  /\ Held(b)' \cap Held(c)' = {}
               /\ ~ /\ desk'[b].step = "rate read" /\ desk'[b].insert
                    /\ desk'[c].step = "rate read" /\ desk'[c].insert /\ desk'[c].r = desk'[b].r
    <3>1. CASE b = a
      BY <1>3, <1>4, <1>5, <1>6, <2>3, <2>4, <3>1
    <3>2. CASE c = a
      BY <1>3, <1>4, <1>5, <1>6, <2>3, <2>4, <3>2
    <3>3. CASE b # a /\ c # a
      BY <1>1, <1>4, <1>5, <1>6, <2>4, <3>3 DEF RowsLocked
    <3> QED BY <3>1, <3>2, <3>3
  <2>5. ASSUME NEW b \in OnRates'
        PROVE  /\ ~desk'[b].insert => desk'[b].r \in Existing'
               /\ desk'[b].insert /\ desk'[b].step = "rate read" => desk'[b].r \notin Existing'
    BY <1>1, <1>2, <1>3, <1>4, <1>5, <1>6, <2>5 DEF RowsLocked
  <2> QED BY <2>4, <2>5 DEF RowsLocked
<1>9. DeskReads'
  <2> SUFFICES ASSUME "package" \notin met
               PROVE  DeskReads'
    BY <1>2 DEF DeskReads
  <2>1. OnPackage' = {}
    <3>1. ASSUME NEW b \in OnPackage PROVE FALSE
      BY <1>1, <1>2, <1>4, <3>1 DEF DeskReads, OnPackage
    <3> QED BY <1>6, <3>1
  <2>2. ASSUME NEW b \in OnRates'
        PROVE  /\ \/ desk'[b].want = Wanted(onSale, desk'[b].row)
                  \/ /\ desk'[b].want = NoProduct /\ ~desk'[b].insert /\ ~desk'[b].row.active
                     /\ desk'[b].row.price = rate[desk'[b].r].price
               /\ desk'[b].step = "rate read" => desk'[b].seen = sold[desk'[b].r]
    <3>1. b \in OnRates
      BY <1>6
    <3>2. /\ \/ desk[b].want = Wanted(onSale, desk[b].row)
             \/ /\ desk[b].want = NoProduct /\ ~desk[b].insert /\ ~desk[b].row.active
                /\ desk[b].row.price = rate[desk[b].r].price
          /\ desk[b].step = "rate read" => desk[b].seen = sold[desk[b].r]
      BY <1>1, <3>1 DEF DeskReads
    <3>3. CASE b = a
      BY <1>3, <1>5, <3>2, <3>3
    <3>4. CASE b # a
      BY <1>4, <1>5, <3>1, <3>2, <3>4
    <3> QED BY <3>3, <3>4
  <2>3. ASSUME NEW b \in OnRates'
        PROVE  /\ \/ desk'[b].want = Wanted(onSale, desk[b].row)'
                  \/ /\ desk'[b].want = NoProduct /\ ~desk'[b].insert /\ ~desk'[b].row.active
                     /\ desk'[b].row.price = rate'[desk'[b].r].price
               /\ desk'[b].step = "rate read" => desk'[b].seen = sold'[desk'[b].r]
    BY <1>2, <2>2, <2>3 DEF Wanted
  <2>4. \A r \in Existing : sold[r] = Wanted(onSale, rate[r])
    BY <1>1 DEF DeskReads
  <2>5. \A r \in Existing' : sold'[r] = Wanted(onSale, rate[r])'
    BY <1>2, <1>4, <2>4 DEF Wanted
  <2> QED BY <2>1, <2>3, <2>5 DEF DeskReads
<1>10. DefaultsApart'
  BY <1>1, <1>2, <1>3, <1>4, <1>5, <1>6 DEF DefaultsApart
<1> QED BY <1>7, <1>8, <1>9, <1>10 DEF PackageInv

(* A request for the package begins, or reads the products.                *)
LEMMA PackageLooks ==
  ASSUME PackageInv, NEW a \in Admins, NEW s, desk' = [desk EXCEPT ![a] = s],
         onSale' = onSale, rate' = rate, sold' = sold,
         a \notin OnRates, s.step \in {"package", "package read"},
         s.sale \in BOOLEAN, s.rows \in [Rates -> RateForm \cup {NoRate}],
         "rate" \notin met' => "rate" \notin met,
         "package" \notin met' =>
           /\ "package" \notin met
           /\ \A b \in Admins \ {a} : desk[b].step = "idle"
           /\ s.rows = rate
           /\ s.step = "package read" => s.seen = sold
  PROVE  PackageInv'
<1>1. DeskTypes /\ RowsLocked /\ DeskReads /\ DefaultsApart
  BY DEF PackageInv
<1>2. /\ Existing' = Existing /\ Defaults' = Defaults
      /\ OnRates \subseteq Admins /\ OnPackage \subseteq Admins
  BY DEF Existing, Defaults, OnRates, OnPackage
<1>3. /\ desk'[a] = s /\ \A b \in Admins \ {a} : desk'[b] = desk[b]
      /\ desk' = [b \in Admins |-> desk'[b]]
      /\ \A b \in Admins \ {a} : Held(b)' = Held(b)
  BY <1>1, DeskOne
<1>4. OnRates' = OnRates /\ OnPackage' = OnPackage \cup {a}
  <2>1. OnRates' = OnRates \ {a}
    BY <1>1, DeskOne
  <2>2. OnPackage' = OnPackage \cup {a}
    BY <1>1, DeskOne
  <2> QED BY <2>1, <2>2
<1>5. \A b \in OnRates : b # a /\ desk'[b] = desk[b] /\ Held(b)' = Held(b)
  BY <1>2, <1>3
<1>6. DeskTypes'
  <2>1. \A b \in Admins : desk'[b].step \in {"idle", "package", "package read", "rate", "rate read"}
    BY <1>1, <1>3 DEF DeskTypes
  <2>2. \A b \in OnPackage' :
          desk'[b].sale \in BOOLEAN /\ desk'[b].rows \in [Rates -> RateForm \cup {NoRate}]
    BY <1>1, <1>2, <1>3, <1>4 DEF DeskTypes
  <2>3. \A b \in OnRates' :
          /\ desk'[b].r \in Rates /\ desk'[b].insert \in BOOLEAN /\ desk'[b].row \in RateForm
          /\ desk'[b].want \in [active : BOOLEAN, price : Nat]
    BY <1>1, <1>4, <1>5 DEF DeskTypes
  <2> QED BY <1>1, <1>3, <2>1, <2>2, <2>3 DEF DeskTypes
<1>7. RowsLocked'
  <2>1. ASSUME NEW b \in OnRates'
        PROVE  /\ ~desk'[b].insert => desk'[b].r \in Existing'
               /\ desk'[b].insert /\ desk'[b].step = "rate read" => desk'[b].r \notin Existing'
    <3>1. b \in OnRates /\ desk'[b] = desk[b]
      BY <1>4, <1>5
    <3>2. /\ ~desk[b].insert => desk[b].r \in Existing
          /\ desk[b].insert /\ desk[b].step = "rate read" => desk[b].r \notin Existing
      BY <1>1, <3>1 DEF RowsLocked
    <3>3. Existing' = Existing
      BY <1>2
    <3>4. /\ ~desk'[b].insert => desk'[b].r \in Existing
          /\ desk'[b].insert /\ desk'[b].step = "rate read" => desk'[b].r \notin Existing
      BY <3>1, <3>2
    <3> QED BY <3>3, <3>4
  <2>2. ASSUME NEW b \in OnRates', NEW c \in OnRates' \ {b}
        PROVE  /\ Held(b)' \cap Held(c)' = {}
               /\ ~ /\ desk'[b].step = "rate read" /\ desk'[b].insert
                    /\ desk'[c].step = "rate read" /\ desk'[c].insert /\ desk'[c].r = desk'[b].r
    BY <1>1, <1>4, <1>5, <2>2 DEF RowsLocked
  <2> QED BY <2>1, <2>2 DEF RowsLocked
<1>8. DeskReads'
  <2> SUFFICES ASSUME "package" \notin met'
               PROVE  DeskReads'
    BY DEF DeskReads
  <2>1. OnRates' = {} /\ OnPackage' = {a}
    <3>1. \A b \in OnRates \cup OnPackage : desk[b].step # "idle"
      BY DEF OnRates, OnPackage
    <3>2. \A b \in OnRates \cup OnPackage : b = a
      BY <1>2, <3>1
    <3> QED BY <1>4, <3>2
  <2>2. /\ \A c \in Admins \ {a} : desk'[c].step = "idle"
        /\ desk'[a].rows = rate'
        /\ desk'[a].step = "package read" => desk'[a].seen = sold'
    BY <1>3
  <2>3. \A r \in Existing : sold[r] = Wanted(onSale, rate[r])
    BY <1>1 DEF DeskReads
  <2>4. \A r \in Existing' : sold'[r] = Wanted(onSale, rate[r])'
    BY <1>2, <2>3 DEF Wanted
  <2> QED BY <2>1, <2>2, <2>4 DEF DeskReads
<1>9. DefaultsApart'
  BY <1>1, <1>2, <1>4, <1>5 DEF DefaultsApart
<1> QED BY <1>6, <1>7, <1>8, <1>9 DEF PackageInv

(* The package is written with the products of its rates.                  *)
LEMMA PackageCommitKeeps ==
  ASSUME PackageInv, NEW a \in Admins, PackageCommit(a)
  PROVE  PackageInv'
<1>1. DeskTypes /\ RowsLocked /\ DeskReads /\ DefaultsApart
  BY DEF PackageInv
<1>2. /\ desk' = [desk EXCEPT ![a] = DeskIdle] /\ desk[a].step = "package read"
      /\ onSale' = desk[a].sale /\ rate' = rate /\ met' = met
      /\ sold' = [r \in Rates |->
                    IF desk[a].rows[r] = NoRate THEN sold[r]
                    ELSE ProductWritten(sold[r], desk[a].seen[r],
                                        Wanted(desk[a].sale, desk[a].rows[r]))]
  BY DEF PackageCommit
<1>3. /\ Existing' = Existing /\ Defaults' = Defaults
      /\ a \in OnPackage /\ a \notin OnRates /\ OnRates \subseteq Admins /\ OnPackage \subseteq Admins
  BY <1>2 DEF Existing, Defaults, OnRates, OnPackage
<1>4. /\ desk[a].sale \in BOOLEAN /\ desk[a].rows \in [Rates -> RateForm \cup {NoRate}]
      /\ sold \in [Rates -> [active : BOOLEAN, price : Nat]]
      /\ rate \in [Rates -> RateForm \cup {NoRate}]
  BY <1>1, <1>3 DEF DeskTypes
<1>5. sold' \in [Rates -> [active : BOOLEAN, price : Nat]]
  <2>1. ASSUME NEW r \in Rates
        PROVE  sold'[r] \in [active : BOOLEAN, price : Nat]
    <3>1. CASE desk[a].rows[r] = NoRate
      BY <1>2, <1>4, <3>1
    <3>2. CASE desk[a].rows[r] # NoRate
      <4>1. Wanted(desk[a].sale, desk[a].rows[r]) \in [active : BOOLEAN, price : Nat]
        BY <1>4, <3>2, WantedTyped
      <4> QED BY <1>2, <1>4, <3>2, <4>1, ProductTyped
    <3> QED BY <3>1, <3>2
  <2> QED BY <1>2, <2>1
<1>6. /\ DeskTypes'
      /\ desk'[a].step = "idle" /\ \A b \in Admins \ {a} : desk'[b] = desk[b]
      /\ OnRates' = OnRates \ {a} /\ OnPackage' = OnPackage \ {a}
      /\ \A b \in Admins \ {a} : Held(b)' = Held(b)
  BY <1>1, <1>2, <1>4, <1>5, DeskLeft
<1>7. RowsLocked'
  BY <1>1, <1>3, <1>6, LocksLeft
<1>8. DeskReads'
  <2> SUFFICES ASSUME "package" \notin met
               PROVE  DeskReads'
    BY <1>2 DEF DeskReads
  <2>1. OnRates' = {} /\ OnPackage' = {}
    <3>1. \A b \in OnRates \cup OnPackage : desk[b].step # "idle"
      BY DEF OnRates, OnPackage
    <3>2. \A b \in Admins \ {a} : desk[b].step = "idle"
      BY <1>1, <1>3 DEF DeskReads
    <3> QED BY <1>3, <1>6, <3>1, <3>2
  <2>2. desk[a].rows = rate /\ desk[a].seen = sold
    BY <1>1, <1>2, <1>3 DEF DeskReads
  <2>3. ASSUME NEW r \in Existing
        PROVE  sold'[r] = Wanted(onSale, rate[r])'
    <3>1. r \in Rates /\ rate[r] \in RateForm
      BY <1>4 DEF Existing
    <3> DEFINE want == Wanted(desk[a].sale, rate[r])
    <3>2. want \in [active : BOOLEAN, price : Nat] /\ want.price # 0
      BY <1>4, <3>1, WantedTyped
    <3>3. sold'[r] = ProductWritten(sold[r], sold[r], want)
      BY <1>2, <2>2, <3>1 DEF Existing
    <3>4. Wanted(onSale, rate[r])' = want
      BY <1>2 DEF Wanted
    <3> HIDE DEF want
    <3>5. ProductWritten(sold[r], sold[r], want).active = want.active
          /\ ProductWritten(sold[r], sold[r], want).price = want.price
      BY <1>4, <3>1, <3>2, ProductAsWanted
    <3>6. ProductWritten(sold[r], sold[r], want) \in [active : BOOLEAN, price : Nat]
      BY <1>4, <3>1, <3>2, ProductTyped
    <3>7. ProductWritten(sold[r], sold[r], want) = want
      BY <3>2, <3>5, <3>6
    <3> QED BY <3>3, <3>4, <3>7
  <2> QED BY <1>3, <2>1, <2>3 DEF DeskReads
<1>9. DefaultsApart'
  BY <1>1, <1>2, <1>3, <1>6 DEF DefaultsApart
<1> QED BY <1>6, <1>7, <1>8, <1>9 DEF PackageInv

(* A rate is written with its product; other rates lose their default.     *)
LEMMA RateCommitKeeps ==
  ASSUME PackageInv, NEW a \in Admins, RateCommit(a)
  PROVE  PackageInv'
<1> DEFINE r == desk[a].r
           row == desk[a].row
           want == desk[a].want
<1>1. DeskTypes /\ RowsLocked /\ DeskReads /\ DefaultsApart
  BY DEF PackageInv
<1>2. /\ desk' = [desk EXCEPT ![a] = DeskIdle] /\ desk[a].step = "rate read"
      /\ onSale' = onSale /\ met' = met
      /\ sold' = [sold EXCEPT ![r] = ProductWritten(@, desk[a].seen, want)]
      /\ rate' = [n \in Rates |-> IF n = r THEN row
                                  ELSE IF n \in desk[a].unset THEN [rate[n] EXCEPT !.default = FALSE]
                                  ELSE rate[n]]
  BY DEF RateCommit
<1>3. /\ a \in OnRates /\ a \notin OnPackage /\ OnRates \subseteq Admins /\ OnPackage \subseteq Admins
  BY <1>2 DEF OnRates, OnPackage
<1>4. /\ r \in Rates /\ row \in RateForm /\ want \in [active : BOOLEAN, price : Nat]
      /\ desk[a].insert \in BOOLEAN /\ onSale \in BOOLEAN
      /\ sold \in [Rates -> [active : BOOLEAN, price : Nat]]
      /\ rate \in [Rates -> RateForm \cup {NoRate}]
  BY <1>1, <1>3 DEF DeskTypes
<1> HIDE DEF r, row, want
<1>5. /\ sold'[r] = ProductWritten(sold[r], desk[a].seen, want)
      /\ \A n \in Rates \ {r} : sold'[n] = sold[n]
      /\ sold' \in [Rates -> [active : BOOLEAN, price : Nat]]
  <2>1. ProductWritten(sold[r], desk[a].seen, want) \in [active : BOOLEAN, price : Nat]
    BY <1>4, ProductTyped
  <2> QED BY <1>2, <1>4, <2>1
<1>6. /\ rate'[r] = row
      /\ \A n \in Rates \ {r} : /\ rate'[n] \in RateForm \cup {NoRate}
                                /\ rate'[n].active = rate[n].active /\ rate'[n].price = rate[n].price
                                /\ rate'[n] = NoRate <=> rate[n] = NoRate
                                /\ rate'[n].default => rate[n].default /\ n \notin desk[a].unset
      /\ rate' \in [Rates -> RateForm \cup {NoRate}]
  <2>1. rate'[r] = row
    BY <1>2, <1>4
  <2>2. ASSUME NEW n \in Rates \ {r}
        PROVE  /\ rate'[n] \in RateForm \cup {NoRate}
               /\ rate'[n].active = rate[n].active /\ rate'[n].price = rate[n].price
               /\ rate'[n] = NoRate <=> rate[n] = NoRate
               /\ rate'[n].default => rate[n].default /\ n \notin desk[a].unset
    <3>1. CASE n \in desk[a].unset
      <4>1. rate'[n] = [rate[n] EXCEPT !.default = FALSE]
        BY <1>2, <3>1
      <4> QED BY <1>4, <4>1, UnsetKeeps
    <3>2. CASE n \notin desk[a].unset
      BY <1>2, <1>4, <3>2
    <3> QED BY <3>1, <3>2
  <2>3. rate' = [n \in Rates |-> rate'[n]]
    BY <1>2
  <2> QED BY <1>4, <2>1, <2>2, <2>3
<1>7. Existing' = Existing \cup {r}
  <2>1. row # NoRate
    BY <1>4, FormsExist
  <2> QED BY <1>4, <1>6, <2>1 DEF Existing
<1>8. /\ DeskTypes'
      /\ desk'[a].step = "idle" /\ \A b \in Admins \ {a} : desk'[b] = desk[b]
      /\ OnRates' = OnRates \ {a} /\ OnPackage' = OnPackage \ {a}
      /\ \A b \in Admins \ {a} : Held(b)' = Held(b)
  BY <1>1, <1>2, <1>4, <1>5, <1>6, DeskLeft
<1>9. ASSUME NEW b \in OnRates \ {a}
      PROVE  ~desk[b].insert \/ desk[b].step = "rate read" => desk[b].r # r
  <2>1. CASE ~desk[b].insert
    <3>1. desk[b].r \in Existing /\ desk[b].r \in Held(b)
      BY <1>1, <2>1 DEF RowsLocked, Held
    <3>2. CASE desk[a].insert
      BY <1>1, <1>2, <1>3, <3>1, <3>2 DEF RowsLocked, r
    <3>3. CASE ~desk[a].insert
      <4>1. r \in Held(a)
        BY <1>3, <3>3 DEF Held, r
      <4> QED BY <1>1, <1>3, <3>1, <4>1 DEF RowsLocked
    <3> QED BY <3>2, <3>3
  <2>2. CASE desk[b].insert /\ desk[b].step = "rate read"
    BY <1>1, <1>2, <1>3, <2>2 DEF RowsLocked, r
  <2> QED BY <2>1, <2>2
<1>10. RowsLocked'
  <2>1. \A b \in OnRates' : desk[b].insert /\ desk[b].step = "rate read" => desk[b].r # r
    BY <1>8, <1>9
  <2> QED BY <1>1, <1>7, <1>8, <2>1, LocksLeft
<1>11. DeskReads'
  <2> SUFFICES ASSUME "package" \notin met
               PROVE  DeskReads'
    BY <1>2 DEF DeskReads
  <2>1. OnPackage' = {}
    <3>1. ASSUME NEW b \in OnPackage PROVE FALSE
      BY <1>1, <1>2, <1>3, <3>1 DEF DeskReads
    <3> QED BY <1>8, <3>1
  <2>2. ASSUME NEW b \in OnRates'
        PROVE  /\ \/ desk'[b].want = Wanted(onSale, desk[b].row)'
                  \/ /\ desk'[b].want = NoProduct /\ ~desk'[b].insert /\ ~desk'[b].row.active
                     /\ desk'[b].row.price = rate'[desk'[b].r].price
               /\ desk'[b].step = "rate read" => desk'[b].seen = sold'[desk'[b].r]
    <3>1. /\ b \in OnRates \ {a} /\ desk'[b] = desk[b] /\ desk[b].r \in Rates
          /\ ~desk[b].insert \/ desk[b].step = "rate read" => desk[b].r # r
      BY <1>1, <1>3, <1>8, <1>9 DEF DeskTypes
    <3>2. /\ \/ desk[b].want = Wanted(onSale, desk[b].row)
             \/ /\ desk[b].want = NoProduct /\ ~desk[b].insert /\ ~desk[b].row.active
                /\ desk[b].row.price = rate[desk[b].r].price
          /\ desk[b].step = "rate read" => desk[b].seen = sold[desk[b].r]
      BY <1>1, <3>1 DEF DeskReads
    <3>3. Wanted(onSale, desk[b].row)' = Wanted(onSale, desk[b].row)
      BY <1>2, <3>1 DEF Wanted
    <3> QED BY <1>5, <1>6, <3>1, <3>2, <3>3
  <2>3. ASSUME NEW n \in Existing'
        PROVE  sold'[n] = Wanted(onSale, rate[n])'
    <3>1. CASE n # r
      <4>1. n \in Existing /\ n \in Rates \ {r}
        BY <1>7, <2>3, <3>1 DEF Existing
      <4>2. sold[n] = Wanted(onSale, rate[n])
        BY <1>1, <4>1 DEF DeskReads
      <4>3. Wanted(onSale, rate[n])' = Wanted(onSale, rate[n])
        BY <1>2, <1>6, <4>1 DEF Wanted
      <4> QED BY <1>5, <4>1, <4>2, <4>3
    <3>2. CASE n = r
      <4>1. desk[a].seen = sold[r]
        BY <1>1, <1>2, <1>3 DEF DeskReads, r
      <4>2. Wanted(onSale, rate[n])' = Wanted(onSale, row)
        BY <1>2, <1>6, <3>2 DEF Wanted
      <4>3. /\ Wanted(onSale, row) \in [active : BOOLEAN, price : Nat]
            /\ Wanted(onSale, row).active = (onSale /\ row.active)
            /\ Wanted(onSale, row).price = row.price /\ row.price # 0
        BY <1>4, WantedTyped
      <4>4. /\ sold'[r].active = want.active
            /\ sold'[r].price = IF want.price = 0 THEN sold[r].price ELSE want.price
        BY <1>4, <1>5, <4>1, ProductAsWanted
      <4>5. sold'[r].active = (onSale /\ row.active) /\ sold'[r].price = row.price
        <5>1. CASE want = Wanted(onSale, row)
          BY <4>3, <4>4, <5>1
        <5>2. CASE /\ want = NoProduct /\ ~desk[a].insert /\ ~row.active
                   /\ row.price = rate[r].price
          <6>1. r \in Existing
            BY <1>1, <1>3, <5>2 DEF RowsLocked, r
          <6>2. sold[r] = Wanted(onSale, rate[r])
            BY <1>1, <6>1 DEF DeskReads
          <6>3. sold[r].price = rate[r].price
            BY <6>2 DEF Wanted
          <6> QED BY <4>4, <5>2, <6>3 DEF NoProduct
        <5> QED BY <1>1, <1>3, <5>1, <5>2 DEF DeskReads, r, row, want
      <4>6. sold'[r] \in [active : BOOLEAN, price : Nat]
        BY <1>4, <1>5
      <4> QED BY <3>2, <4>2, <4>3, <4>5, <4>6
    <3> QED BY <3>1, <3>2
  <2> QED BY <2>1, <2>2, <2>3 DEF DeskReads
<1>12. DefaultsApart'
  <2> SUFFICES ASSUME "rate" \notin met
               PROVE  DefaultsApart'
    BY <1>2 DEF DefaultsApart
  <2>1. OnRates' = {}
    BY <1>1, <1>3, <1>8 DEF DefaultsApart
  <2>2. ASSUME NEW n \in Defaults', NEW m \in Defaults'
        PROVE  n = m
    <3>1. /\ n \in Rates /\ m \in Rates /\ rate'[n].default /\ rate'[m].default
      BY <2>2 DEF Defaults
    <3>2. CASE row.default
      <4>1. Defaults \ {r} \subseteq desk[a].unset
        BY <1>1, <1>3, <3>2 DEF DefaultsApart, r, row
      <4> QED BY <1>6, <3>1, <4>1 DEF Defaults
    <3>3. CASE ~row.default
      <4>1. n \in Defaults /\ m \in Defaults
        BY <1>6, <3>1, <3>3 DEF Defaults
      <4> QED BY <1>1, <4>1 DEF DefaultsApart
    <3> QED BY <3>2, <3>3
  <2> QED BY <2>1, <2>2 DEF DefaultsApart
<1> QED BY <1>8, <1>10, <1>11, <1>12 DEF PackageInv

(* The event opens without rates.                                          *)
LEMMA PackageInitInv == PackageInit => PackageInv
<1> SUFFICES ASSUME PackageInit PROVE PackageInv
  OBVIOUS
<1>1. \A a \in Admins : desk[a].step = "idle"
  BY DEF PackageInit, DeskIdle
<1>2. OnRates = {} /\ OnPackage = {}
  BY <1>1 DEF OnRates, OnPackage
<1>3. Existing = {} /\ Defaults = {}
  BY FormsExist DEF PackageInit, Existing, Defaults
<1>4. NoProduct \in [active : BOOLEAN, price : Nat]
  BY DEF NoProduct
<1>5. DeskTypes
  BY <1>1, <1>2, <1>4 DEF PackageInit, DeskTypes
<1>6. RowsLocked /\ DeskReads /\ DefaultsApart
  BY <1>2, <1>3 DEF RowsLocked, DeskReads, DefaultsApart
<1> QED BY <1>5, <1>6 DEF PackageInv

(* Every step of the administrators keeps it.                              *)
LEMMA PackageNextInv == PackageInv /\ [PackageNext]_packageVars => PackageInv'
<1> SUFFICES ASSUME PackageInv, [PackageNext]_packageVars PROVE PackageInv'
  OBVIOUS
<1>1. DeskTypes
  BY DEF PackageInv
<1>2. ASSUME NEW a \in Admins, NEW r \in Rates, NEW row \in RateForms, CreateRate(a, r, row)
      PROVE  PackageInv'
  <2> DEFINE new == IF Existing = {} /\ row.active THEN [row EXCEPT !.default = TRUE] ELSE row
             s == [step |-> "rate", r |-> r, insert |-> TRUE, row |-> new,
                   want |-> Wanted(onSale, new), unset |-> Unset(r, new)]
  <2>1. new \in RateForm
    BY RateFormsAreValid DEF RateForm
  <2>2. DeskStart(a, s)
    BY <1>2 DEF CreateRate
  <2> HIDE DEF new
  <2>3. onSale \in BOOLEAN
    BY <1>1 DEF DeskTypes
  <2>4. Wanted(onSale, new) \in [active : BOOLEAN, price : Nat]
    BY <2>1, <2>3, WantedTyped
  <2>5. new.default => Defaults \ {r} \subseteq Unset(r, new)
    BY DEF Unset
  <2>6. /\ s.step = "rate" /\ s.r = r /\ s.insert = TRUE /\ s.row = new
        /\ s.want = Wanted(onSale, new) /\ s.unset = Unset(r, new)
    OBVIOUS
  <2> HIDE DEF s
  <2> QED BY <2>1, <2>2, <2>4, <2>5, <2>6, RateStarts
<1>3. ASSUME NEW a \in Admins, NEW r \in Rates, NEW row \in RateForms, UpdateRate(a, r, row)
      PROVE  PackageInv'
  <2> DEFINE s == [step |-> "rate", r |-> r, insert |-> FALSE, row |-> row,
                   want |-> Wanted(onSale, row), unset |-> Unset(r, row)]
  <2>1. row \in RateForm
    BY RateFormsAreValid
  <2>2. DeskStart(a, s) /\ r \in Existing \ HeldByOthers(a)
    BY <1>3 DEF UpdateRate
  <2>3. onSale \in BOOLEAN
    BY <1>1 DEF DeskTypes
  <2>4. Wanted(onSale, row) \in [active : BOOLEAN, price : Nat]
    BY <2>1, <2>3, WantedTyped
  <2>5. row.default => Defaults \ {r} \subseteq Unset(r, row)
    BY DEF Unset
  <2>6. /\ s.step = "rate" /\ s.r = r /\ s.insert = FALSE /\ s.row = row
        /\ s.want = Wanted(onSale, row) /\ s.unset = Unset(r, row)
    OBVIOUS
  <2> HIDE DEF s
  <2> QED BY <2>1, <2>2, <2>4, <2>5, <2>6, RateStarts
<1>4. ASSUME NEW a \in Admins, NEW r \in Rates, DisableRate(a, r)
      PROVE  PackageInv'
  <2> DEFINE row == [rate[r] EXCEPT !.active = FALSE]
             s == [step |-> "rate", r |-> r, insert |-> FALSE, row |-> row,
                   want |-> NoProduct, unset |-> {}]
  <2>1. DeskStart(a, s) /\ r \in Existing \ HeldByOthers(a) /\ ~rate[r].default
    BY <1>4 DEF DisableRate
  <2>2. rate[r] \in RateForm
    BY <1>1, <2>1 DEF DeskTypes, Existing
  <2>3. row \in RateForm /\ ~row.active /\ ~row.default /\ row.price = rate[r].price
    BY <2>1, <2>2 DEF RateForm
  <2>4. NoProduct \in [active : BOOLEAN, price : Nat]
    BY DEF NoProduct
  <2> HIDE DEF row
  <2>5. /\ s.step = "rate" /\ s.r = r /\ s.insert = FALSE /\ s.row = row /\ s.want = NoProduct
    OBVIOUS
  <2> HIDE DEF s
  <2> QED BY <2>1, <2>3, <2>4, <2>5, RateStarts
<1>5. ASSUME NEW a \in Admins, NEW sale \in BOOLEAN, UpdatePackage(a, sale)
      PROVE  PackageInv'
  <2> DEFINE s == [step |-> "package", sale |-> sale, rows |-> rate]
  <2>1. /\ desk' = [desk EXCEPT ![a] = s] /\ desk[a] = DeskIdle
        /\ onSale' = onSale /\ rate' = rate /\ sold' = sold
        /\ "rate" \notin met' => "rate" \notin met
        /\ "package" \notin met' => "package" \notin met /\ OnRates = {} /\ OnPackage = {}
    BY <1>5 DEF UpdatePackage, DeskStart
  <2>2. rate \in [Rates -> RateForm \cup {NoRate}]
    BY <1>1 DEF DeskTypes
  <2>3. s.step = "package" /\ s.sale = sale /\ s.rows = rate
    OBVIOUS
  <2> HIDE DEF s
  <2>4. desk[a].step = "idle"
    BY <2>1 DEF DeskIdle
  <2>5. a \notin OnRates
    BY <2>4 DEF OnRates
  <2>6. OnRates = {} /\ OnPackage = {} => \A b \in Admins : desk[b].step = "idle"
    BY <1>1 DEF DeskTypes, OnRates, OnPackage
  <2> QED BY <2>1, <2>2, <2>3, <2>5, <2>6, PackageLooks
<1>6. ASSUME NEW a \in Admins, PackageRead(a)
      PROVE  PackageInv'
  <2> DEFINE s == [step |-> "package read", sale |-> desk[a].sale, rows |-> desk[a].rows, seen |-> sold]
  <2>1. /\ desk' = [desk EXCEPT ![a] = s] /\ desk[a].step = "package"
        /\ onSale' = onSale /\ rate' = rate /\ sold' = sold /\ met' = met
    BY <1>6 DEF PackageRead
  <2>2. a \in OnPackage /\ a \notin OnRates
    BY <2>1 DEF OnPackage, OnRates
  <2>3. desk[a].sale \in BOOLEAN /\ desk[a].rows \in [Rates -> RateForm \cup {NoRate}]
    BY <1>1, <2>2 DEF DeskTypes
  <2>4. s.step = "package read" /\ s.sale = desk[a].sale /\ s.rows = desk[a].rows /\ s.seen = sold
    OBVIOUS
  <2> HIDE DEF s
  <2>5. "package" \notin met => desk[a].rows = rate /\ \A b \in Admins \ {a} : desk[b].step = "idle"
    BY <2>2 DEF PackageInv, DeskReads
  <2> QED BY <2>1, <2>2, <2>3, <2>4, <2>5, PackageLooks
<1>7. CASE UNCHANGED packageVars
  <2>1. /\ onSale' = onSale /\ rate' = rate /\ sold' = sold /\ desk' = desk /\ met' = met
    BY <1>7 DEF packageVars
  <2>2. /\ OnRates' = OnRates /\ OnPackage' = OnPackage /\ Existing' = Existing /\ Defaults' = Defaults
        /\ \A a : Held(a)' = Held(a)
    BY <2>1 DEF OnRates, OnPackage, Existing, Defaults, Held
  <2>3. DeskTypes' /\ RowsLocked' /\ DefaultsApart'
    BY <2>1, <2>2 DEF PackageInv, DeskTypes, RowsLocked, DefaultsApart
  <2>4. DeskReads'
    BY <2>1, <2>2 DEF PackageInv, DeskReads, Wanted
  <2> QED BY <2>3, <2>4 DEF PackageInv
<1> QED BY <1>2, <1>3, <1>4, <1>5, <1>6, <1>7, RateFlushKeeps, RateCommitKeeps, PackageCommitKeeps,
           LeaveDeskKeeps DEF PackageNext

(* Locks on rates, and what requests that do not meet have read.           *)
THEOREM PackageInvariant == PackageSpec => []PackageInv
<1> QED BY PackageInitInv, PackageNextInv, PTL DEF PackageSpec

(* The store sells what the catalogue offers, and one rate is the default, *)
(* unless the package was edited with a rate, or two rates at once.        *)
THEOREM CatalogueSells == PackageSpec => []CatalogueNeedsOverlap
<1>1. PackageInv => CatalogueNeedsOverlap
  <2> SUFFICES ASSUME PackageInv PROVE CatalogueNeedsOverlap
    OBVIOUS
  <2>1. DeskTypes /\ DeskReads /\ DefaultsApart
    BY DEF PackageInv
  <2>2. ASSUME "package" \notin met, NEW r \in Existing
        PROVE  sold[r] = [active |-> r \in Catalogue, price |-> rate[r].price]
    <3>1. sold[r] = Wanted(onSale, rate[r])
      BY <2>1, <2>2 DEF DeskReads
    <3>2. onSale \in BOOLEAN /\ rate[r].active \in BOOLEAN
      BY <2>1, FormsExist DEF DeskTypes, Existing
    <3>3. (onSale /\ rate[r].active) = (r \in Catalogue)
      BY <3>2 DEF Catalogue
    <3> QED BY <3>1, <3>3 DEF Wanted
  <2>3. "rate" \notin met => Cardinality(Defaults) <= 1
    BY <2>1, AtMostOne DEF DefaultsApart
  <2>4. \A r \in Defaults : rate[r].active
    <3>1. \A r \in Defaults : rate[r] \in RateForm \cup {NoRate} /\ rate[r].default
      BY <2>1 DEF DeskTypes, Defaults
    <3> QED BY <3>1, FormsExist
  <2> QED BY <2>2, <2>3, <2>4 DEF CatalogueNeedsOverlap
<1> QED BY PackageInvariant, <1>1, PTL
=============================================================================
