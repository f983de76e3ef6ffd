----------------------------- MODULE SnapProofs -----------------------------
(***************************************************************************)
(* The DOKU SNAP rails for any number of orders, rows and bills.           *)
(***************************************************************************)
EXTENDS SnapRails, LedgerProofs

(* What a bill knows of its row is so.                                     *)
BillRows ==
  \A b \in Bills :
    /\ bill[b].st = "none" => bill[b] = NoBill
    /\ bill[b].st # "none" =>
         /\ bill[b].of \in Orders /\ ord[bill[b].of].st # "absent"
         /\ bill[b].door = "method" => bill[b].row # 0
    /\ bill[b].row # 0 => /\ pay[bill[b].row].st # "absent"
                          /\ pay[bill[b].row].of = bill[b].of

(* A bill waits for one answer, and is late once it has come.              *)
CallsOnce ==
  /\ \A c, d \in call : c[1] = d[1] => c = d
  /\ \A c \in call : bill[c[1]].st # "none" /\ ~bill[c[1]].late

NamedRows == \A p \in Payments : named[p] # 0 => bill[named[p]].row = p

(* Nothing asks for more than the total of its order.                      *)
WithinTotal ==
  /\ \A p \in Payments : pay[p].st # "absent" => pay[p].gross <= Total[pay[p].of]
  /\ \A b \in Bills : bill[b].st # "none" /\ bill[b].row = 0 =>
       bill[b].amount <= Total[bill[b].of]

(* A settled row has a bill of its own, for as much or more.               *)
SettledTold ==
  \A p \in Payments : pay[p].st = "success" =>
    \E b \in Bills : /\ bill[b].row = p /\ bill[b].st = "told"
                     /\ pay[p].gross <= bill[b].amount

SnapInv ==
  /\ TypeOKSnap
  /\ RowsLinked
  /\ BillRows
  /\ CallsOnce
  /\ NamedRows
  /\ WithinTotal
  /\ SettledTold
  /\ OneInvoice

-----------------------------------------------------------------------------
(* No step lets a row go, or changes what it asks for.                     *)
RowsStay ==
  \A p \in Payments : pay[p].st # "absent" =>
    /\ pay'[p].st # "absent"
    /\ pay'[p].of = pay[p].of /\ pay'[p].gross = pay[p].gross

(* A step that writes well-formed rows keeps the ledger's part.            *)
LEMMA RowsKeep ==
  ASSUME SnapInv, pay' \in Tables, ord' \in [Orders -> OrderRow],
         reg' \in [Regs -> RegStatuses],
         sel' \in [Regs -> [Packages -> Orders \cup {0}]],
         UNCHANGED <<calls, found, leaving, mtSeen>>,
         \A x \in Orders : ord[x].st # "absent" => ord'[x].st # "absent",
         RowsStay,
         \A p \in Payments : pay'[p] = pay[p] \/
           /\ pay'[p].st # "absent" /\ pay'[p].rail # "none"
           /\ pay'[p].of \in Orders /\ ord'[pay'[p].of].st # "absent"
           /\ pay'[p].rail = "manual" => pay'[p].seq = 0
  PROVE  TypeOK' /\ RowsLinked'
<1>1. TypeOK /\ RowsLinked
  BY DEF SnapInv, TypeOKSnap
<1>2. TypeOK'
  BY <1>1 DEF TypeOK, Tables
<1>3. Linked(ord, pay)'
  BY <1>1 DEF RowsLinked, Linked
<1>4. \A p \in (calls \cup found)' : pay'[p].st # "absent"
  BY <1>1 DEF RowsLinked, RowsStay, TypeOK
<1> QED BY <1>2, <1>3, <1>4 DEF RowsLinked

(* Two undecided rows chosen by the checkout are what they were before the *)
(* step, unless an answer has come late.                                   *)
LEMMA InvoiceKeeps ==
  ASSUME SnapInv,
         \A b \in Bills : bill[b].late => bill'[b].late /\ bill'[b].row = bill[b].row,
         \A o \in Orders : \A p \in Undecided(o)' : Chosen(p)' =>
           \/ p \in Undecided(o) /\ Chosen(p)
           \/ \E b \in Bills : bill'[b].row = p /\ bill'[b].late
  PROVE  OneInvoice'
<1> SUFFICES ASSUME NEW o \in Orders, NEW p \in Undecided(o)', NEW q \in Undecided(o)',
                    p # q, Chosen(p)', Chosen(q)'
             PROVE  \E b \in Bills : bill'[b].row \in {p, q} /\ bill'[b].late
  BY DEF OneInvoice
<1>1. CASE \E b \in Bills : bill'[b].row \in {p, q} /\ bill'[b].late
  BY <1>1
<1>2. CASE p \in Undecided(o) /\ Chosen(p) /\ q \in Undecided(o) /\ Chosen(q)
  <2>1. PICK b \in Bills : bill[b].row \in {p, q} /\ bill[b].late
    BY <1>2 DEF SnapInv, OneInvoice
  <2> QED BY <2>1
<1> QED BY <1>1, <1>2

-----------------------------------------------------------------------------
(* Asking DOKU for a bill                                                  *)

(* A request adds a bill, and a row that asks for the total at most.       *)
LEMMA AskKeeps ==
  ASSUME SnapInv, NEW b \in Bills, NEW o \in Orders, NEW row \in Payments \cup {0},
         NEW product \in Products, NEW amount \in Nat, NEW seq \in Nat, NEW door \in Doors,
         Ask(b, o, row, product, amount, seq, door),
         UNCHANGED <<ord, bound, shown>>, ord[o].st # "absent",
         TypeOK', RowsLinked', RowsStay,
         \A p \in Payments : pay'[p] = pay[p] \/
           /\ pay[p].st = "absent" /\ pay'[p].st = "created"
           /\ pay'[p].gross <= Total[pay'[p].of],
         row # 0 => pay'[row].st # "absent" /\ pay'[row].of = o,
         row = 0 => door = "legacy" /\ amount <= Total[o],
         named' \in [Payments -> Bills \cup {0}],
         \A p \in Payments : named'[p] \in {0, named[p]} \/ (named'[p] = b /\ row = p)
  PROVE  /\ TypeOKSnap' /\ BillRows' /\ CallsOnce' /\ NamedRows' /\ WithinTotal' /\ SettledTold'
         /\ bill[b] = NoBill
         /\ bill'[b] = BillAsked(o, row, product, amount, seq, door)
         /\ \A c \in Bills \ {b} : bill'[c] = bill[c]
<1> DEFINE new == BillAsked(o, row, product, amount, seq, door)
<1>1. TypeOKSnap /\ BillRows /\ CallsOnce /\ NamedRows /\ WithinTotal /\ SettledTold
  BY DEF SnapInv
<1>2. bill[b] = NoBill /\ bill[b].st = "none" /\ bill[b].row = 0
  BY <1>1 DEF Ask, NextBill, BillRows, NoBill
<1>3. /\ new \in BillRow
      /\ new.st = "asked" /\ new.of = o /\ new.row = row /\ new.amount = amount
      /\ new.door = door /\ new.late = FALSE
  BY DEF BillAsked, BillRow, BillStatuses
<1>4. bill' = [bill EXCEPT ![b] = new] /\ call' = call \cup {<<b, ord[o].st>>}
  BY DEF Ask
<1>5. bill \in [Bills -> BillRow] /\ ord[o].st \in OrderStatuses /\ 0 \notin Payments
  BY <1>1, RowIds DEF TypeOKSnap, TypeOK, OrderRow
<1>6. bill'[b] = new /\ \A c \in Bills \ {b} : bill'[c] = bill[c]
  BY <1>4, <1>5
<1> HIDE DEF new
<1>7. TypeOKSnap'
  <2>1. bill' \in [Bills -> BillRow]
    BY <1>3, <1>4, <1>5
  <2>2. call' \subseteq Bills \X OrderStatuses
    BY <1>1, <1>4, <1>5 DEF TypeOKSnap
  <2>3. \A c \in shown' : bill'[c].st \notin {"none", "asked"}
    BY <1>1, <1>2, <1>6 DEF TypeOKSnap
  <2> QED BY <1>1, <2>1, <2>2, <2>3 DEF TypeOKSnap
<1>8. BillRows'
  <2> SUFFICES ASSUME NEW c \in Bills
               PROVE  /\ bill'[c].st = "none" => bill'[c] = NoBill
                      /\ bill'[c].st # "none" =>
                           /\ bill'[c].of \in Orders /\ ord[bill'[c].of].st # "absent"
                           /\ bill'[c].door = "method" => bill'[c].row # 0
                      /\ bill'[c].row # 0 => /\ pay'[bill'[c].row].st # "absent"
                                             /\ pay'[bill'[c].row].of = bill'[c].of
    BY DEF BillRows
  <2>1. CASE c = b
    BY <2>1, <1>3, <1>6 DEF Doors
  <2>2. CASE c # b
    <3>1. bill'[c] = bill[c] /\ bill[c].row \in Payments \cup {0}
      BY <2>2, <1>5, <1>6 DEF BillRow
    <3> QED BY <3>1, <1>1 DEF BillRows, RowsStay
  <2> QED BY <2>1, <2>2
<1>9. CallsOnce'
  <2>1. \A c \in call : c[1] \in Bills \ {b} /\ bill[c[1]].st # "none" /\ ~bill[c[1]].late
    BY <1>1, <1>2 DEF CallsOnce, TypeOKSnap
  <2>2. \A c \in call' : c \in call \/ c = <<b, ord[o].st>>
    BY <1>4
  <2>3. \A c \in call' : c \in call \/ c[1] = b
    BY <2>2
  <2>4. \A c, d \in call' : c[1] = d[1] => c = d
    BY <1>1, <2>1, <2>2, <2>3 DEF CallsOnce
  <2>5. \A c \in call' : bill'[c[1]].st # "none" /\ ~bill'[c[1]].late
    BY <2>1, <2>3, <1>3, <1>6
  <2> QED BY <2>4, <2>5 DEF CallsOnce
<1>10. NamedRows'
  <2> SUFFICES ASSUME NEW p \in Payments, named'[p] # 0 PROVE bill'[named'[p]].row = p
    BY DEF NamedRows
  <2>1. CASE named'[p] = b /\ row = p
    BY <2>1, <1>3, <1>6
  <2>2. CASE named'[p] = named[p]
    <3>1. named[p] \in Bills /\ bill[named[p]].row = p
      BY <2>2, <1>1 DEF NamedRows, TypeOKSnap
    <3>2. named[p] # b
      BY <3>1, <1>2, <1>5
    <3> QED BY <2>2, <3>1, <3>2, <1>6
  <2> QED BY <2>1, <2>2
<1>11. WithinTotal'
  <2>1. \A p \in Payments : pay'[p].st # "absent" => pay'[p].gross <= Total[pay'[p].of]
    BY <1>1 DEF WithinTotal
  <2>2. ASSUME NEW c \in Bills, bill'[c].st # "none", bill'[c].row = 0
        PROVE  bill'[c].amount <= Total[bill'[c].of]
    <3>1. CASE c = b
      BY <3>1, <2>2, <1>3, <1>6
    <3>2. CASE c # b
      BY <3>2, <2>2, <1>1, <1>6 DEF WithinTotal
    <3> QED BY <3>1, <3>2
  <2> QED BY <2>1, <2>2 DEF WithinTotal
<1>12. SettledTold'
  <2> SUFFICES ASSUME NEW p \in Payments, pay'[p].st = "success"
               PROVE  \E c \in Bills : /\ bill'[c].row = p /\ bill'[c].st = "told"
                                       /\ pay'[p].gross <= bill'[c].amount
    BY DEF SettledTold
  <2>1. pay'[p] = pay[p]
    OBVIOUS
  <2>2. PICK c \in Bills : bill[c].row = p /\ bill[c].st = "told" /\ pay[p].gross <= bill[c].amount
    BY <2>1, <1>1 DEF SettledTold
  <2>3. c # b
    BY <2>2, <1>2
  <2> QED BY <2>1, <2>2, <2>3, <1>6
<1> QED BY <1>2, <1>6, <1>7, <1>8, <1>9, <1>10, <1>11, <1>12 DEF new

(* A segment is charged within the total.                                  *)
LEMMA SegmentWithin ==
  ASSUME NEW o \in Orders, NEW i \in 1 .. SegmentCount(o)
  PROVE  i \in Nat /\ SegmentAmount(o, i) \in Nat /\ SegmentAmount(o, i) <= Total[o]
<1>1. Total[o] \in Nat /\ SegmentLimit \in Nat \ {0}
  BY OrderConstants
<1>2. CASE Total[o] > 0
  <2>1. /\ Start(i) \in Nat /\ SegmentAmount(o, i) \in 1 .. SegmentLimit
        /\ Start(i) + SegmentAmount(o, i) <= Total[o]
    BY <1>2, Segments
  <2>2. SegmentCount(o) \in Nat
    BY <1>2, SegmentNumbers
  <2> QED BY <1>1, <2>1, <2>2
<1>3. CASE Total[o] = 0
  <2>1. SegmentCount(o) = 1
    BY <1>1, <1>3 DEF SegmentCount
  <2>2. i = 1
    BY <2>1
  <2>3. SegmentAmount(o, i) = Min2(SegmentLimit, 0 - 0 * SegmentLimit)
    BY <1>3, <2>2 DEF SegmentAmount
  <2>4. 0 * SegmentLimit = 0
    BY <1>1
  <2> QED BY <1>1, <1>3, <2>2, <2>3, <2>4 DEF Min2
<1> QED BY <1>1, <1>2, <1>3

(* create_payment of doku_order: one row, chosen while no other is open.   *)
LEMMA ChooseMethodKeeps ==
  ASSUME SnapInv, NEW b \in Bills, NEW o \in Orders, NEW p \in Payments,
         NEW product \in Products, ChooseMethod(b, o, p, product)
  PROVE  SnapInv'
<1>1. PICK i \in 1 .. SegmentCount(o) :
        LET amount == IF product = "qris" THEN SegmentAmount(o, i) ELSE Remaining(pay, o)
        IN  /\ Ask(b, o, p, product, amount, i, "method")
            /\ pay' = [pay EXCEPT ![p] = NewPay(o, RailOf(product), "created", amount, i)]
  BY DEF ChooseMethod
<1> DEFINE amount == IF product = "qris" THEN SegmentAmount(o, i) ELSE Remaining(pay, o)
           row == NewPay(o, RailOf(product), "created", amount, i)
<1>2. /\ product \in {"va", "qris", "card"} /\ Undecided(o) = {} /\ pay[p].st = "absent"
      /\ ord[o].st # "absent"
      /\ named' = [named EXCEPT ![p] = IF product = "va" THEN 0 ELSE b]
      /\ UNCHANGED <<ord, reg, sel, calls, found, leaving, mtSeen, bound, shown>>
  BY DEF ChooseMethod, Unused
<1>3. /\ TypeOKSnap /\ TypeOK /\ RowsLinked /\ BillRows /\ pay \in Tables
      /\ pay \in [Payments -> PayRow] /\ named \in [Payments -> Bills \cup {0}]
  BY DEF SnapInv, TypeOKSnap, TypeOK, Tables
<1>4. amount \in Nat /\ amount <= Total[o] /\ i \in Nat
  BY <1>3, SegmentWithin, PaidBounds
<1>5. Ask(b, o, p, product, amount, i, "method") /\ pay' = [pay EXCEPT ![p] = row]
  BY <1>1
<1> HIDE DEF amount
<1>6. RailOf(product) \in Rails \ {"none", "manual"} /\ "created" \in PayStatuses
  BY <1>2 DEF RailOf, Rails, PayStatuses
<1>7. /\ row \in PayRow /\ row.of = o /\ row.st = "created" /\ row.rail = RailOf(product)
      /\ row.gross = amount /\ ~row.del
  BY <1>4, <1>6 DEF NewPay, PayRow
<1> HIDE DEF row
<1>8. pay'[p] = row /\ \A q \in Payments \ {p} : pay'[q] = pay[q]
  BY <1>3, <1>5
<1>9. pay' \in Tables
  BY <1>3, <1>5, <1>7 DEF Tables
<1>10. RowsStay
  BY <1>2, <1>8 DEF RowsStay
<1>11. TypeOK' /\ RowsLinked'
  <2>1. \A q \in Payments : pay'[q] = pay[q] \/
          /\ pay'[q].st # "absent" /\ pay'[q].rail # "none"
          /\ pay'[q].of \in Orders /\ ord'[pay'[q].of].st # "absent"
          /\ pay'[q].rail = "manual" => pay'[q].seq = 0
    BY <1>2, <1>6, <1>7, <1>8
  <2> QED BY <1>2, <1>3, <1>9, <1>10, <2>1, RowsKeep DEF TypeOK
<1>12. /\ TypeOKSnap' /\ BillRows' /\ CallsOnce' /\ NamedRows' /\ WithinTotal' /\ SettledTold'
       /\ bill[b] = NoBill /\ bill'[b] = BillAsked(o, p, product, amount, i, "method")
       /\ \A c \in Bills \ {b} : bill'[c] = bill[c]
  <2>1. \A q \in Payments : pay'[q] = pay[q] \/
          /\ pay[q].st = "absent" /\ pay'[q].st = "created"
          /\ pay'[q].gross <= Total[pay'[q].of]
    BY <1>2, <1>4, <1>7, <1>8
  <2>2. pay'[p].st # "absent" /\ pay'[p].of = o /\ p # 0
    BY <1>7, <1>8, RowIds
  <2>3. /\ named' \in [Payments -> Bills \cup {0}]
        /\ \A q \in Payments : named'[q] \in {0, named[q]} \/ (named'[q] = b /\ p = q)
    BY <1>2, <1>3
  <2>4. "method" \in Doors
    BY DEF Doors
  <2> QED BY <1>2, <1>4, <1>5, <1>10, <1>11, <2>1, <2>2, <2>3, <2>4, AskKeeps
<1>13. OneInvoice'
  <2> SUFFICES ASSUME NEW x \in Orders, NEW q \in Undecided(x)', NEW r \in Undecided(x)',
                      q # r, Chosen(q)', Chosen(r)'
               PROVE  \E c \in Bills : bill'[c].row \in {q, r} /\ bill'[c].late
    BY DEF OneInvoice
  <2>1. x # o
    <3>1. \A s \in Undecided(o)' : s = p
      BY <1>2, <1>8 DEF Undecided, Live
    <3> QED BY <3>1
  <2>2. q # p /\ r # p
    BY <2>1, <1>7, <1>8 DEF Undecided, Live
  <2>3. q \in Undecided(x) /\ r \in Undecided(x)
    BY <2>2, <1>8 DEF Undecided, Live
  <2>4. bill[b].row = 0 /\ bill'[b].row = p /\ 0 \notin Payments /\ q \in Payments /\ r \in Payments
    BY <1>12, <2>3, RowIds DEF NoBill, BillAsked, Undecided, Live
  <2>5. Chosen(q) /\ Chosen(r)
    BY <2>2, <2>4, <1>12 DEF Chosen
  <2>6. PICK c \in Bills : bill[c].row \in {q, r} /\ bill[c].late
    BY <2>3, <2>5 DEF SnapInv, OneInvoice
  <2>7. c # b
    BY <2>4, <2>6
  <2> QED BY <2>6, <2>7, <1>12
<1> QED BY <1>11, <1>12, <1>13 DEF SnapInv

(* The endpoints by registration choose no row themselves.                 *)
LEMMA LegacyChoosesNone ==
  ASSUME SnapInv, NEW b \in Bills, bill[b] = NoBill,
         NEW row \in Payments \cup {0}, bill'[b].row = row, bill'[b].door = "legacy",
         \A c \in Bills \ {b} : bill'[c] = bill[c],
         \A q \in Payments : pay'[q] = pay[q] \/ row = q
  PROVE  OneInvoice'
<1>1. ASSUME NEW o \in Orders, NEW q \in Undecided(o)', Chosen(q)'
      PROVE  q \in Undecided(o) /\ Chosen(q)
  <2>1. q \in Payments /\ q # 0 /\ q # row
    BY <1>1, RowIds DEF Undecided, Live, Chosen
  <2>2. q \in Undecided(o)
    BY <2>1 DEF Undecided, Live
  <2>3. bill[b].row = 0
    BY DEF NoBill
  <2>4. Chosen(q)
    BY <1>1, <2>1, <2>3 DEF Chosen
  <2> QED BY <2>2, <2>4
<1>2. \A c \in Bills : bill[c].late => bill'[c].late /\ bill'[c].row = bill[c].row
  BY DEF NoBill
<1> QED BY <1>1, <1>2, InvoiceKeeps

(* An endpoint by registration asks for a row of the order, or for none    *)
(* yet, and chooses none.                                                  *)
LEMMA LegacyAskKeeps ==
  ASSUME SnapInv, NEW b \in Bills, NEW o \in Orders, NEW row \in Payments \cup {0},
         NEW product \in Products, NEW amount \in Nat, NEW seq \in Nat,
         Ask(b, o, row, product, amount, seq, "legacy"),
         UNCHANGED <<ord, bound, shown, named>>, ord[o].st # "absent",
         TypeOK', RowsLinked', RowsStay,
         \A p \in Payments : pay'[p] = pay[p] \/
           /\ row = p /\ pay[p].st = "absent" /\ pay'[p].st = "created"
           /\ pay'[p].gross <= Total[pay'[p].of],
         row # 0 => pay'[row].st # "absent" /\ pay'[row].of = o,
         row = 0 => amount <= Total[o]
  PROVE  SnapInv'
<1>1. "legacy" \in Doors
  BY DEF Doors
<1>2. named' \in [Payments -> Bills \cup {0}]
  BY DEF SnapInv, TypeOKSnap
<1>3. /\ TypeOKSnap' /\ BillRows' /\ CallsOnce' /\ NamedRows' /\ WithinTotal' /\ SettledTold'
      /\ bill[b] = NoBill /\ bill'[b] = BillAsked(o, row, product, amount, seq, "legacy")
      /\ \A c \in Bills \ {b} : bill'[c] = bill[c]
  BY <1>1, <1>2, AskKeeps
<1>4. bill'[b].row = row /\ bill'[b].door = "legacy"
  BY <1>3 DEF BillAsked
<1>5. OneInvoice'
  BY <1>3, <1>4, LegacyChoosesNone
<1> QED BY <1>3, <1>5 DEF SnapInv

(* create_doku_qris                                                        *)
LEMMA AskQrisKeeps ==
  ASSUME SnapInv, NEW b \in Bills, NEW o \in Orders, NEW i \in 1 .. SegmentCount(o),
         AskQris(b, o, i)
  PROVE  SnapInv'
<1> DEFINE rows == Latest(pay, {p \in Live(pay, o) : pay[p].rail = "qris" /\ pay[p].seq = i})
<1>1. PICK row \in (IF rows = {} THEN {0} ELSE rows) :
        Ask(b, o, row, "qris", SegmentAmount(o, i), i, "legacy")
  BY DEF AskQris
<1>2. UNCHANGED <<vars, named, bound, shown>> /\ ord' = ord /\ ord[o].st # "absent"
  BY DEF AskQris, vars
<1>3. row \in Payments \cup {0} /\ (row # 0 => pay[row].st # "absent" /\ pay[row].of = o)
  BY <1>1 DEF Latest, Live
<1> HIDE DEF rows
<1>4. i \in Nat /\ SegmentAmount(o, i) \in Nat /\ SegmentAmount(o, i) <= Total[o]
  BY SegmentWithin
<1>5. TypeOK' /\ RowsLinked' /\ RowsStay
  BY <1>2 DEF SnapInv, TypeOKSnap, TypeOK, RowsLinked, vars, RowsStay
<1>6. "qris" \in Products /\ pay' = pay
  BY <1>2 DEF Products, vars
<1> QED BY <1>1, <1>2, <1>3, <1>4, <1>5, <1>6, LegacyAskKeeps

(* create_doku_direct_va                                                   *)
LEMMA AskVaKeeps ==
  ASSUME SnapInv, NEW b \in Bills, NEW o \in Orders, NEW p \in Payments, AskVa(b, o, p)
  PROVE  SnapInv'
<1> DEFINE row == NewPay(o, "doku", "created", Total[o], 0)
<1>1. /\ Ask(b, o, p, "va", Total[o], 0, "legacy")
      /\ ord[o].st # "absent"
      /\ UNCHANGED <<ord, reg, sel, calls, found, leaving, mtSeen, named, bound, shown>>
      /\ Live(pay, o) = {} => pay[p].st = "absent" /\ pay' = [pay EXCEPT ![p] = row]
      /\ Live(pay, o) # {} => p \in Live(pay, o) /\ pay' = pay
  BY DEF AskVa, Latest, Unused
<1>2. Total[o] \in Nat /\ "va" \in Products /\ p # 0
  BY OrderConstants, RowIds DEF Products
<1>3. pay \in Tables /\ TypeOK /\ pay \in [Payments -> PayRow]
  BY DEF SnapInv, TypeOKSnap, TypeOK, Tables
<1>4. row \in PayRow /\ row.of = o /\ row.st = "created" /\ row.gross = Total[o] /\ row.rail = "doku"
  BY <1>2 DEF NewPay, PayRow, PayStatuses, Rails
<1> HIDE DEF row
<1>5. \A q \in Payments : pay'[q] = pay[q] \/ (q = p /\ pay[p].st = "absent" /\ pay'[p] = row)
  BY <1>1, <1>3
<1>6. pay' \in Tables
  BY <1>1, <1>3, <1>4 DEF Tables
<1>7. RowsStay
  BY <1>5 DEF RowsStay
<1>8. TypeOK' /\ RowsLinked'
  <2>1. \A q \in Payments : pay'[q] = pay[q] \/
          /\ pay'[q].st # "absent" /\ pay'[q].rail # "none"
          /\ pay'[q].of \in Orders /\ ord'[pay'[q].of].st # "absent"
          /\ pay'[q].rail = "manual" => pay'[q].seq = 0
    BY <1>1, <1>4, <1>5
  <2> QED BY <1>1, <1>3, <1>6, <1>7, <2>1, RowsKeep DEF TypeOK
<1>9. pay'[p].st # "absent" /\ pay'[p].of = o
  BY <1>1, <1>3, <1>4 DEF Live
<1>10. \A q \in Payments : pay'[q] = pay[q] \/
         /\ p = q /\ pay[q].st = "absent" /\ pay'[q].st = "created"
         /\ pay'[q].gross <= Total[pay'[q].of]
  BY <1>2, <1>4, <1>5
<1> QED BY <1>1, <1>2, <1>7, <1>8, <1>9, <1>10, LegacyAskKeeps

(* create_doku_direct_debit_payment                                        *)
LEMMA AskDebitKeeps ==
  ASSUME SnapInv, NEW b \in Bills, NEW o \in Orders, AskDebit(b, o)
  PROVE  SnapInv'
<1>1. PICK row \in (IF Live(pay, o) = {} THEN {0} ELSE Latest(pay, Live(pay, o))) :
        Ask(b, o, row, "debit", Total[o], 0, "legacy")
  BY DEF AskDebit
<1>2. UNCHANGED <<vars, named, bound, shown>> /\ ord' = ord /\ ord[o].st # "absent"
  BY DEF AskDebit, vars
<1>3. row \in Payments \cup {0} /\ (row # 0 => pay[row].st # "absent" /\ pay[row].of = o)
  BY <1>1 DEF Latest, Live
<1>4. Total[o] \in Nat /\ Total[o] <= Total[o] /\ "debit" \in Products
  BY OrderConstants DEF Products
<1>5. TypeOK' /\ RowsLinked' /\ RowsStay /\ pay' = pay
  BY <1>2 DEF SnapInv, TypeOKSnap, TypeOK, RowsLinked, vars, RowsStay
<1> QED BY <1>1, <1>2, <1>3, <1>4, <1>5, LegacyAskKeeps

-----------------------------------------------------------------------------
(* The answer to a request                                                 *)

(* What an answer does to its bill.                                        *)
LEMMA AnsweredBill ==
  ASSUME SnapInv, NEW b \in Bills, NEW p \in Payments, Answer(b, p)
  PROVE  /\ \E late \in BOOLEAN :
              /\ bill' = [bill EXCEPT ![b] = [bill[b] EXCEPT !.row = p, !.late = late]]
              /\ bill[b].row # 0 /\ (pay[p].st # "created" \/ pay[p].del) => late
         /\ call' \subseteq call
         /\ \A c \in call' : c[1] # b
         /\ bill[b].st \notin {"none", "asked"} /\ ~bill[b].late
         /\ ord' \in [Orders -> OrderRow]
         /\ \A x \in Orders : ord[x].st # "absent" => ord'[x].st # "absent"
<1>1. PICK st \in OrderStatuses :
        LET o == bill[b].of
            opens == st = "draft" /\ (bill[b].door = "method" \/ bill[b].product = "va")
        IN  /\ <<b, st>> \in call
            /\ call' = call \ {<<b, st>>}
            /\ ord' = IF opens THEN [ord EXCEPT ![o].st = "pending"] ELSE ord
            /\ bill' = [bill EXCEPT ![b].row = p,
                 ![b].late = \/ bill[b].row # 0 /\ (pay[p].st # "created" \/ pay[p].del)
                             \/ opens /\ ord[o].st # "draft"]
  BY DEF Answer
<1> DEFINE o == bill[b].of
           opens == st = "draft" /\ (bill[b].door = "method" \/ bill[b].product = "va")
           late == \/ bill[b].row # 0 /\ (pay[p].st # "created" \/ pay[p].del)
                   \/ opens /\ ord[o].st # "draft"
<1>2. /\ bill \in [Bills -> BillRow] /\ CallsOnce /\ BillRows
      /\ ord \in [Orders -> OrderRow] /\ call \subseteq Bills \X OrderStatuses
  BY DEF SnapInv, TypeOKSnap, TypeOK
<1>3. <<b, st>> \in call /\ call' = call \ {<<b, st>>}
  BY <1>1
<1>4. bill[b].st \notin {"none", "asked"} /\ ~bill[b].late
  <2>1. bill[b].st # "none" /\ ~bill[b].late
    BY <1>2, <1>3 DEF CallsOnce
  <2> QED BY <2>1 DEF Answer
<1>5. \A c \in call' : c[1] # b
  BY <1>2, <1>3 DEF CallsOnce
<1>6. bill' = [bill EXCEPT ![b] = [bill[b] EXCEPT !.row = p, !.late = late]]
  BY <1>1, <1>2 DEF BillRow
<1>7. late \in BOOLEAN /\ (bill[b].row # 0 /\ (pay[p].st # "created" \/ pay[p].del) => late)
  OBVIOUS
<1>8. o \in Orders /\ ord' = IF opens THEN [ord EXCEPT ![o].st = "pending"] ELSE ord
  BY <1>1, <1>2, <1>4 DEF BillRows
<1> HIDE DEF late, opens, o
<1>9. /\ ord' \in [Orders -> OrderRow]
      /\ \A x \in Orders : ord[x].st # "absent" => ord'[x].st # "absent"
  BY <1>2, <1>8 DEF OrderRow, OrderStatuses
<1> QED BY <1>3, <1>4, <1>5, <1>6, <1>7, <1>9

(* What it does to its row.                                                *)
LEMMA AnsweredPay ==
  ASSUME SnapInv, NEW b \in Bills, NEW p \in Payments, Answer(b, p)
  PROVE  /\ pay' = [pay EXCEPT ![p] = AnsweredRow(b, pay[p])]
         /\ AnsweredRow(b, pay[p]) \in PayRow
         /\ AnsweredRow(b, pay[p]).st = "pending"
         /\ AnsweredRow(b, pay[p]).rail \notin {"none", "manual"}
         /\ AnsweredRow(b, pay[p]).of = bill[b].of
         /\ AnsweredRow(b, pay[p]).gross <= Total[bill[b].of]
         /\ bill[b].of \in Orders /\ ord[bill[b].of].st # "absent"
         /\ bill[b].row = 0 => pay[p].st = "absent"
         /\ bill[b].row # 0 => /\ p = bill[b].row
                               /\ pay[p].st # "absent" /\ pay[p].of = bill[b].of
                               /\ AnsweredRow(b, pay[p]).gross = pay[p].gross
                               /\ AnsweredRow(b, pay[p]).del = pay[p].del
<1>1. /\ bill \in [Bills -> BillRow] /\ pay \in [Payments -> PayRow]
      /\ BillRows /\ WithinTotal /\ bill[b].st # "none"
  BY AnsweredBill DEF SnapInv, TypeOKSnap, TypeOK
<1>2. /\ pay' = [pay EXCEPT ![p] = AnsweredRow(b, pay[p])]
      /\ bill[b].row = 0 => pay[p].st = "absent"
      /\ bill[b].row # 0 => p = bill[b].row
  BY <1>1 DEF Answer, Unused
<1>3. bill[b].of \in Orders /\ ord[bill[b].of].st # "absent"
  BY <1>1 DEF BillRows
<1>4. bill[b].row # 0 => pay[p].st # "absent" /\ pay[p].of = bill[b].of
  BY <1>1, <1>2 DEF BillRows
<1>5. RailOf(bill[b].product) \in Rails \ {"none", "manual"} /\ "pending" \in PayStatuses
  BY <1>1 DEF RailOf, Rails, PayStatuses, BillRow, Products
<1>6. CASE bill[b].row = 0
  <2>1. AnsweredRow(b, pay[p]) =
          NewPay(bill[b].of, RailOf(bill[b].product), "pending", bill[b].amount, bill[b].seq)
    BY <1>6 DEF AnsweredRow, Answered
  <2>2. bill[b].amount <= Total[bill[b].of] /\ bill[b].amount \in Nat /\ bill[b].seq \in Nat
    BY <1>1, <1>6 DEF WithinTotal, BillRow
  <2> QED BY <1>2, <1>3, <1>5, <1>6, <2>1, <2>2 DEF NewPay, PayRow
<1>7. CASE bill[b].row # 0
  <2>1. AnsweredRow(b, pay[p]) = [pay[p] EXCEPT !.rail = RailOf(bill[b].product), !.st = "pending"]
    BY <1>7 DEF AnsweredRow, Answered
  <2>2. pay[p] \in PayRow /\ pay[p].gross <= Total[pay[p].of]
    BY <1>1, <1>4, <1>7 DEF WithinTotal
  <2> QED BY <1>2, <1>3, <1>4, <1>5, <1>7, <2>1, <2>2 DEF PayRow
<1> QED BY <1>6, <1>7

(* A late answer is marked; one in time leaves its row as undecided.       *)
LEMMA AnswerKeeps ==
  ASSUME SnapInv, NEW b \in Bills, NEW p \in Payments, Answer(b, p)
  PROVE  SnapInv'
<1>1. PICK late \in BOOLEAN :
        /\ bill' = [bill EXCEPT ![b] = [bill[b] EXCEPT !.row = p, !.late = late]]
        /\ bill[b].row # 0 /\ (pay[p].st # "created" \/ pay[p].del) => late
  BY AnsweredBill
<1> DEFINE new == AnsweredRow(b, pay[p])
<1>2. /\ new \in PayRow /\ new.st = "pending" /\ new.rail \notin {"none", "manual"}
      /\ new.of = bill[b].of /\ new.gross <= Total[bill[b].of]
      /\ bill[b].row # 0 => /\ p = bill[b].row /\ pay[p].st # "absent"
                            /\ pay[p].of = bill[b].of
                            /\ new.gross = pay[p].gross /\ new.del = pay[p].del
      /\ pay' = [pay EXCEPT ![p] = new]
  BY AnsweredPay
<1> HIDE DEF new
<1>3. /\ bill[b].of \in Orders /\ ord[bill[b].of].st # "absent"
      /\ bill[b].row = 0 => pay[p].st = "absent"
  BY AnsweredPay
<1>4. /\ call' \subseteq call /\ \A c \in call' : c[1] # b
      /\ bill[b].st \notin {"none", "asked"} /\ ~bill[b].late
      /\ ord' \in [Orders -> OrderRow]
      /\ \A x \in Orders : ord[x].st # "absent" => ord'[x].st # "absent"
  BY AnsweredBill
<1>5. /\ TypeOKSnap /\ TypeOK /\ RowsLinked /\ BillRows /\ CallsOnce /\ NamedRows
      /\ WithinTotal /\ SettledTold
      /\ pay \in Tables /\ pay \in [Payments -> PayRow] /\ bill \in [Bills -> BillRow]
      /\ named \in [Payments -> Bills \cup {0}] /\ 0 \notin Payments /\ 0 \notin Bills
  BY RowIds, BillIds DEF SnapInv, TypeOKSnap, TypeOK, Tables
<1>6. /\ named' = [named EXCEPT ![p] = NamedAfter(b, named[p])]
      /\ shown' = shown \cup {b}
      /\ UNCHANGED <<reg, sel, calls, found, leaving, mtSeen, bound>>
  BY <1>5 DEF Answer
<1>7. pay'[p] = new /\ \A q \in Payments \ {p} : pay'[q] = pay[q]
  BY <1>2, <1>5
<1>8. /\ bill'[b].row = p /\ bill'[b].late = late /\ bill'[b].of = bill[b].of
      /\ bill'[b].st = bill[b].st /\ bill'[b].amount = bill[b].amount
      /\ bill'[b].door = bill[b].door /\ bill'[b] \in BillRow
      /\ \A c \in Bills \ {b} : bill'[c] = bill[c]
  BY <1>1, <1>5 DEF BillRow
<1>9. bill[b].row \in {0, p}
  BY <1>2
<1>10. RowsStay
  BY <1>2, <1>3, <1>7 DEF RowsStay
<1>11. TypeOK' /\ RowsLinked'
  <2>1. pay' \in Tables
    BY <1>2, <1>5 DEF Tables
  <2>2. \A q \in Payments : pay'[q] = pay[q] \/
          /\ pay'[q].st # "absent" /\ pay'[q].rail # "none"
          /\ pay'[q].of \in Orders /\ ord'[pay'[q].of].st # "absent"
          /\ pay'[q].rail = "manual" => pay'[q].seq = 0
    BY <1>2, <1>3, <1>4, <1>7
  <2>3. reg' \in [Regs -> RegStatuses] /\ sel' \in [Regs -> [Packages -> Orders \cup {0}]]
    BY <1>5, <1>6 DEF TypeOK
  <2> QED BY <1>4, <1>6, <1>10, <2>1, <2>2, <2>3, RowsKeep
<1>12. named'[p] \in {named[p], b} /\ \A q \in Payments \ {p} : named'[q] = named[q]
  BY <1>5, <1>6 DEF NamedAfter
<1>13. TypeOKSnap'
  <2>1. bill' \in [Bills -> BillRow]
    BY <1>1, <1>5, <1>8
  <2>2. named' \in [Payments -> Bills \cup {0}]
    BY <1>5, <1>6 DEF NamedAfter
  <2>3. shown' \subseteq Bills /\ \A c \in shown' : bill'[c].st \notin {"none", "asked"}
    BY <1>4, <1>5, <1>6, <1>8 DEF TypeOKSnap
  <2>4. call' \subseteq Bills \X OrderStatuses /\ bound' \in BOOLEAN
    BY <1>4, <1>5, <1>6 DEF TypeOKSnap
  <2> QED BY <1>11, <2>1, <2>2, <2>3, <2>4 DEF TypeOKSnap
<1>14. BillRows'
  <2> SUFFICES ASSUME NEW c \in Bills
               PROVE  /\ bill'[c].st = "none" => bill'[c] = NoBill
                      /\ bill'[c].st # "none" =>
                           /\ bill'[c].of \in Orders /\ ord'[bill'[c].of].st # "absent"
                           /\ bill'[c].door = "method" => bill'[c].row # 0
                      /\ bill'[c].row # 0 => /\ pay'[bill'[c].row].st # "absent"
                                             /\ pay'[bill'[c].row].of = bill'[c].of
    BY DEF BillRows
  <2>1. CASE c = b
    BY <2>1, <1>2, <1>3, <1>4, <1>5, <1>7, <1>8
  <2>2. CASE c # b
    <3>1. bill'[c] = bill[c] /\ bill[c].row \in Payments \cup {0}
      BY <2>2, <1>5, <1>8 DEF BillRow
    <3> QED BY <3>1, <1>4, <1>5, <1>10 DEF BillRows, RowsStay
  <2> QED BY <2>1, <2>2
<1>15. CallsOnce'
  <2>1. \A c \in call' : c \in call /\ c[1] \in Bills \ {b}
    BY <1>4, <1>5 DEF TypeOKSnap
  <2> QED BY <2>1, <1>5, <1>8 DEF CallsOnce
<1>16. NamedRows'
  <2> SUFFICES ASSUME NEW q \in Payments, named'[q] # 0 PROVE bill'[named'[q]].row = q
    BY DEF NamedRows
  <2>1. CASE q = p /\ named'[p] = b
    BY <2>1, <1>8
  <2>2. CASE named'[q] = named[q]
    <3>1. named[q] \in Bills /\ bill[named[q]].row = q
      BY <2>2, <1>5 DEF NamedRows
    <3>2. CASE named[q] = b
      BY <3>1, <3>2, <2>2, <1>5, <1>8, <1>9
    <3>3. CASE named[q] # b
      BY <3>1, <3>3, <2>2, <1>8
    <3> QED BY <3>2, <3>3
  <2> QED BY <2>1, <2>2, <1>12
<1>17. WithinTotal'
  <2>1. \A q \in Payments : pay'[q].st # "absent" => pay'[q].gross <= Total[pay'[q].of]
    BY <1>2, <1>5, <1>7 DEF WithinTotal
  <2>2. ASSUME NEW c \in Bills, bill'[c].st # "none", bill'[c].row = 0
        PROVE  bill'[c].amount <= Total[bill'[c].of]
    <3>1. c # b
      BY <2>2, <1>5, <1>8
    <3> QED BY <3>1, <2>2, <1>5, <1>8 DEF WithinTotal
  <2> QED BY <2>1, <2>2 DEF WithinTotal
<1>18. SettledTold'
  <2> SUFFICES ASSUME NEW q \in Payments, pay'[q].st = "success"
               PROVE  \E c \in Bills : /\ bill'[c].row = q /\ bill'[c].st = "told"
                                       /\ pay'[q].gross <= bill'[c].amount
    BY DEF SettledTold
  <2>1. q # p /\ pay'[q] = pay[q]
    BY <1>2, <1>7
  <2>2. PICK c \in Bills : bill[c].row = q /\ bill[c].st = "told" /\ pay[q].gross <= bill[c].amount
    BY <2>1, <1>5 DEF SettledTold
  <2>3. c # b
    BY <2>1, <2>2, <1>5, <1>9
  <2> QED BY <2>1, <2>2, <2>3, <1>8
<1>19. OneInvoice'
  <2>1. \A c \in Bills : bill[c].late => bill'[c].late /\ bill'[c].row = bill[c].row
    BY <1>4, <1>8
  <2>2. ASSUME NEW x \in Orders, NEW q \in Undecided(x)', Chosen(q)'
        PROVE  \/ q \in Undecided(x) /\ Chosen(q)
               \/ \E c \in Bills : bill'[c].row = q /\ bill'[c].late
    <3>1. q \in Payments
      BY DEF Undecided, Live
    <3>2. CASE q # p
      <4>1. q \in Undecided(x)
        BY <3>1, <3>2, <1>7 DEF Undecided, Live
      <4>2. bill[b].row # q /\ bill'[b].row # q
        BY <3>1, <3>2, <1>5, <1>8, <1>9
      <4>3. Chosen(q)
        BY <2>2, <4>2, <1>8 DEF Chosen
      <4> QED BY <4>1, <4>3
    <3>3. CASE q = p /\ late
      BY <3>3, <1>8
    <3>4. CASE q = p /\ ~late
      <4>1. bill'[b].door = "method"
        BY <2>2, <3>4, <1>8 DEF Chosen
      <4>2. bill[b].row # 0
        BY <4>1, <1>4, <1>5, <1>8 DEF BillRows
      <4>3. bill[b].row = p /\ pay[p].st = "created" /\ ~pay[p].del
        BY <4>2, <3>4, <1>1, <1>2
      <4>4. p \in Undecided(x)
        <5>1. pay'[p].of = x
          BY <3>4 DEF Undecided, Live
        <5>2. pay[p].of = x
          BY <5>1, <4>2, <1>2, <1>7
        <5> QED BY <5>2, <4>3 DEF Undecided, Live
      <4>5. Chosen(p)
        BY <2>2, <3>4, <4>3, <1>8 DEF Chosen
      <4> QED BY <3>4, <4>4, <4>5
    <3> QED BY <3>2, <3>3, <3>4
  <2> QED BY <2>1, <2>2, InvoiceKeeps
<1> QED BY <1>11, <1>13, <1>14, <1>15, <1>16, <1>17, <1>18, <1>19 DEF SnapInv

-----------------------------------------------------------------------------
(* Steps that ask for nothing: bills move on, rows are decided             *)

(* Of a bill only its fate at DOKU changes, and what is announced stays so. *)
BillsStay ==
  \A b \in Bills :
    /\ bill'[b].of = bill[b].of /\ bill'[b].row = bill[b].row
    /\ bill'[b].product = bill[b].product /\ bill'[b].seq = bill[b].seq
    /\ bill'[b].amount = bill[b].amount
    /\ bill'[b].door = bill[b].door /\ bill'[b].late = bill[b].late
    /\ bill[b].st = "none" => bill'[b] = bill[b]
    /\ bill[b].st # "none" => bill'[b].st # "none"
    /\ bill[b].st \notin {"none", "asked"} => bill'[b].st \notin {"none", "asked"}
    /\ bill[b].st \in {"ended", "told"} => bill'[b].st = bill[b].st

(* No row becomes undecided, and none settles without its bill.            *)
LEMMA DecidingKeeps ==
  ASSUME SnapInv, TypeOK', RowsLinked', RowsStay,
         bill' \in [Bills -> BillRow], BillsStay,
         call' \subseteq call, UNCHANGED <<named, shown>>, bound' \in BOOLEAN,
         \A x \in Orders : ord[x].st # "absent" => ord'[x].st # "absent",
         \A p \in Payments : pay[p].st = "absent" => pay'[p] = pay[p],
         \A o \in Orders : Undecided(o)' \subseteq Undecided(o),
         \A p \in Payments : pay'[p].st = "success" =>
           \/ pay[p].st = "success"
           \/ \E b \in Bills : /\ bill'[b].row = p /\ bill'[b].st = "told"
                               /\ pay'[p].gross <= bill'[b].amount
  PROVE  SnapInv'
<1>1. /\ TypeOKSnap /\ BillRows /\ CallsOnce /\ NamedRows /\ WithinTotal /\ SettledTold
      /\ bill \in [Bills -> BillRow] /\ call \subseteq Bills \X OrderStatuses
      /\ shown \subseteq Bills /\ named \in [Payments -> Bills \cup {0}]
  BY DEF SnapInv, TypeOKSnap
<1>2. TypeOKSnap'
  <2>1. \A b \in shown' : bill'[b].st \notin {"none", "asked"}
    BY <1>1 DEF TypeOKSnap, BillsStay
  <2> QED BY <1>1, <2>1 DEF TypeOKSnap
<1>3. BillRows'
  <2> SUFFICES ASSUME NEW c \in Bills
               PROVE  /\ bill'[c].st = "none" => bill'[c] = NoBill
                      /\ bill'[c].st # "none" =>
                           /\ bill'[c].of \in Orders /\ ord'[bill'[c].of].st # "absent"
                           /\ bill'[c].door = "method" => bill'[c].row # 0
                      /\ bill'[c].row # 0 => /\ pay'[bill'[c].row].st # "absent"
                                             /\ pay'[bill'[c].row].of = bill'[c].of
    BY DEF BillRows
  <2>1. /\ bill'[c].of = bill[c].of /\ bill'[c].row = bill[c].row
        /\ bill'[c].door = bill[c].door
        /\ bill[c].st = "none" => bill'[c] = bill[c]
        /\ bill[c].st # "none" => bill'[c].st # "none"
    BY DEF BillsStay
  <2>2. bill[c].row \in Payments \cup {0}
    BY <1>1 DEF BillRow
  <2> QED BY <1>1, <2>1, <2>2 DEF BillRows, RowsStay
<1>4. CallsOnce'
  BY <1>1 DEF CallsOnce, BillsStay
<1>5. NamedRows'
  BY <1>1 DEF NamedRows, BillsStay
<1>6. WithinTotal'
  <2>1. \A p \in Payments : pay'[p].st # "absent" => pay'[p].gross <= Total[pay'[p].of]
    BY <1>1 DEF WithinTotal, RowsStay
  <2>2. \A b \in Bills : bill'[b].st # "none" /\ bill'[b].row = 0 =>
          bill'[b].amount <= Total[bill'[b].of]
    BY <1>1 DEF WithinTotal, BillsStay
  <2> QED BY <2>1, <2>2 DEF WithinTotal
<1>7. SettledTold'
  <2> SUFFICES ASSUME NEW p \in Payments, pay'[p].st = "success", pay[p].st = "success"
               PROVE  \E b \in Bills : /\ bill'[b].row = p /\ bill'[b].st = "told"
                                       /\ pay'[p].gross <= bill'[b].amount
    BY DEF SettledTold
  <2>1. PICK b \in Bills : bill[b].row = p /\ bill[b].st = "told" /\ pay[p].gross <= bill[b].amount
    BY <1>1 DEF SettledTold
  <2>2. pay'[p].gross = pay[p].gross
    BY DEF RowsStay
  <2> QED BY <2>1, <2>2 DEF BillsStay
<1>8. OneInvoice'
  <2>1. \A p : Chosen(p)' <=> Chosen(p)
    BY DEF Chosen, BillsStay
  <2>2. \A o \in Orders : \A p \in Undecided(o)' : Chosen(p)' => p \in Undecided(o) /\ Chosen(p)
    BY <2>1
  <2>3. \A b \in Bills : bill[b].late => bill'[b].late /\ bill'[b].row = bill[b].row
    BY DEF BillsStay
  <2> QED BY <2>2, <2>3, InvoiceKeeps
<1> QED BY <1>2, <1>3, <1>4, <1>5, <1>6, <1>7, <1>8 DEF SnapInv

(* A bill moves on at DOKU.                                                *)
LEMMA MovedBill ==
  ASSUME SnapInv, NEW b \in Bills, NEW from \in {"asked", "open", "settled"},
         NEW to \in {"open", "settled", "ended", "told"}, BillMoves(b, from, to)
  PROVE  /\ bill' \in [Bills -> BillRow] /\ BillsStay
         /\ bill'[b].st = to /\ \A c \in Bills \ {b} : bill'[c] = bill[c]
<1>1. bill \in [Bills -> BillRow] /\ bill[b].st = from /\ bill' = [bill EXCEPT ![b].st = to]
  BY DEF SnapInv, TypeOKSnap, BillMoves
<1>2. bill' \in [Bills -> BillRow]
  BY <1>1 DEF BillRow, BillStatuses
<1>3. /\ bill'[b].st = to
      /\ bill'[b].of = bill[b].of /\ bill'[b].row = bill[b].row
      /\ bill'[b].product = bill[b].product /\ bill'[b].seq = bill[b].seq
      /\ bill'[b].amount = bill[b].amount
      /\ bill'[b].door = bill[b].door /\ bill'[b].late = bill[b].late
      /\ \A c \in Bills \ {b} : bill'[c] = bill[c]
  BY <1>1 DEF BillRow
<1>4. BillsStay
  BY <1>1, <1>3 DEF BillsStay
<1> QED BY <1>2, <1>3, <1>4

(* Steps that leave the tables alone.                                      *)
LEMMA SnapQuietSteps ==
  ASSUME SnapInv, UNCHANGED vars, bill' \in [Bills -> BillRow], BillsStay,
         call' \subseteq call, UNCHANGED <<named, shown>>, bound' \in BOOLEAN
  PROVE  SnapInv'
<1>1. ord' = ord /\ pay' = pay /\ TypeOK' /\ RowsLinked'
  BY DEF vars, SnapInv, TypeOKSnap, TypeOK, RowsLinked
<1>2. RowsStay /\ \A o \in Orders : Undecided(o)' \subseteq Undecided(o)
  BY <1>1 DEF RowsStay, Undecided
<1> QED BY <1>1, <1>2, DecidingKeeps

(* Lost answers, and what DOKU, the customer and the bank do.              *)
LEMMA DokuSteps ==
  ASSUME SnapInv,
         \/ \E b \in Bills : AnswerLost(b) \/ BillOpens(b) \/ CustomerSettles(b)
         \/ \E p \in Payments : VerifyOtp(p)
         \/ Bind \/ UNCHANGED snapVars
  PROVE  SnapInv'
<1>1. bill \in [Bills -> BillRow] /\ bound \in BOOLEAN
  BY DEF SnapInv, TypeOKSnap
<1>2. bill' = bill => BillsStay
  BY DEF BillsStay
<1>3. CASE (\E b \in Bills : AnswerLost(b)) \/ Bind \/ UNCHANGED snapVars
  <2>1. /\ UNCHANGED <<vars, bill, named, shown>>
        /\ call' \subseteq call /\ bound' \in BOOLEAN
    BY <1>1, <1>3 DEF AnswerLost, Bind, snapVars, snap
  <2> QED BY <1>1, <1>2, <2>1, SnapQuietSteps
<1>4. ASSUME NEW b \in Bills, BillOpens(b)
      PROVE  SnapInv'
  <2>1. BillMoves(b, "asked", "open") /\ UNCHANGED <<vars, call, named, bound, shown>>
    BY <1>4 DEF BillOpens
  <2>2. bill' \in [Bills -> BillRow] /\ BillsStay
    BY <2>1, MovedBill
  <2> QED BY <1>1, <2>1, <2>2, SnapQuietSteps
<1>5. ASSUME NEW b \in Bills, CustomerSettles(b)
      PROVE  SnapInv'
  <2>1. BillMoves(b, "open", "settled") /\ UNCHANGED <<vars, call, named, bound, shown>>
    BY <1>5 DEF CustomerSettles
  <2>2. bill' \in [Bills -> BillRow] /\ BillsStay
    BY <2>1, MovedBill
  <2> QED BY <1>1, <2>1, <2>2, SnapQuietSteps
<1>6. ASSUME NEW p \in Payments, VerifyOtp(p)
      PROVE  SnapInv'
  <2>1. PICK c \in shown : BillMoves(c, "open", "settled")
    BY <1>6 DEF VerifyOtp
  <2>2. c \in Bills /\ UNCHANGED <<vars, call, named, bound, shown>>
    BY <1>6 DEF VerifyOtp, SnapInv, TypeOKSnap
  <2>3. bill' \in [Bills -> BillRow] /\ BillsStay
    BY <2>1, <2>2, MovedBill
  <2> QED BY <1>1, <2>2, <2>3, SnapQuietSteps
<1> QED BY <1>3, <1>4, <1>5, <1>6

-----------------------------------------------------------------------------
(* The steps that decide rows                                              *)

(* Rows of the table are closed, settled or deleted, and nothing else.     *)
Decides ==
  /\ pay' \in Tables /\ ord' \in [Orders -> OrderRow]
  /\ reg' \in [Regs -> RegStatuses]
  /\ sel' \in [Regs -> [Packages -> Orders \cup {0}]]
  /\ \A x \in Orders : ord[x].st # "absent" => ord'[x].st # "absent"
  /\ \A q \in Payments : pay'[q] = pay[q] \/
       /\ pay[q].st # "absent" /\ pay'[q].st # "absent"
       /\ pay'[q].of = pay[q].of /\ pay'[q].rail = pay[q].rail
       /\ pay'[q].gross = pay[q].gross /\ pay'[q].seq = pay[q].seq
       /\ pay'[q].del \/ pay'[q].st \notin {"created", "pending"}

(* They stay what they are otherwise.                                      *)
LEMMA RowsDecided ==
  ASSUME SnapInv, Decides, UNCHANGED <<calls, found, leaving, mtSeen>>
  PROVE  /\ TypeOK' /\ RowsLinked' /\ RowsStay
         /\ \A p \in Payments : pay[p].st = "absent" => pay'[p] = pay[p]
         /\ \A o \in Orders : Undecided(o)' \subseteq Undecided(o)
<1>1. RowsLinked
  BY DEF SnapInv
<1>2. RowsStay
  BY DEF RowsStay, Decides
<1>3. \A o \in Orders : Undecided(o)' \subseteq Undecided(o)
  BY DEF Undecided, Live, Decides
<1>4. \A q \in Payments : pay'[q] = pay[q] \/
        /\ pay'[q].st # "absent" /\ pay'[q].rail # "none"
        /\ pay'[q].of \in Orders /\ ord'[pay'[q].of].st # "absent"
        /\ pay'[q].rail = "manual" => pay'[q].seq = 0
  BY <1>1 DEF RowsLinked, Linked, Decides
<1>5. TypeOK' /\ RowsLinked'
  BY <1>2, <1>4, RowsKeep DEF Decides
<1> QED BY <1>2, <1>3, <1>5 DEF Decides

(* A reconciled order and what follows it are well formed.                 *)
LEMMA SnapReconciles ==
  ASSUME SnapInv, NEW P \in Tables, NEW o \in Orders, Reconcile(P, o)
  PROVE  /\ pay' = P /\ ord' \in [Orders -> OrderRow]
         /\ reg' \in [Regs -> RegStatuses]
         /\ sel' \in [Regs -> [Packages -> Orders \cup {0}]]
         /\ \A x \in Orders : ord[x].st # "absent" => ord'[x].st # "absent"
<1>1. TypeOK /\ ord \in [Orders -> OrderRow]
  BY DEF SnapInv, TypeOKSnap, TypeOK
<1>2. /\ OrderAfter(ord[o], P, o) \in OrderRow
      /\ StatusAfter(ord[o].st, P, o) # "absent"
      /\ \A s : RegAfter(o, s) \in [Regs -> RegStatuses]
      /\ \A s : SelAfter(o, s) \in [Regs -> [Packages -> Orders \cup {0}]]
  BY <1>1, ReconcileTypes
<1>3. OrderAfter(ord[o], P, o).st # "absent"
  BY <1>2 DEF OrderAfter
<1>4. ord' = [ord EXCEPT ![o] = OrderAfter(ord[o], P, o)]
  BY <1>1 DEF Reconcile
<1>5. ord' \in [Orders -> OrderRow]
  BY <1>1, <1>2, <1>4
<1>6. \A x \in Orders : ord[x].st # "absent" => ord'[x].st # "absent"
  BY <1>1, <1>3, <1>4
<1> QED BY <1>2, <1>5, <1>6 DEF Reconcile

(* A notification finds the row of its bill, and pays no more than that    *)
(* bill: a direct debit charges the order's whole total.                   *)
LEMMA HeardRow ==
  ASSUME SnapInv, NEW b \in Bills, NEW p \in Payments, Hears(p, b)
  PROVE  /\ bill[b].row = p /\ pay[p].st # "absent" /\ pay[p].of \in Orders
         /\ pay[p].gross <= bill[b].amount
<1>1. /\ BillRows /\ NamedRows /\ WithinTotal /\ RowsLinked
      /\ pay \in [Payments -> PayRow] /\ bill \in [Bills -> BillRow]
      /\ 0 \notin Bills /\ 0 \notin Payments
  BY RowIds, BillIds DEF SnapInv, TypeOKSnap, TypeOK
<1>2. named[p] = b
  BY DEF Hears
<1>3. bill[b].row = p
  BY <1>1, <1>2 DEF NamedRows
<1>4. pay[p].st # "absent"
  BY <1>1, <1>3 DEF BillRows
<1>5. pay[p].of \in Orders /\ pay[p].gross <= Total[pay[p].of]
  BY <1>1, <1>4 DEF RowsLinked, Linked, WithinTotal
<1>6. bill[b].amount = pay[p].gross \/ bill[b].amount = Total[pay[p].of]
  BY DEF Hears
<1>7. pay[p].gross \in Nat
  BY <1>1 DEF PayRow
<1> QED BY <1>3, <1>4, <1>5, <1>6, <1>7

(* The row of a bill takes its outcome, and its order is reconciled.       *)
LEMMA HearKeeps ==
  ASSUME SnapInv, NEW b \in Bills, NEW p \in Payments,
         HearSettled(b, p) \/ HearEnded(b, p)
  PROVE  SnapInv'
<1>1. PICK s \in {"success", "expired"}, to \in {"told", "ended"}, from \in {"settled", "open"} :
        /\ BillMoves(b, from, to)
        /\ Reconcile([pay EXCEPT ![p].st = s], pay[p].of)
        /\ s = "success" => pay[p].st = "success" \/ to = "told"
  <2>1. CASE HearSettled(b, p)
    BY <2>1 DEF HearSettled
  <2>2. CASE HearEnded(b, p)
    BY <2>2 DEF HearEnded, DokuResult
  <2> QED BY <2>1, <2>2
<1>2. Hears(p, b) /\ UNCHANGED <<calls, found, leaving, mtSeen, call, named, bound, shown>>
  BY DEF HearSettled, HearEnded
<1> DEFINE P == [pay EXCEPT ![p].st = s]
<1>3. /\ bill[b].row = p /\ pay[p].st # "absent" /\ pay[p].of \in Orders
      /\ pay[p].gross <= bill[b].amount
  BY <1>2, HeardRow
<1>4. pay \in [Payments -> PayRow] /\ bound \in BOOLEAN
  BY DEF SnapInv, TypeOKSnap, TypeOK
<1>5. /\ P[p] \in PayRow /\ P[p].st = s /\ P[p].of = pay[p].of /\ P[p].rail = pay[p].rail
      /\ P[p].gross = pay[p].gross /\ P[p].seq = pay[p].seq
      /\ \A q \in Payments \ {p} : P[q] = pay[q]
  BY <1>4 DEF PayRow, PayStatuses
<1>6. P \in Tables
  BY <1>4, <1>5 DEF Tables
<1> HIDE DEF P
<1>7. /\ pay' = P /\ ord' \in [Orders -> OrderRow]
      /\ reg' \in [Regs -> RegStatuses]
      /\ sel' \in [Regs -> [Packages -> Orders \cup {0}]]
      /\ \A x \in Orders : ord[x].st # "absent" => ord'[x].st # "absent"
  <2>1. Reconcile(P, pay[p].of)
    BY <1>1 DEF P
  <2> QED BY <2>1, <1>3, <1>6, SnapReconciles
<1>8. \A q \in Payments : pay'[q] = pay[q] \/
        /\ pay[q].st # "absent" /\ pay'[q].st # "absent"
        /\ pay'[q].of = pay[q].of /\ pay'[q].rail = pay[q].rail
        /\ pay'[q].gross = pay[q].gross /\ pay'[q].seq = pay[q].seq
        /\ pay'[q].del \/ pay'[q].st \notin {"created", "pending"}
  BY <1>3, <1>5, <1>7
<1>9. /\ TypeOK' /\ RowsLinked' /\ RowsStay
      /\ \A q \in Payments : pay[q].st = "absent" => pay'[q] = pay[q]
      /\ \A o \in Orders : Undecided(o)' \subseteq Undecided(o)
  BY <1>2, <1>6, <1>7, <1>8, RowsDecided DEF Decides
<1>10. bill' \in [Bills -> BillRow] /\ BillsStay /\ bill'[b].st = to
  <2>1. from \in {"asked", "open", "settled"} /\ to \in {"open", "settled", "ended", "told"}
    OBVIOUS
  <2> QED BY <1>1, <2>1, MovedBill
<1>11. ASSUME NEW q \in Payments, pay'[q].st = "success"
       PROVE  \/ pay[q].st = "success"
              \/ \E c \in Bills : /\ bill'[c].row = q /\ bill'[c].st = "told"
                                  /\ pay'[q].gross <= bill'[c].amount
  <2>1. CASE q # p
    BY <2>1, <1>5, <1>7, <1>11
  <2>2. CASE q = p
    <3>1. s = "success" /\ pay'[p].gross = pay[p].gross
      BY <2>2, <1>5, <1>7, <1>11
    <3>2. bill'[b].row = p /\ bill'[b].amount = bill[b].amount
      BY <1>3, <1>10 DEF BillsStay
    <3> QED BY <2>2, <3>1, <3>2, <1>1, <1>3, <1>10
  <2> QED BY <2>1, <2>2
<1> QED BY <1>2, <1>4, <1>7, <1>9, <1>10, <1>11, DecidingKeeps

(* The organizer's commands and the owner's cancellation close and delete  *)
(* rows.                                                                   *)
LEMMA CommandsKeep ==
  ASSUME SnapInv, UNCHANGED snap,
         \/ \E p \in Payments : AdminCancel(p) \/ AdminDelete(p)
         \/ \E o \in Orders : UserCancel(o)
  PROVE  SnapInv'
<1>1. /\ TypeOKSnap /\ TypeOK /\ RowsLinked
      /\ pay \in [Payments -> PayRow] /\ ord \in [Orders -> OrderRow]
      /\ reg \in [Regs -> RegStatuses]
      /\ sel \in [Regs -> [Packages -> Orders \cup {0}]]
  BY DEF SnapInv, TypeOKSnap, TypeOK
<1>2. /\ bill' \in [Bills -> BillRow] /\ call' \subseteq call /\ bound' \in BOOLEAN
      /\ UNCHANGED <<named, shown>> /\ bill' = bill
  BY <1>1 DEF TypeOKSnap, snap
<1>3. BillsStay
  BY <1>2 DEF BillsStay
<1>4. UNCHANGED <<calls, found, leaving, mtSeen>>
  BY DEF AdminCancel, AdminDelete, UserCancel
<1>5. ASSUME Decides, \A q \in Payments : pay'[q].st = "success" => pay[q].st = "success"
      PROVE  SnapInv'
  <2>1. /\ TypeOK' /\ RowsLinked' /\ RowsStay
        /\ \A p \in Payments : pay[p].st = "absent" => pay'[p] = pay[p]
        /\ \A o \in Orders : Undecided(o)' \subseteq Undecided(o)
    BY <1>4, <1>5, RowsDecided
  <2> QED BY <1>2, <1>3, <1>5, <2>1, DecidingKeeps DEF Decides
<1>6. ASSUME NEW p \in Payments, AdminDelete(p)
      PROVE  SnapInv'
  <2> DEFINE P == [pay EXCEPT ![p].del = TRUE]
  <2>1. Reconcile(P, pay[p].of) /\ pay[p].st # "absent"
    BY <1>6 DEF AdminDelete, MayCancel
  <2>2. pay[p].of \in Orders
    BY <1>1, <2>1 DEF RowsLinked, Linked
  <2>3. /\ P[p] \in PayRow /\ P[p].st = pay[p].st /\ P[p].of = pay[p].of /\ P[p].del
        /\ P[p].rail = pay[p].rail /\ P[p].gross = pay[p].gross /\ P[p].seq = pay[p].seq
        /\ \A q \in Payments \ {p} : P[q] = pay[q]
    BY <1>1 DEF PayRow
  <2>4. P \in Tables
    BY <1>1, <2>3 DEF Tables
  <2> HIDE DEF P
  <2>5. /\ pay' = P /\ ord' \in [Orders -> OrderRow]
        /\ reg' \in [Regs -> RegStatuses]
        /\ sel' \in [Regs -> [Packages -> Orders \cup {0}]]
        /\ \A x \in Orders : ord[x].st # "absent" => ord'[x].st # "absent"
    BY <2>1, <2>2, <2>4, SnapReconciles
  <2>6. Decides
    BY <2>1, <2>3, <2>4, <2>5 DEF Decides
  <2>7. \A q \in Payments : pay'[q].st = "success" => pay[q].st = "success"
    BY <2>3, <2>5
  <2> QED BY <1>5, <2>6, <2>7
<1>7. ASSUME NEW p \in Payments, AdminCancel(p)
      PROVE  SnapInv'
  <2> DEFINE P == [pay EXCEPT ![p].st = "canceled"]
             o == pay[p].of
             row == IF Paid(P, o) = 0 THEN [st |-> "canceled", by |-> TRUE]
                    ELSE OrderAfter(ord[o], P, o)
             s == StatusAfter(ord[o].st, P, o)
  <2>1. pay[p].st # "absent"
    BY <1>7 DEF AdminCancel, MayCancel
  <2>2. o \in Orders
    BY <1>1, <2>1 DEF RowsLinked, Linked
  <2>3. /\ pay' = P /\ reg' = RegAfter(o, s) /\ sel' = SelAfter(o, s)
        /\ ord' = [ord EXCEPT ![o] = row]
    BY <1>1, <1>7, <2>2 DEF AdminCancel
  <2>4. /\ P[p] \in PayRow /\ P[p].st = "canceled" /\ P[p].of = pay[p].of
        /\ P[p].rail = pay[p].rail /\ P[p].gross = pay[p].gross /\ P[p].seq = pay[p].seq
        /\ \A q \in Payments \ {p} : P[q] = pay[q]
    BY <1>1 DEF PayRow, PayStatuses
  <2>5. P \in Tables
    BY <1>1, <2>4 DEF Tables
  <2> HIDE DEF P, s
  <2>6. /\ OrderAfter(ord[o], P, o) \in OrderRow
        /\ StatusAfter(ord[o].st, P, o) # "absent"
        /\ reg' \in [Regs -> RegStatuses]
        /\ sel' \in [Regs -> [Packages -> Orders \cup {0}]]
    BY <1>1, <2>2, <2>3, <2>5, ReconcileTypes
  <2>7. row \in OrderRow /\ row.st # "absent"
    BY <2>6 DEF OrderAfter, OrderRow, OrderStatuses
  <2> HIDE DEF row
  <2>8. /\ ord' \in [Orders -> OrderRow]
        /\ \A x \in Orders : ord[x].st # "absent" => ord'[x].st # "absent"
    BY <1>1, <2>2, <2>3, <2>7
  <2>9. Decides
    BY <2>1, <2>3, <2>4, <2>5, <2>6, <2>8 DEF Decides
  <2>10. \A q \in Payments : pay'[q].st = "success" => pay[q].st = "success"
    BY <2>3, <2>4
  <2> QED BY <1>5, <2>9, <2>10
<1>8. ASSUME NEW o \in Orders, UserCancel(o)
      PROVE  SnapInv'
  <2>1. /\ ord[o].st # "absent" /\ reg' = reg /\ sel' = sel
        /\ ord' = [ord EXCEPT ![o] = [st |-> "canceled", by |-> TRUE]]
        /\ pay' = [p \in Payments |->
                      IF p \in Live(pay, o) /\ pay[p].st \in {"created", "pending"}
                      THEN [pay[p] EXCEPT !.st = "canceled"] ELSE pay[p]]
    BY <1>8 DEF UserCancel
  <2>2. /\ ord' \in [Orders -> OrderRow]
        /\ \A x \in Orders : ord[x].st # "absent" => ord'[x].st # "absent"
    BY <1>1, <2>1 DEF OrderRow, OrderStatuses
  <2>3. ASSUME NEW q \in Payments
        PROVE  \/ pay'[q] = pay[q]
               \/ pay'[q] = [pay[q] EXCEPT !.st = "canceled"] /\ pay[q].st # "absent"
    BY <2>1 DEF Live
  <2>4. pay' \in Tables
    BY <1>1, <2>1 DEF Tables, PayRow, PayStatuses
  <2>5. ASSUME NEW q \in Payments, pay'[q] # pay[q]
        PROVE  /\ pay[q].st # "absent" /\ pay'[q].st = "canceled"
               /\ pay'[q].of = pay[q].of /\ pay'[q].rail = pay[q].rail
               /\ pay'[q].gross = pay[q].gross /\ pay'[q].seq = pay[q].seq
    BY <1>1, <2>3, <2>5 DEF PayRow
  <2>6. Decides
    BY <1>1, <2>1, <2>2, <2>4, <2>5 DEF Decides
  <2>7. \A q \in Payments : pay'[q].st = "success" => pay[q].st = "success"
    BY <2>5
  <2> QED BY <1>5, <2>6, <2>7
<1> QED BY <1>6, <1>7, <1>8

-----------------------------------------------------------------------------
(* No bill has been asked for yet.                                         *)
LEMMA InitSnapInv == InitSnap => SnapInv
<1> SUFFICES ASSUME InitSnap PROVE SnapInv
  OBVIOUS
<1>1. PICK s \in Openings : ord = s.ord /\ pay = s.pay /\ reg = s.reg /\ sel = s.sel
  BY DEF InitSnap, Init
<1>2. /\ ord \in [Orders -> OrderRow] /\ pay \in [Payments -> PayRow]
      /\ reg \in [Regs -> RegStatuses]
      /\ sel \in [Regs -> [Packages -> Orders \cup {0}]]
      /\ Linked(ord, pay)
  BY <1>1, LegalOpenings
<1>3. \A p \in Payments : pay[p].st # "absent" =>
        pay[p].st # "success" /\ pay[p].gross <= Total[pay[p].of]
  BY <1>1, SnapOpenings
<1>4. calls = {} /\ found = {} /\ leaving = {} /\ mtSeen = {}
  BY DEF InitSnap, Init
<1>5. /\ bill = [b \in Bills |-> NoBill] /\ call = {}
      /\ named = [p \in Payments |-> 0] /\ bound = FALSE /\ shown = {}
  BY DEF InitSnap
<1>6. TypeOK /\ RowsLinked
  BY <1>2, <1>4 DEF TypeOK, RowsLinked
<1>7. /\ NoBill \in BillRow /\ NoBill.st = "none" /\ NoBill.row = 0
      /\ \A b \in Bills : bill[b] = NoBill
  BY <1>5 DEF NoBill, BillRow, BillStatuses, Products, Doors
<1>8. TypeOKSnap
  BY <1>5, <1>6, <1>7 DEF TypeOKSnap
<1>9. BillRows /\ CallsOnce /\ NamedRows /\ WithinTotal /\ SettledTold
  BY <1>3, <1>5, <1>7 DEF BillRows, CallsOnce, NamedRows, WithinTotal, SettledTold
<1>10. OneInvoice
  <2>1. \A p \in Payments : ~Chosen(p)
    BY <1>7, RowIds DEF Chosen
  <2> QED BY <2>1 DEF OneInvoice, Undecided, Live
<1> QED BY <1>6, <1>8, <1>9, <1>10 DEF SnapInv

(* Every step of the rails keeps it.                                       *)
LEMMA NextSnapInv == SnapInv /\ [NextSnap]_snapVars => SnapInv'
<1> SUFFICES ASSUME SnapInv, [NextSnap]_snapVars PROVE SnapInv'
  OBVIOUS
<1>1. ASSUME NEW b \in Bills, NEW o \in Orders, NEW p \in Payments,
             (\E product \in Products : ChooseMethod(b, o, p, product)) \/ AskVa(b, o, p)
      PROVE  SnapInv'
  BY <1>1, ChooseMethodKeeps, AskVaKeeps
<1>2. ASSUME NEW b \in Bills, NEW o \in Orders,
             (\E i \in 1 .. SegmentCount(o) : AskQris(b, o, i)) \/ AskDebit(b, o)
      PROVE  SnapInv'
  BY <1>2, AskQrisKeeps, AskDebitKeeps
<1>3. ASSUME NEW b \in Bills, NEW p \in Payments,
             Answer(b, p) \/ HearSettled(b, p) \/ HearEnded(b, p)
      PROVE  SnapInv'
  BY <1>3, AnswerKeeps, HearKeeps
<1>4. ASSUME \/ \E b \in Bills : AnswerLost(b) \/ BillOpens(b) \/ CustomerSettles(b)
             \/ \E p \in Payments : VerifyOtp(p)
             \/ Bind \/ UNCHANGED snapVars
      PROVE  SnapInv'
  BY <1>4, DokuSteps
<1>5. ASSUME UNCHANGED snap,
             \/ \E p \in Payments : AdminCancel(p) \/ AdminDelete(p)
             \/ \E o \in Orders : UserCancel(o)
      PROVE  SnapInv'
  BY <1>5, CommandsKeep
<1> QED BY <1>1, <1>2, <1>3, <1>4, <1>5 DEF NextSnap

(* SnapInv holds in every reachable state.                                 *)
THEOREM SnapInvariant == SpecSnap => []SnapInv
BY InitSnapInv, NextSnapInv, PTL DEF SpecSnap

(* Bills, calls and the accounts rows store are well typed.                *)
THEOREM SnapTypes == SpecSnap => []TypeOKSnap
<1>1. SnapInv => TypeOKSnap
  BY DEF SnapInv
<1> QED BY <1>1, SnapInvariant, PTL

(* The checkout by method never has two undecided rows of its own on one   *)
(* order, but where a late answer has reopened a closed one                *)
(* (create_payment of doku_order.py).                                      *)
THEOREM OneInvoiceAtATime == SpecSnap => []OneInvoice
<1>1. SnapInv => OneInvoice
  BY DEF SnapInv
<1> QED BY <1>1, SnapInvariant, PTL

-----------------------------------------------------------------------------
(* The units of finitely many bills are finitely many.                     *)
LEMMA UnitsToldFinite ==
  ASSUME bill \in [Bills -> BillRow], NEW o \in Orders
  PROVE  IsFiniteSet(UnitsTold(o))
<1> DEFINE B == {c \in Bills : bill[c].of = o /\ bill[c].st = "told"}
           unit[b \in B] == {b} \X (1 .. bill[b].amount)
           Family == {unit[b] : b \in B}
<1>1. IsFiniteSet(B)
  BY FS_Subset, BillIds
<1>2. IsFiniteSet(Family)
  <2>1. unit \in Surjection(B, Family)
    BY DEF Surjection
  <2> QED BY <1>1, <2>1, FS_Surjection
<1>3. ASSUME NEW b \in B PROVE IsFiniteSet(unit[b])
  <2>1. bill[b].amount \in Nat
    BY DEF BillRow
  <2>2. unit[b] = {b} \X (1 .. bill[b].amount)
    OBVIOUS
  <2> HIDE DEF unit
  <2>3. IsFiniteSet(1 .. bill[b].amount)
    BY <2>1, IntervalSize
  <2>4. IsFiniteSet({b})
    BY FS_Singleton
  <2>5. IsFiniteSet({b} \X (1 .. bill[b].amount))
    BY <2>3, <2>4, FS_Product
  <2> QED BY <2>2, <2>5
<1>4. \A T \in Family : IsFiniteSet(T)
  BY <1>3
<1>5. IsFiniteSet(UNION Family)
  BY <1>2, <1>4, FS_UNION
<1>6. UnitsTold(o) = UNION Family
  BY DEF UnitsTold
<1> QED BY <1>5, <1>6

(* Each unit of a counted row is a unit of its own announced bill.         *)
LEMMA CreditHasBills == SnapInv => CreditIsSettled
<1> SUFFICES ASSUME SnapInv, NEW o \in Orders
             PROVE  Collected(pay, o) <= Cardinality(UnitsTold(o))
  BY DEF CreditIsSettled
<1>1. /\ SettledTold /\ BillRows /\ pay \in Tables /\ pay \in [Payments -> PayRow]
      /\ bill \in [Bills -> BillRow] /\ 0 \notin Payments
  BY RowIds DEF SnapInv, TypeOKSnap, TypeOK, Tables
<1> DEFINE S == Counted(pay, o)
           U == Units(pay, S)
           its(p, b) == /\ bill[b].row = p /\ bill[b].st = "told"
                        /\ pay[p].gross <= bill[b].amount
           of[p \in Payments] == CHOOSE b \in Bills : its(p, b)
           f == [u \in U |-> <<of[u[1]], u[2]>>]
<1>2. \A p \in S : p \in Payments /\ pay[p].st = "success" /\ pay[p].of = o
  BY DEF Counted, Settled
<1>3. \A p \in S : of[p] \in Bills /\ its(p, of[p])
  BY <1>1, <1>2 DEF SettledTold
<1>4. \A u \in U : u[1] \in S /\ u[2] \in 1 .. pay[u[1]].gross /\ u = <<u[1], u[2]>>
  BY DEF Units
<1> HIDE DEF S, of
<1>5. ASSUME NEW p \in S
      PROVE  bill[of[p]].of = o /\ pay[p].gross \in Nat /\ bill[of[p]].amount \in Nat
  <2>1. of[p] \in Bills /\ bill[of[p]].row = p /\ p # 0
    BY <1>1, <1>2, <1>3
  <2>2. bill[of[p]].of = o
    BY <1>1, <1>2, <2>1 DEF BillRows
  <2>3. bill[of[p]] \in BillRow /\ pay[p] \in PayRow
    BY <1>1, <1>2, <2>1
  <2> QED BY <2>2, <2>3 DEF BillRow, PayRow
<1>6. ASSUME NEW u \in U
      PROVE  f[u] \in UnitsTold(o)
  <2>1. u[1] \in S /\ u[2] \in 1 .. bill[of[u[1]]].amount
    BY <1>3, <1>5, <1>4
  <2>2. f[u] = <<of[u[1]], u[2]>>
    OBVIOUS
  <2>3. f[u] \in {of[u[1]]} \X (1 .. bill[of[u[1]]].amount)
    BY <2>1, <2>2
  <2>4. of[u[1]] \in {c \in Bills : bill[c].of = o /\ bill[c].st = "told"}
    BY <2>1, <1>3, <1>5
  <2> QED BY <2>3, <2>4 DEF UnitsTold
<1>7. ASSUME NEW u \in U, NEW v \in U, f[u] = f[v]
      PROVE  u = v
  <2>1. of[u[1]] = of[v[1]] /\ u[2] = v[2]
    BY <1>7
  <2>2. u[1] = bill[of[u[1]]].row /\ v[1] = bill[of[v[1]]].row
    BY <1>3, <1>4
  <2> QED BY <2>1, <2>2, <1>4
<1>8. f \in Injection(U, UnitsTold(o))
  <2>1. f \in [U -> UnitsTold(o)]
    BY <1>6
  <2> HIDE DEF U, f
  <2> QED BY <2>1, <1>7 DEF Injection, IsInjective
<1>9. IsFiniteSet(UnitsTold(o))
  BY <1>1, UnitsToldFinite
<1> HIDE DEF U, f
<1>10. Cardinality(U) <= Cardinality(UnitsTold(o))
  BY <1>8, <1>9, FS_Injection
<1> QED BY <1>10 DEF U, S, Collected

(* Nothing an order has collected was not settled at DOKU in its name,     *)
(* whatever row a request takes over and however late its answer.          *)
THEOREM CreditWasSettled == SpecSnap => []CreditIsSettled
BY SnapInvariant, CreditHasBills, PTL

-----------------------------------------------------------------------------
(***************************************************************************)
(* Inquiries. On an order none of whose answers came late, the rows that   *)
(* may still be paid are compared with what remains.                       *)
(***************************************************************************)

Prompt(o) == \A b \in Bills : bill[b].of = o => ~bill[b].late

Waiting(b) == \E c \in call : c[1] = b

(* A notification of bill b can still settle row p.                        *)
Owes(b, p) ==
  /\ bill[b].row = p /\ bill[b].product # "qris" /\ bill[b].st \notin {"ended", "told"}
  /\ named[p] = b \/ (pay[p].st = "created" /\ Waiting(b))

Payable(o) == {p \in Live(pay, o) : pay[p].st # "success" /\ \E b \in Bills : Owes(b, p)}

(* ... or a direct debit may take it over.                                 *)
Candidates(o) ==
  Payable(o) \cup {p \in Live(pay, o) : pay[p].st = "created" /\ pay[p].rail # "qris"}

(* Rows that a bank may be asked about.                                    *)
Numbered(o) ==
  {p \in Payable(o) \cap Undecided(o) : \E b \in Bills : Owes(b, p) /\ bill[b].product = "va"}

(* How the rows A, B and C of an order (numbered, payable, candidates), of *)
(* which U are undecided, and S, the settled ones, compare with what       *)
(* remains.                                                                *)
Fits(P, A, B, C, U, S, left, closed, money) ==
  /\ \A p \in A : P[p].gross <= left \/ left = 0
  /\ \A p \in A : \A q \in C \ {p} : P[q].gross >= left
  /\ \A p \in B \ U : P[p].gross >= left \/ closed
  /\ \A p \in B, q \in C : p < q =>
       P[q].gross >= left /\ (P[p].gross >= left \/ P[q].seq = 0)
  /\ money => \A p \in B : P[p].gross >= left
  /\ \A p \in B : \A q \in B \cup S :
       p < q /\ P[p].seq = P[q].seq /\ P[p].seq # 0 => P[p].gross >= P[q].gross
  /\ \A p \in B, q \in S : P[p].seq = P[q].seq /\ P[p].seq # 0 => left = 0

(* What is asked of a row p that becomes numbered, payable, a candidate.   *)
Numbers(P, p, A, A2, C2, left) ==
  p \in A2 \ A => /\ P[p].gross <= left \/ left = 0
                  /\ \A q \in C2 \ {p} : P[q].gross >= left

Follows(P, p, B, C, C2, left) ==
  p \in C2 \ C => \A q \in B :
    P[p].gross >= left /\ (P[q].gross >= left \/ P[p].seq = 0)

Joins(P, p, B, C, S, B2, left, money) ==
  p \in B2 \ B =>
    /\ \A q \in C \cup S : q <= p
    /\ money => P[p].gross >= left
    /\ P[p].seq # 0 => P[p].gross <= left
    /\ \A q \in S : P[q].seq = P[p].seq /\ P[p].seq # 0 => left = 0

RowsFit(o) ==
  Fits(pay, Numbered(o), Payable(o), Candidates(o), Undecided(o), Settled(pay, o),
       Remaining(pay, o), ord[o].st = "canceled", Paid(pay, o) > 0)

(* The status of the order says what settled money says.                   *)
OrderTells(o) ==
  /\ Exists(o) => (ord[o].st = "paid" <=> Covered(pay, o))
  /\ Paid(pay, o) > 0 => ord[o].st \in {"paid", "partially_paid"}

RailsMatch(o) ==
  \A p \in Payments : pay[p].of = o /\ named[p] # 0 =>
    pay[p].rail = RailOf(bill[named[p]].product)

ToldArePaid(o) ==
  \A b \in Bills : bill[b].of = o /\ bill[b].st = "told" =>
    bill[b].row # 0 /\ pay[bill[b].row].st = "success"

PromptOrders ==
  \A o \in Orders : Prompt(o) => OrderTells(o) /\ RailsMatch(o) /\ ToldArePaid(o) /\ RowsFit(o)

(* Rows are numbered in the order of their insertion; ...                  *)
RowsInOrder ==
  \A p, q \in Payments : q < p /\ pay[p].st # "absent" => pay[q].st # "absent"

(* ... a segment has an amount; ...                                        *)
SegmentsCharge ==
  /\ \A p \in Payments : pay[p].st # "absent" /\ pay[p].seq # 0 =>
       pay[p].gross > 0 \/ Total[pay[p].of] = 0
  /\ \A b \in Bills : bill[b].st # "none" /\ bill[b].row = 0 =>
       \/ bill[b].product = "qris" /\ (bill[b].amount > 0 \/ Total[bill[b].of] = 0)
       \/ bill[b].product = "debit" /\ bill[b].amount = Total[bill[b].of] /\ bill[b].seq = 0

(* ... a chosen row names its bill before the answer, but for an account;  *)
(* and only cards and codes end.                                           *)
BillsNamed ==
  \A b \in Bills :
    /\ /\ Waiting(b) /\ bill[b].door = "method" /\ bill[b].product # "va"
       /\ pay[bill[b].row].st = "created" /\ ~pay[bill[b].row].del
       => named[bill[b].row] = b
    /\ bill[b].st = "ended" => bill[b].product \in {"card", "qris"}

InquiryInv == RowsInOrder /\ SegmentsCharge /\ BillsNamed /\ PromptOrders
-----------------------------------------------------------------------------
(* Rows compare with what remains by their amounts and sequences.          *)
LEMMA FitsSame ==
  ASSUME NEW P, NEW Q, NEW A, NEW B, NEW C, NEW U, NEW S, NEW left, NEW closed, NEW money,
         Fits(P, A, B, C, U, S, left, closed, money),
         \A p \in A \cup B \cup C \cup S : Q[p].gross = P[p].gross /\ Q[p].seq = P[p].seq
  PROVE  Fits(Q, A, B, C, U, S, left, closed, money)
BY DEF Fits

(* A row that joins the payable ones is the latest, and asks for all that  *)
(* remains wherever another could be paid beside it; others leave.         *)
LEMMA JoinFits ==
  ASSUME NEW P \in Tables, NEW p,
         NEW A \in SUBSET Payments, NEW B \in SUBSET Payments, NEW C \in SUBSET Payments,
         NEW S \in SUBSET Payments, NEW U, NEW U2,
         NEW A2 \in SUBSET Payments, NEW B2 \in SUBSET Payments, NEW C2 \in SUBSET Payments,
         NEW left \in Nat, NEW closed \in BOOLEAN, NEW closed2 \in BOOLEAN, NEW money \in BOOLEAN,
         Fits(P, A, B, C, U, S, left, closed, money),
         A \subseteq B, B \subseteq C, B2 \subseteq C2,
         A2 \subseteq A \cup {p}, B2 \subseteq B \cup {p}, C2 \subseteq C \cup {p},
         closed => closed2 \/ money,
         \A q \in B2 \ U2 : q \in B \ U \/ closed2 \/ money,
         Numbers(P, p, A, A2, C2, left), Follows(P, p, B, C, C2, left),
         Joins(P, p, B, C, S, B2, left, money)
  PROVE  Fits(P, A2, B2, C2, U2, S, left, closed2, money)
<1>1. \A q \in Payments : q \in Nat /\ P[q].gross \in Nat /\ P[q].seq \in Nat
  BY RowIds DEF Tables, PayRow
<1>2. p \in B2 \ B => \A q \in B : P[p].gross >= left /\ (P[q].gross >= left \/ P[p].seq = 0)
  <2> SUFFICES ASSUME p \in B2 \ B, NEW q \in B
               PROVE  P[p].gross >= left /\ (P[q].gross >= left \/ P[p].seq = 0)
    OBVIOUS
  <2>1. CASE p \in C
    <3>1. q <= p /\ q # p /\ q \in C /\ q \in Payments /\ p \in Payments
      BY DEF Joins
    <3>2. q < p
      BY <3>1, <1>1
    <3> QED BY <2>1, <3>2 DEF Fits
  <2>2. CASE p \notin C
    BY <2>2 DEF Follows
  <2> QED BY <2>1, <2>2
<1>3. \A q \in A2 : P[q].gross <= left \/ left = 0
  BY DEF Fits, Numbers
<1>4. \A q \in A2 : \A r \in C2 \ {q} : P[r].gross >= left
  <2> SUFFICES ASSUME NEW q \in A2, NEW r \in C2 \ {q} PROVE P[r].gross >= left
    OBVIOUS
  <2>1. CASE q \in A /\ r \in C
    BY <2>1 DEF Fits
  <2>2. CASE q \notin A
    BY <2>2 DEF Numbers
  <2>3. CASE q \in A /\ r \notin C
    BY <2>3 DEF Follows
  <2> QED BY <2>1, <2>2, <2>3
<1>5. \A q \in B2 \ U2 : P[q].gross >= left \/ closed2
  BY DEF Fits, Joins
<1>6. \A q \in B2, r \in C2 : q < r => P[r].gross >= left /\ (P[q].gross >= left \/ P[r].seq = 0)
  <2> SUFFICES ASSUME NEW q \in B2, NEW r \in C2, q < r
               PROVE  P[r].gross >= left /\ (P[q].gross >= left \/ P[r].seq = 0)
    OBVIOUS
  <2>1. CASE q \in B /\ r \in C
    BY <2>1 DEF Fits
  <2>2. CASE q \in B /\ r \notin C
    BY <2>2 DEF Follows
  <2>3. CASE q \notin B
    <3>1. q = p /\ r \in C /\ r <= p
      BY <2>3, <1>1 DEF Joins
    <3> QED BY <3>1, <1>1
  <2> QED BY <2>1, <2>2, <2>3
<1>7. money => \A q \in B2 : P[q].gross >= left
  BY DEF Fits, Joins
<1>8. \A q \in B2 : \A r \in B2 \cup S :
        q < r /\ P[q].seq = P[r].seq /\ P[q].seq # 0 => P[q].gross >= P[r].gross
  <2> SUFFICES ASSUME NEW q \in B2, NEW r \in B2 \cup S,
                      q < r, P[q].seq = P[r].seq, P[q].seq # 0
               PROVE  P[q].gross >= P[r].gross
    OBVIOUS
  <2>1. CASE q \in B /\ r \in B \cup S
    BY <2>1 DEF Fits
  <2>2. CASE q \in B /\ r \notin B \cup S
    <3>1. r = p /\ p \in B2 \ B
      BY <2>2
    <3>2. P[q].gross >= left /\ P[r].gross <= left
      BY <2>2, <3>1, <1>2 DEF Joins
    <3>3. P[q].gross \in Nat /\ P[r].gross \in Nat
      BY <3>1, <1>1
    <3> QED BY <3>2, <3>3
  <2>3. CASE q \notin B
    <3>1. q = p /\ r \in C \cup S /\ r <= p
      BY <2>3, <1>1 DEF Joins
    <3> QED BY <3>1, <1>1
  <2> QED BY <2>1, <2>2, <2>3
<1>9. \A q \in B2, r \in S : P[q].seq = P[r].seq /\ P[q].seq # 0 => left = 0
  BY DEF Fits, Joins
<1> QED BY <1>3, <1>4, <1>5, <1>6, <1>7, <1>8, <1>9 DEF Fits

(* A payable row that settles leaves no less to be paid than it should.    *)
LEMMA SettleFits ==
  ASSUME NEW P \in Tables, NEW p \in Payments,
         NEW A \in SUBSET Payments, NEW B \in SUBSET Payments, NEW C \in SUBSET Payments,
         NEW S \in SUBSET Payments, NEW U, NEW U2, NEW S2,
         NEW A2 \in SUBSET Payments, NEW B2 \in SUBSET Payments, NEW C2 \in SUBSET Payments,
         NEW left \in Nat, NEW closed \in BOOLEAN, NEW closed2 \in BOOLEAN,
         NEW left2 \in Nat, NEW money \in BOOLEAN, NEW money2 \in BOOLEAN,
         Fits(P, A, B, C, U, S, left, closed, money),
         p \in B, B \subseteq C, S2 \subseteq S \cup {p},
         A2 \subseteq A \ {p}, B2 \subseteq B \ {p}, C2 \subseteq C \ {p}, A \subseteq B,
         closed => closed2 \/ money2,
         \A q \in B2 \ U2 : q \in B \ U,
         left2 <= left, P[p].gross >= left => left2 = 0
  PROVE  Fits(P, A2, B2, C2, U2, S2, left2, closed2, money2)
<1>1. \A q \in Payments : q \in Nat /\ P[q].gross \in Nat /\ P[q].seq \in Nat
  BY RowIds DEF Tables, PayRow
<1>2. ASSUME NEW q \in Payments, P[q].gross >= left
      PROVE  P[q].gross >= left2
  BY <1>1, <1>2
<1>3. ASSUME NEW q \in B2
      PROVE  /\ left2 = 0 \/ P[q].gross >= left2
             /\ P[q].seq = P[p].seq /\ P[q].seq # 0 => left2 = 0
  <2>1. q \in B /\ q \in C /\ p \in C /\ (q < p \/ p < q)
    BY <1>1
  <2>2. CASE q < p
    <3>1. P[p].gross >= left
      BY <2>1, <2>2 DEF Fits
    <3> QED BY <3>1
  <2>3. CASE p < q
    <3>1. P[q].gross >= left /\ (P[p].gross >= left \/ P[q].seq = 0)
      BY <2>1, <2>3 DEF Fits
    <3> QED BY <3>1, <1>2
  <2> QED BY <2>1, <2>2, <2>3
<1>4. \A q \in A2 : left2 = 0
  <2> SUFFICES ASSUME NEW q \in A2 PROVE left2 = 0
    OBVIOUS
  <2>1. q \in A /\ p \in C \ {q}
    OBVIOUS
  <2>2. P[p].gross >= left
    BY <2>1 DEF Fits
  <2> QED BY <2>2
<1>5. \A q \in A2 : \A r \in C2 \ {q} : P[r].gross >= left2
  BY <1>1, <1>4
<1>6. \A q \in B2 : P[q].gross >= left2
  BY <1>1, <1>3
<1>7. \A q \in B2, r \in C2 : q < r => P[r].gross >= left2 /\ (P[q].gross >= left2 \/ P[r].seq = 0)
  <2> SUFFICES ASSUME NEW q \in B2, NEW r \in C2, q < r PROVE P[r].gross >= left2
    BY <1>6
  <2>1. P[r].gross >= left
    BY DEF Fits
  <2> QED BY <2>1, <1>2
<1>8. \A q \in B2 : \A r \in B2 \cup S2 :
        q < r /\ P[q].seq = P[r].seq /\ P[q].seq # 0 => P[q].gross >= P[r].gross
  <2>1. B2 \subseteq B /\ B2 \cup S2 \subseteq B \cup S
    OBVIOUS
  <2> QED BY <2>1 DEF Fits
<1>9. \A q \in B2, r \in S2 : P[q].seq = P[r].seq /\ P[q].seq # 0 => left2 = 0
  <2> SUFFICES ASSUME NEW q \in B2, NEW r \in S2, P[q].seq = P[r].seq, P[q].seq # 0
               PROVE  left2 = 0
    OBVIOUS
  <2>1. CASE r = p
    BY <2>1, <1>3
  <2>2. CASE r # p
    <3>1. left = 0
      BY <2>2 DEF Fits
    <3> QED BY <3>1
  <2> QED BY <2>1, <2>2
<1> QED BY <1>4, <1>5, <1>6, <1>7, <1>8, <1>9 DEF Fits

(* What a settling row takes off: its amount, unless its sequence had been *)
(* settled, and then nothing was left.                                     *)
LEMMA SettlingPays ==
  ASSUME NEW P \in Tables, NEW Q \in Tables, NEW o \in Orders, NEW p \in Payments,
         p \notin Settled(P, o), Settled(Q, o) = Settled(P, o) \cup {p},
         \A q \in Settled(P, o) : Q[q] = P[q],
         Q[p].gross = P[p].gross, Q[p].seq = P[p].seq,
         \A q \in Settled(P, o) : P[q].seq = P[p].seq /\ P[p].seq # 0 =>
           /\ Remaining(P, o) = 0
           /\ p < q => P[p].gross >= P[q].gross
  PROVE  /\ Remaining(Q, o) <= Remaining(P, o)
         /\ P[p].gross >= Remaining(P, o) => Remaining(Q, o) = 0
<1>1. /\ Collected(P, o) \in Nat /\ Collected(Q, o) \in Nat /\ Total[o] \in Nat
      /\ Paid(P, o) \in 0 .. Total[o] /\ Paid(Q, o) \in 0 .. Total[o]
      /\ P[p].gross \in Nat
  BY PaidBounds DEF Tables, PayRow
<1>2. CASE \A q \in Settled(P, o) : P[q].seq = P[p].seq => P[p].seq = 0
  <2>1. Counted(Q, o) = Counted(P, o) \cup {p}
    <3>1. \A q \in Settled(P, o) : q # p /\ Q[q].seq = P[q].seq
      OBVIOUS
    <3>2. p \in Counted(Q, o)
      <4>1. \A q \in Settled(Q, o) : q = p \/ (Q[q].seq = Q[p].seq => Q[p].seq = 0)
        BY <1>2, <3>1
      <4>2. p \in Nat
        BY RowIds
      <4> QED BY <4>1, <4>2 DEF Counted
    <3>3. \A q \in Settled(P, o) : q \in Counted(Q, o) <=> q \in Counted(P, o)
      BY <1>2, <3>1 DEF Counted
    <3> QED BY <3>2, <3>3 DEF Counted
  <2>2. Counted(P, o) \in SUBSET Payments /\ p \notin Counted(P, o)
    BY DEF Counted, Settled
  <2>3. Units(Q, Counted(P, o)) = Units(P, Counted(P, o))
    <3>1. \A q \in Counted(P, o) : Q[q].gross = P[q].gross
      BY DEF Counted
    <3> QED BY <3>1, UnitsSame
  <2>4. Collected(Q, o) = Collected(P, o) + P[p].gross
    BY <2>1, <2>2, <2>3, UnitsAdd DEF Collected
  <2> QED BY <1>1, <2>4 DEF Remaining, Paid, Min2
<1>3. CASE ~ \A q \in Settled(P, o) : P[q].seq = P[p].seq => P[p].seq = 0
  <2>1. Remaining(P, o) = 0
    BY <1>3
  <2>2. ~Undercut(Q, P, o)
    <3> SUFFICES ASSUME NEW q \in Settled(P, o), NEW r \in Settled(Q, o) \ Settled(P, o),
                        r < q, P[q].seq # 0, Q[r].seq = P[q].seq, Q[r].gross < P[q].gross
                 PROVE  FALSE
      BY DEF Undercut
    <3>1. r = p /\ P[q].gross \in Nat
      BY DEF Settled, Tables, PayRow
    <3>2. P[p].gross >= P[q].gross
      BY <3>1
    <3> QED BY <1>1, <3>1, <3>2
  <2>3. Paid(P, o) <= Paid(Q, o)
    BY <2>2, NoLess
  <2> QED BY <1>1, <2>1, <2>3 DEF Remaining
<1> QED BY <1>2, <1>3

(* A settled row with an amount is money.                                  *)
LEMMA SettledPays ==
  ASSUME NEW P \in Tables, NEW o \in Orders, Total[o] # 0, NEW p \in Settled(P, o),
         P[p].seq # 0,
         \A q \in Settled(P, o) : P[q].seq # 0 => P[q].gross > 0
  PROVE  Paid(P, o) > 0
<1> DEFINE Same == {q \in Settled(P, o) : P[q].seq = P[p].seq}
<1>1. Same \in SUBSET Nat /\ p \in Same
  BY RowIds DEF Settled
<1>2. PICK r \in Same : \A q \in Same : r <= q
  BY <1>1, NatLeast
<1>3. r \in Counted(P, o) /\ r \in Payments /\ P[r].gross > 0 /\ P[r].gross \in Nat
  BY <1>2 DEF Counted, Settled, Tables, PayRow
<1>4. Cardinality(Units(P, {r})) <= Cardinality(Units(P, Counted(P, o)))
  <2>1. Counted(P, o) \in SUBSET Payments /\ {r} \in SUBSET Counted(P, o)
    BY <1>3 DEF Counted, Settled
  <2> QED BY <2>1, UnitsMonotone
<1>5. Collected(P, o) > 0
  <2>1. Cardinality(Units(P, {r})) = P[r].gross
    BY <1>3, UnitsOne
  <2>2. Collected(P, o) = Cardinality(Units(P, Counted(P, o))) /\ Collected(P, o) \in Nat
    BY PaidBounds DEF Collected
  <2> QED BY <1>3, <1>4, <2>1, <2>2
<1> QED BY <1>5, PaidBounds DEF Paid, Min2

-----------------------------------------------------------------------------
(* Row q stays as it is or closes, and nobody owes it more than before.    *)
Falls(q) ==
  /\ \A b \in Bills : Owes(b, q)' => Owes(b, q) /\ bill'[b].product = bill[b].product
  /\ pay'[q] = pay[q] \/
       /\ pay[q].st \notin {"absent", "success"}
       /\ pay'[q].of = pay[q].of /\ pay'[q].rail = pay[q].rail
       /\ pay[q].del => pay'[q].del
       /\ pay'[q].del \/ pay'[q].st \notin {"created", "pending"}

(* What a row keeps for ever.                                              *)
SeqsStay ==
  \A q \in Payments : pay[q].st # "absent" =>
    pay'[q].gross = pay[q].gross /\ pay'[q].seq = pay[q].seq

(* Such a row joins nothing.                                               *)
LEMMA RowFalls ==
  ASSUME NEW q \in Payments, Falls(q), NEW o
  PROVE  /\ q \in Payable(o)' => q \in Payable(o)
         /\ q \in Candidates(o)' => q \in Candidates(o)
         /\ q \in Numbered(o)' => q \in Numbered(o)
         /\ q \in Undecided(o)' => q \in Undecided(o)
<1>1. q \in Live(pay, o)' => q \in Live(pay, o)
  BY DEF Live, Falls
<1>2. q \in Undecided(o)' => q \in Undecided(o)
  BY DEF Undecided, Live, Falls
<1>3. q \in Payable(o)' => q \in Payable(o)
  BY <1>1 DEF Payable, Falls
<1>4. q \in Candidates(o)' => q \in Candidates(o)
  BY <1>1, <1>3 DEF Candidates, Falls, Live
<1>5. q \in Numbered(o)' => q \in Numbered(o)
  BY <1>2, <1>3 DEF Numbered, Falls
<1> QED BY <1>2, <1>3, <1>4, <1>5

(* The rows of an order fit after a step that settles none of them and     *)
(* lets row p join at most.                                                *)
LEMMA FitKeeps ==
  ASSUME SnapInv, SnapInv', SeqsStay, NEW o \in Orders, RowsFit(o), NEW p,
         Settled(pay', o) = Settled(pay, o),
         Payable(o)' \subseteq Payable(o) \cup {p},
         Candidates(o)' \subseteq Candidates(o) \cup {p},
         Numbered(o)' \subseteq Numbered(o) \cup {p},
         ord[o].st = "canceled" => ord'[o].st = "canceled" \/ Paid(pay, o) > 0,
         \A q \in Payable(o)' \ Undecided(o)' :
           q \in Payable(o) \ Undecided(o) \/ ord'[o].st = "canceled" \/ Paid(pay, o) > 0,
         Numbers(pay', p, Numbered(o), Numbered(o)', Candidates(o)', Remaining(pay, o)),
         Follows(pay', p, Payable(o), Candidates(o), Candidates(o)', Remaining(pay, o)),
         Joins(pay', p, Payable(o), Candidates(o), Settled(pay, o), Payable(o)',
               Remaining(pay, o), Paid(pay, o) > 0)
  PROVE  RowsFit(o)'
<1> DEFINE A == Numbered(o)
           B == Payable(o)
           C == Candidates(o)
           U == Undecided(o)
           S == Settled(pay, o)
           left == Remaining(pay, o)
           money == Paid(pay, o) > 0
           closed == ord[o].st = "canceled"
<1>1. pay \in Tables /\ pay' \in Tables
  BY DEF SnapInv, TypeOKSnap, TypeOK, Tables
<1>2. left \in Nat
  BY <1>1, PaidBounds
<1>3. /\ A \in SUBSET Payments /\ B \in SUBSET Payments /\ C \in SUBSET Payments
      /\ S \in SUBSET Payments /\ A \subseteq B /\ B \subseteq C
      /\ \A q \in C \cup S : pay[q].st # "absent"
  BY DEF Numbered, Payable, Candidates, Settled, Live
<1>4. /\ A' \in SUBSET Payments /\ B' \in SUBSET Payments /\ C' \in SUBSET Payments
      /\ B' \subseteq C'
  BY DEF Numbered, Payable, Candidates, Settled, Live
<1>5. Paid(pay', o) = Paid(pay, o) /\ Remaining(pay', o) = Remaining(pay, o)
  BY <1>3, SameSettled DEF SeqsStay
<1>6. Fits(pay, A, B, C, U, S, left, closed, money)
  BY DEF RowsFit
<1>7. Fits(pay', A, B, C, U, S, left, closed, money)
  <2>1. \A q \in A \cup B \cup C \cup S : pay'[q].gross = pay[q].gross /\ pay'[q].seq = pay[q].seq
    BY <1>3 DEF SeqsStay
  <2> HIDE DEF A, B, C, U, S, left, money, closed
  <2> QED BY <1>6, <2>1, FitsSame
<1>8. /\ money \in BOOLEAN /\ closed \in BOOLEAN /\ closed' \in BOOLEAN
      /\ closed => closed' \/ money
      /\ A' \subseteq A \cup {p} /\ B' \subseteq B \cup {p} /\ C' \subseteq C \cup {p}
      /\ \A q \in B' \ U' : q \in B \ U \/ closed' \/ money
      /\ Numbers(pay', p, A, A', C', left)
      /\ Follows(pay', p, B, C, C', left)
      /\ Joins(pay', p, B, C, S, B', left, money)
  OBVIOUS
<1>9. Fits(pay', A', B', C', U', S, left, closed', money)
  <2> HIDE DEF A, B, C, U, S, left, money, closed
  <2> QED BY <1>1, <1>2, <1>3, <1>4, <1>7, <1>8, JoinFits
<1> QED BY <1>5, <1>9 DEF RowsFit

(* They fit after a step that lets none of them join.                      *)
LEMMA FitFalls ==
  ASSUME SnapInv, SnapInv', SeqsStay, NEW o \in Orders, RowsFit(o),
         Settled(pay', o) = Settled(pay, o),
         Payable(o)' \subseteq Payable(o), Candidates(o)' \subseteq Candidates(o),
         Numbered(o)' \subseteq Numbered(o),
         ord[o].st = "canceled" => ord'[o].st = "canceled" \/ Paid(pay, o) > 0,
         \A q \in Payable(o)' \ Undecided(o)' :
           q \in Payable(o) \ Undecided(o) \/ ord'[o].st = "canceled" \/ Paid(pay, o) > 0
  PROVE  RowsFit(o)'
<1>1. /\ Numbers(pay', 0, Numbered(o), Numbered(o)', Candidates(o)', Remaining(pay, o))
      /\ Follows(pay', 0, Payable(o), Candidates(o), Candidates(o)', Remaining(pay, o))
      /\ Joins(pay', 0, Payable(o), Candidates(o), Settled(pay, o), Payable(o)',
               Remaining(pay, o), Paid(pay, o) > 0)
  BY DEF Numbers, Follows, Joins
<1> QED BY <1>1, FitKeeps

-----------------------------------------------------------------------------
(* The steps of DOKU, the bank and the commands                            *)

(* Row q stays, is closed, settled or deleted.                             *)
Moves(q) ==
  pay'[q] = pay[q] \/
    /\ pay[q].st \notin {"absent", "success"} /\ pay'[q].st # "absent"
    /\ pay'[q].of = pay[q].of /\ pay'[q].rail = pay[q].rail
    /\ pay'[q].gross = pay[q].gross /\ pay'[q].seq = pay[q].seq
    /\ pay[q].del => pay'[q].del
    /\ \/ pay'[q].st \notin {"created", "pending"}
       \/ pay'[q].del /\ pay'[q].st = pay[q].st

(* Bills that move on and rows that are decided leave everything but the   *)
(* order and its sums in agreement.                                        *)
LEMMA MovesKeep ==
  ASSUME SnapInv, InquiryInv, BillsStay, call' \subseteq call, named' = named,
         \A q \in Payments : Moves(q),
         \A b \in Bills : bill'[b].st = "told" =>
           bill[b].st = "told" \/ (bill[b].row # 0 /\ pay'[bill[b].row].st = "success"),
         \A b \in Bills : bill'[b].st = "ended" =>
           bill[b].st = "ended" \/ bill[b].product \in {"card", "qris"}
  PROVE  /\ RowsInOrder' /\ SegmentsCharge' /\ BillsNamed' /\ SeqsStay
         /\ \A o \in Orders : Prompt(o)' =>
              Prompt(o) /\ RailsMatch(o)' /\ ToldArePaid(o)'
         /\ \A q \in Payments : pay'[q].st # "success" \/ pay'[q] = pay[q] => Falls(q)
<1>1. /\ RowsInOrder /\ SegmentsCharge /\ BillsNamed /\ PromptOrders /\ BillRows
      /\ bill \in [Bills -> BillRow] /\ pay \in [Payments -> PayRow]
      /\ named \in [Payments -> Bills \cup {0}]
  BY DEF InquiryInv, SnapInv, TypeOKSnap, TypeOK
<1>2. \A q \in Payments : pay'[q].st = "absent" <=> pay[q].st = "absent"
  BY DEF Moves
<1>3. RowsInOrder'
  BY <1>1, <1>2 DEF RowsInOrder
<1>4. SeqsStay /\ \A q \in Payments : pay[q].st # "absent" => pay'[q].of = pay[q].of
  BY DEF Moves, SeqsStay
<1>5. SegmentsCharge'
  <2>1. ASSUME NEW q \in Payments, pay'[q].st # "absent", pay'[q].seq # 0
        PROVE  pay'[q].gross > 0 \/ Total[pay'[q].of] = 0
    BY <1>1, <1>2, <1>4, <2>1 DEF SegmentsCharge, SeqsStay
  <2>2. ASSUME NEW b \in Bills, bill'[b].st # "none", bill'[b].row = 0
        PROVE  \/ bill'[b].product = "qris" /\ (bill'[b].amount > 0 \/ Total[bill'[b].of] = 0)
               \/ bill'[b].product = "debit" /\ bill'[b].amount = Total[bill'[b].of] /\ bill'[b].seq = 0
    <3>1. /\ bill'[b].of = bill[b].of /\ bill'[b].product = bill[b].product
          /\ bill'[b].seq = bill[b].seq /\ bill'[b].amount = bill[b].amount
          /\ bill[b].row = 0 /\ bill[b].st # "none"
      BY <2>2 DEF BillsStay
    <3> QED BY <1>1, <3>1 DEF SegmentsCharge
  <2> QED BY <2>1, <2>2 DEF SegmentsCharge
<1>6. \A b \in Bills : Waiting(b)' => Waiting(b)
  BY DEF Waiting
<1>7. BillsNamed'
  <2> SUFFICES ASSUME NEW b \in Bills
               PROVE  /\ /\ Waiting(b)' /\ bill'[b].door = "method" /\ bill'[b].product # "va"
                         /\ pay'[bill'[b].row].st = "created" /\ ~pay'[bill'[b].row].del
                         => named'[bill'[b].row] = b
                      /\ bill'[b].st = "ended" => bill'[b].product \in {"card", "qris"}
    BY DEF BillsNamed
  <2>1. /\ bill'[b].row = bill[b].row /\ bill'[b].door = bill[b].door
        /\ bill'[b].product = bill[b].product
    BY DEF BillsStay
  <2>2. bill'[b].st = "ended" => bill'[b].product \in {"card", "qris"}
    BY <1>1, <2>1 DEF BillsNamed
  <2>3. ASSUME Waiting(b)', bill'[b].door = "method", bill'[b].product # "va",
               pay'[bill'[b].row].st = "created", ~pay'[bill'[b].row].del
        PROVE  named'[bill'[b].row] = b
    <3>1. bill[b].st # "none" /\ bill[b].row \in Payments
      <4>1. bill[b].st # "none"
        BY <1>6, <2>3 DEF Waiting, SnapInv, CallsOnce
      <4>2. bill[b].row # 0
        BY <1>1, <2>1, <2>3, <4>1 DEF BillRows
      <4> QED BY <1>1, <4>1, <4>2 DEF BillRow
    <3>2. pay'[bill[b].row] = pay[bill[b].row]
      BY <2>1, <2>3, <3>1 DEF Moves
    <3> QED BY <1>1, <1>6, <2>1, <2>3, <3>2 DEF BillsNamed
  <2> QED BY <2>2, <2>3
<1>8. ASSUME NEW o \in Orders, Prompt(o)'
      PROVE  Prompt(o) /\ RailsMatch(o)' /\ ToldArePaid(o)'
  <2>1. Prompt(o)
    BY <1>8 DEF Prompt, BillsStay
  <2>2. RailsMatch(o) /\ ToldArePaid(o)
    BY <1>1, <2>1 DEF PromptOrders
  <2>3. RailsMatch(o)'
    <3> SUFFICES ASSUME NEW q \in Payments, pay'[q].of = o, named'[q] # 0
                 PROVE  pay'[q].rail = RailOf(bill'[named'[q]].product)
      BY DEF RailsMatch
    <3>1. pay'[q].of = pay[q].of /\ pay'[q].rail = pay[q].rail
      BY DEF Moves
    <3>2. named[q] \in Bills /\ bill'[named[q]].product = bill[named[q]].product
      BY <1>1 DEF BillsStay
    <3> QED BY <2>2, <3>1, <3>2 DEF RailsMatch
  <2>4. ToldArePaid(o)'
    <3> SUFFICES ASSUME NEW b \in Bills, bill'[b].of = o, bill'[b].st = "told"
                 PROVE  bill'[b].row # 0 /\ pay'[bill'[b].row].st = "success"
      BY DEF ToldArePaid
    <3>1. bill'[b].of = bill[b].of /\ bill'[b].row = bill[b].row
      BY DEF BillsStay
    <3>2. CASE bill[b].st = "told"
      <4>1. bill[b].row # 0 /\ pay[bill[b].row].st = "success"
        BY <2>2, <3>1, <3>2 DEF ToldArePaid
      <4>2. bill[b].row \in Payments
        BY <1>1, <4>1 DEF BillRow
      <4> QED BY <3>1, <4>1, <4>2 DEF Moves
    <3>3. CASE bill[b].st # "told"
      BY <3>1, <3>3
    <3> QED BY <3>2, <3>3
  <2> QED BY <2>1, <2>3, <2>4
<1>9. ASSUME NEW q \in Payments, pay'[q].st # "success" \/ pay'[q] = pay[q]
      PROVE  Falls(q)
  <2>1. pay'[q].st = "created" => pay[q].st = "created"
    BY DEF Moves
  <2>2. ASSUME NEW b \in Bills, Owes(b, q)'
        PROVE  Owes(b, q) /\ bill'[b].product = bill[b].product
    <3>1. /\ bill'[b].row = q /\ bill'[b].product # "qris" /\ bill'[b].st \notin {"ended", "told"}
          /\ named[q] = b \/ (pay'[q].st = "created" /\ Waiting(b)')
      BY <2>2 DEF Owes
    <3>2. /\ bill[b].row = q /\ bill'[b].product = bill[b].product
          /\ bill[b].st \notin {"ended", "told"}
      BY <3>1 DEF BillsStay
    <3> QED BY <1>6, <2>1, <3>1, <3>2 DEF Owes
  <2>3. pay'[q] = pay[q] \/
          /\ pay[q].st \notin {"absent", "success"}
          /\ pay'[q].of = pay[q].of /\ pay'[q].rail = pay[q].rail
          /\ pay[q].del => pay'[q].del
          /\ pay'[q].del \/ pay'[q].st \notin {"created", "pending"}
    BY DEF Moves
  <2> QED BY <2>2, <2>3 DEF Falls
<1> QED BY <1>3, <1>4, <1>5, <1>7, <1>8, <1>9

(* An order keeps its status and its money, or follows the new money.      *)
OrderFollows(o) ==
  \/ ord'[o].st = ord[o].st /\ Settled(pay', o) = Settled(pay, o)
  \/ ord'[o].st = StatusAfter(ord[o].st, pay', o)
  \/ ord'[o].st = "canceled" /\ Paid(pay', o) = 0

(* Then it tells what is settled, and no closed one opens without money.   *)
LEMMA OrderStillTells ==
  ASSUME SnapInv, SnapInv', SeqsStay, NEW o \in Orders, OrderTells(o), OrderFollows(o)
  PROVE  /\ OrderTells(o)'
         /\ ord[o].st = "canceled" => ord'[o].st = "canceled" \/ Paid(pay', o) > 0
<1>1. pay' \in Tables
  BY DEF SnapInv, TypeOKSnap, TypeOK, Tables
<1>2. Paid(pay', o) \in Nat /\ Remaining(pay', o) \in Nat
  BY <1>1, PaidBounds
<1>3. CASE ord'[o].st = ord[o].st /\ Settled(pay', o) = Settled(pay, o)
  <2>1. Paid(pay', o) = Paid(pay, o) /\ Remaining(pay', o) = Remaining(pay, o)
    <3>1. \A q \in Settled(pay, o) : pay'[q].seq = pay[q].seq /\ pay'[q].gross = pay[q].gross
      BY DEF Settled, SeqsStay
    <3> QED BY <1>3, <3>1, SameSettled
  <2>2. Covered(pay', o) <=> Covered(pay, o)
    BY <2>1 DEF Covered
  <2> QED BY <1>3, <2>1, <2>2 DEF OrderTells, Exists
<1>4. CASE ord'[o].st = StatusAfter(ord[o].st, pay', o)
  <2>1. ord'[o].st = "paid" <=> Covered(pay', o)
    <3>1. CASE ord[o].st = "paid"
      BY <1>2, <1>4, <3>1 DEF StatusAfter, Covered
    <3>2. CASE ord[o].st # "paid"
      BY <1>2, <1>4, <3>2 DEF StatusAfter, Covered
    <3> QED BY <3>1, <3>2
  <2>2. Paid(pay', o) > 0 => ord'[o].st \in {"paid", "partially_paid"}
    BY <1>2, <1>4 DEF StatusAfter
  <2>3. ord[o].st = "canceled" => ord'[o].st = "canceled" \/ Paid(pay', o) > 0
    BY <1>2, <1>4 DEF StatusAfter
  <2> QED BY <2>1, <2>2, <2>3 DEF OrderTells, Exists
<1>5. CASE ord'[o].st = "canceled" /\ Paid(pay', o) = 0
  BY <1>2, <1>5 DEF OrderTells, Exists, Covered
<1> QED BY <1>3, <1>4, <1>5 DEF OrderFollows

(* Steps that settle no row: one that is still owed has not moved, or its  *)
(* order is closed or has money.                                           *)
LEMMA MovesClose ==
  ASSUME SnapInv, SnapInv', InquiryInv, BillsStay, call' \subseteq call, named' = named,
         \A q \in Payments : Moves(q),
         \A q \in Payments : pay'[q].st = "success" => pay'[q] = pay[q],
         \A b \in Bills : bill'[b].st = "told" =>
           bill[b].st = "told" \/ (bill[b].row # 0 /\ pay'[bill[b].row].st = "success"),
         \A b \in Bills : bill'[b].st = "ended" =>
           bill[b].st = "ended" \/ bill[b].product \in {"card", "qris"},
         \A o \in Orders : OrderFollows(o),
         \A q \in Payments :
           \/ pay'[q] = pay[q] \/ pay'[q].del
           \/ \A b \in Bills : ~Owes(b, q)'
           \/ ord'[pay[q].of].st = "canceled" \/ Paid(pay, pay[q].of) > 0
  PROVE  InquiryInv'
<1>1. /\ RowsInOrder' /\ SegmentsCharge' /\ BillsNamed' /\ SeqsStay
      /\ \A o \in Orders : Prompt(o)' => Prompt(o) /\ RailsMatch(o)' /\ ToldArePaid(o)'
      /\ \A q \in Payments : pay'[q].st # "success" \/ pay'[q] = pay[q] => Falls(q)
  BY MovesKeep
<1>2. \A q \in Payments : Falls(q)
  BY <1>1
<1>3. ASSUME NEW o \in Orders, Prompt(o)'
      PROVE  OrderTells(o)' /\ RailsMatch(o)' /\ ToldArePaid(o)' /\ RowsFit(o)'
  <2>1. OrderTells(o) /\ RowsFit(o)
    BY <1>1, <1>3 DEF InquiryInv, PromptOrders
  <2>2. Settled(pay', o) = Settled(pay, o)
    BY DEF Settled, Moves
  <2>3. Paid(pay', o) = Paid(pay, o)
    <3>1. \A q \in Settled(pay, o) : pay'[q].seq = pay[q].seq /\ pay'[q].gross = pay[q].gross
      BY <1>1 DEF Settled, SeqsStay
    <3> QED BY <2>2, <3>1, SameSettled
  <2>4. /\ OrderTells(o)'
        /\ ord[o].st = "canceled" => ord'[o].st = "canceled" \/ Paid(pay, o) > 0
    BY <1>1, <2>1, <2>3, OrderStillTells
  <2>5. /\ Payable(o)' \subseteq Payable(o) /\ Candidates(o)' \subseteq Candidates(o)
        /\ Numbered(o)' \subseteq Numbered(o)
    <3>1. /\ Payable(o)' \subseteq Payments /\ Candidates(o)' \subseteq Payments
          /\ Numbered(o)' \subseteq Payments
      BY DEF Payable, Candidates, Numbered, Live
    <3> QED BY <1>2, <3>1, RowFalls
  <2>6. ASSUME NEW q \in Payable(o)' \ Undecided(o)'
        PROVE  q \in Payable(o) \ Undecided(o) \/ ord'[o].st = "canceled" \/ Paid(pay, o) > 0
    <3>1. /\ q \in Payments /\ q \in Payable(o) /\ pay'[q].of = o /\ ~pay'[q].del
          /\ \E b \in Bills : Owes(b, q)'
      BY <2>5 DEF Payable, Live
    <3>2. pay[q].of = o
      BY <3>1 DEF Payable, Live
    <3>3. CASE pay'[q] = pay[q]
      BY <3>1, <3>3 DEF Undecided, Live
    <3> QED BY <3>1, <3>2, <3>3
  <2>7. RowsFit(o)'
    BY <1>1, <2>1, <2>2, <2>4, <2>5, <2>6, FitFalls
  <2> QED BY <1>1, <1>3, <2>4, <2>7
<1>4. PromptOrders'
  BY <1>3 DEF PromptOrders
<1> QED BY <1>1, <1>4 DEF InquiryInv

(* A notification that settles an open row.                                *)
LEMMA MovesSettle ==
  ASSUME SnapInv, SnapInv', InquiryInv, BillsStay, call' \subseteq call, named' = named,
         NEW p \in Payments, NEW o \in Orders, pay[p].of = o,
         pay[p].st \notin {"absent", "success"}, ~pay[p].del,
         pay' = [pay EXCEPT ![p].st = "success"],
         Prompt(o) => \E b \in Bills : Owes(b, p),
         \A b \in Bills : bill'[b].st = "told" => bill[b].st = "told" \/ bill[b].row = p,
         \A b \in Bills : bill'[b].st = "ended" => bill[b].st = "ended",
         \A x \in Orders \ {o} : ord'[x] = ord[x],
         ord'[o].st = StatusAfter(ord[o].st, pay', o)
  PROVE  InquiryInv'
<1>1. /\ pay \in Tables /\ pay' \in Tables /\ pay \in [Payments -> PayRow]
      /\ p # 0 /\ 0 \notin Payments
  BY RowIds DEF SnapInv, TypeOKSnap, TypeOK, Tables
<1>2. /\ pay'[p].st = "success" /\ pay'[p].of = pay[p].of /\ pay'[p].rail = pay[p].rail
      /\ pay'[p].gross = pay[p].gross /\ pay'[p].seq = pay[p].seq /\ pay'[p].del = pay[p].del
      /\ \A q \in Payments \ {p} : pay'[q] = pay[q]
  BY <1>1 DEF PayRow
<1>3. \A q \in Payments : Moves(q)
  BY <1>2 DEF Moves
<1>4. /\ RowsInOrder' /\ SegmentsCharge' /\ BillsNamed' /\ SeqsStay
      /\ \A x \in Orders : Prompt(x)' => Prompt(x) /\ RailsMatch(x)' /\ ToldArePaid(x)'
      /\ \A q \in Payments : pay'[q].st # "success" \/ pay'[q] = pay[q] => Falls(q)
  BY <1>1, <1>2, <1>3, MovesKeep
<1>5. \A q \in Payments \ {p} : Falls(q)
  BY <1>2, <1>4
<1>6. \A x : p \notin Payable(x)' /\ p \notin Candidates(x)' /\ p \notin Numbered(x)'
  BY <1>2 DEF Payable, Candidates, Numbered
<1>7. ASSUME NEW x \in Orders
      PROVE  /\ Payable(x)' \subseteq Payable(x) \ {p}
             /\ Candidates(x)' \subseteq Candidates(x) \ {p}
             /\ Numbered(x)' \subseteq Numbered(x) \ {p}
             /\ \A q \in Payable(x)' \ Undecided(x)' : q \in Payable(x) \ Undecided(x)
  <2>1. /\ Payable(x)' \subseteq Payments /\ Candidates(x)' \subseteq Payments
        /\ Numbered(x)' \subseteq Payments
    BY DEF Payable, Candidates, Numbered, Live
  <2>2. /\ Payable(x)' \subseteq Payable(x) \ {p}
        /\ Candidates(x)' \subseteq Candidates(x) \ {p}
        /\ Numbered(x)' \subseteq Numbered(x) \ {p}
    BY <1>5, <1>6, <2>1, RowFalls
  <2>3. \A q \in Payments \ {p} : q \in Undecided(x)' <=> q \in Undecided(x)
    BY <1>2 DEF Undecided, Live
  <2> QED BY <2>1, <2>2, <2>3
<1>8. /\ Settled(pay', o) = Settled(pay, o) \cup {p} /\ p \notin Settled(pay, o)
      /\ \A x \in Orders \ {o} : Settled(pay', x) = Settled(pay, x)
  BY <1>2 DEF Settled
<1>9. ASSUME NEW x \in Orders, Prompt(x)'
      PROVE  OrderTells(x)' /\ RailsMatch(x)' /\ ToldArePaid(x)' /\ RowsFit(x)'
  <2>1. Prompt(x) /\ OrderTells(x) /\ RowsFit(x)
    BY <1>4, <1>9 DEF InquiryInv, PromptOrders
  <2>2. OrderFollows(x)
    BY <1>8 DEF OrderFollows
  <2>3. /\ OrderTells(x)'
        /\ ord[x].st = "canceled" => ord'[x].st = "canceled" \/ Paid(pay', x) > 0
    BY <1>4, <2>1, <2>2, OrderStillTells
  <2>4. CASE x # o
    <3>1. ord'[x] = ord[x]
      BY <2>4
    <3> QED BY <1>4, <1>7, <1>8, <1>9, <2>1, <2>3, <2>4, <3>1, FitFalls
  <2>5. CASE x = o
    <3> DEFINE A == Numbered(o)
               B == Payable(o)
               C == Candidates(o)
               U == Undecided(o)
               S == Settled(pay, o)
               left == Remaining(pay, o)
               left2 == Remaining(pay', o)
               money == Paid(pay, o) > 0
               money2 == Paid(pay', o) > 0
               closed == ord[o].st = "canceled"
    <3>1. p \in B
      BY <2>1, <2>5 DEF Payable, Live
    <3>2. /\ A \in SUBSET Payments /\ B \in SUBSET Payments /\ C \in SUBSET Payments
          /\ S \in SUBSET Payments /\ A \subseteq B /\ B \subseteq C
          /\ A' \in SUBSET Payments /\ B' \in SUBSET Payments /\ C' \in SUBSET Payments
      BY DEF Numbered, Payable, Candidates, Settled, Live
    <3>3. left \in Nat /\ left2 \in Nat
      BY <1>1, PaidBounds
    <3>4. Fits(pay, A, B, C, U, S, left, closed, money)
      BY <2>1, <2>5 DEF RowsFit
    <3>5. Fits(pay', A, B, C, U, S, left, closed, money)
      <4>1. \A q \in A \cup B \cup C \cup S : pay'[q].gross = pay[q].gross /\ pay'[q].seq = pay[q].seq
        BY <1>2, <3>2
      <4> HIDE DEF A, B, C, U, S, left, money, closed
      <4> QED BY <3>4, <4>1, FitsSame
    <3>6. left2 <= left /\ (pay'[p].gross >= left => left2 = 0)
      <4>1. ASSUME NEW q \in Settled(pay, o), pay[q].seq = pay[p].seq, pay[p].seq # 0
            PROVE  Remaining(pay, o) = 0 /\ (p < q => pay[p].gross >= pay[q].gross)
        <5>1. Fits(pay, A, B, C, U, S, left, closed, money)
          BY <3>4
        <5> HIDE DEF A, B, C, U, money, closed
        <5> QED BY <3>1, <4>1, <5>1 DEF Fits
      <4>2. \A q \in Settled(pay, o) : pay'[q] = pay[q]
        BY <1>2, <1>8, <3>2
      <4>3. \A q \in Settled(pay, o) : pay[q].seq = pay[p].seq /\ pay[p].seq # 0 =>
              /\ Remaining(pay, o) = 0
              /\ p < q => pay[p].gross >= pay[q].gross
        BY <4>1
      <4>4. /\ Remaining(pay', o) <= Remaining(pay, o)
            /\ pay[p].gross >= Remaining(pay, o) => Remaining(pay', o) = 0
        BY ONLY <1>1, <1>2, <1>8, <4>2, <4>3, SettlingPays, p \in Payments, o \in Orders
      <4> QED BY <1>2, <4>4
    <3>7. /\ money \in BOOLEAN /\ closed \in BOOLEAN /\ closed' \in BOOLEAN /\ money2 \in BOOLEAN
          /\ closed => closed' \/ money2
          /\ A' \subseteq A \ {p} /\ B' \subseteq B \ {p} /\ C' \subseteq C \ {p}
          /\ \A q \in B' \ U' : q \in B \ U
      BY <1>7, <2>3, <2>5
    <3>8. Fits(pay', A', B', C', U', S', left2, closed', money2)
      <4>1. S' \subseteq S \cup {p}
        BY <1>8
      <4> HIDE DEF A, B, C, U, S, left, left2, money, money2, closed
      <4> QED BY ONLY <1>1, <3>1, <3>2, <3>3, <3>5, <3>6, <3>7, <4>1, SettleFits,
                      p \in Payments
    <3>9. RowsFit(o)'
      BY <3>8 DEF RowsFit
    <3> QED BY <1>4, <1>9, <2>3, <2>5, <3>9
  <2> QED BY <2>4, <2>5
<1>10. PromptOrders'
  BY <1>9 DEF PromptOrders
<1> QED BY <1>4, <1>10 DEF InquiryInv

(* Steps that leave the tables alone tell nobody anything new.             *)
LEMMA QuietInquiry ==
  ASSUME SnapInv, SnapInv', InquiryInv, UNCHANGED vars, BillsStay,
         call' \subseteq call, named' = named,
         \A b \in Bills : bill'[b].st \in {"told", "ended"} => bill[b].st = bill'[b].st
  PROVE  InquiryInv'
<1>1. pay' = pay /\ ord' = ord
  BY DEF vars
<1>2. /\ \A q \in Payments : Moves(q)
      /\ \A o \in Orders : OrderFollows(o)
  BY <1>1 DEF Moves, OrderFollows
<1> QED BY <1>1, <1>2, MovesClose

(* Lost answers, and what DOKU and the customer do.                        *)
LEMMA DokuInquiry ==
  ASSUME SnapInv, SnapInv', InquiryInv,
         \/ \E b \in Bills : AnswerLost(b) \/ BillOpens(b) \/ CustomerSettles(b)
         \/ \E p \in Payments : VerifyOtp(p)
         \/ Bind \/ UNCHANGED snapVars
  PROVE  InquiryInv'
<1>1. CASE (\E b \in Bills : AnswerLost(b)) \/ Bind \/ UNCHANGED snapVars
  <2>1. UNCHANGED <<vars, bill, named>> /\ call' \subseteq call
    BY <1>1 DEF AnswerLost, Bind, snapVars, snap
  <2>2. BillsStay
    BY <2>1 DEF BillsStay
  <2> QED BY <2>1, <2>2, QuietInquiry
<1>2. ASSUME NEW b \in Bills, NEW from \in {"asked", "open"}, NEW to \in {"open", "settled"},
             BillMoves(b, from, to), UNCHANGED <<vars, call, named, bound, shown>>
      PROVE  InquiryInv'
  <2>1. BillsStay /\ bill'[b].st = to /\ \A c \in Bills \ {b} : bill'[c] = bill[c]
    BY <1>2, MovedBill
  <2>2. \A c \in Bills : bill'[c].st \in {"told", "ended"} => bill[c].st = bill'[c].st
    BY <2>1
  <2> QED BY <1>2, <2>1, <2>2, QuietInquiry
<1>3. ASSUME NEW p \in Payments, VerifyOtp(p)
      PROVE  InquiryInv'
  <2>1. \E c \in Bills : BillMoves(c, "open", "settled")
    BY <1>3 DEF VerifyOtp, SnapInv, TypeOKSnap
  <2>2. UNCHANGED <<vars, call, named, bound, shown>>
    BY <1>3 DEF VerifyOtp
  <2> QED BY <1>2, <2>1, <2>2
<1>4. ASSUME NEW b \in Bills, BillOpens(b) \/ CustomerSettles(b)
      PROVE  InquiryInv'
  BY <1>2, <1>4 DEF BillOpens, CustomerSettles
<1> QED BY <1>1, <1>3, <1>4

(* The organizer's commands and the owner's cancellation close the order   *)
(* with the row, unless it has money.                                      *)
LEMMA CommandInquiry ==
  ASSUME SnapInv, SnapInv', InquiryInv, UNCHANGED snap,
         \/ \E p \in Payments : AdminCancel(p) \/ AdminDelete(p)
         \/ \E o \in Orders : UserCancel(o)
  PROVE  InquiryInv'
<1>1. /\ bill' = bill /\ call' = call /\ named' = named /\ BillsStay
      /\ pay \in Tables /\ pay \in [Payments -> PayRow] /\ ord \in [Orders -> OrderRow]
      /\ RowsLinked
  BY DEF snap, BillsStay, SnapInv, TypeOKSnap, TypeOK, Tables
<1>2. ASSUME NEW p \in Payments, pay[p].st \notin {"absent", "success"},
             NEW P \in [Payments -> PayRow], pay' = P,
             P[p].of = pay[p].of, P[p].rail = pay[p].rail, P[p].gross = pay[p].gross,
             P[p].seq = pay[p].seq, P[p].st \notin {"absent", "success"}, pay[p].del => P[p].del,
             P[p].st = "canceled" \/ (P[p].del /\ P[p].st = pay[p].st),
             \A q \in Payments \ {p} : P[q] = pay[q],
             \A x \in Orders \ {pay[p].of} : ord'[x] = ord[x],
             OrderFollows(pay[p].of),
             P[p].del \/ ord'[pay[p].of].st = "canceled" \/ Paid(pay', pay[p].of) > 0
      PROVE  InquiryInv'
  <2>1. /\ \A q \in Payments : Moves(q)
        /\ \A q \in Payments : pay'[q].st = "success" => pay'[q] = pay[q]
    BY <1>2 DEF Moves
  <2>2. \A x \in Orders : Settled(pay', x) = Settled(pay, x)
    BY <1>2 DEF Settled
  <2>3. \A x \in Orders : OrderFollows(x)
    BY <1>2, <2>2 DEF OrderFollows
  <2>4. pay[p].of \in Orders
    BY <1>1, <1>2 DEF RowsLinked, Linked
  <2>5. Paid(pay', pay[p].of) = Paid(pay, pay[p].of)
    <3>1. \A q \in Settled(pay, pay[p].of) : pay'[q].seq = pay[q].seq /\ pay'[q].gross = pay[q].gross
      BY <1>2 DEF Settled
    <3> QED BY <2>2, <2>4, <3>1, SameSettled
  <2>6. \A q \in Payments :
          \/ pay'[q] = pay[q] \/ pay'[q].del
          \/ \A b \in Bills : ~Owes(b, q)'
          \/ ord'[pay[q].of].st = "canceled" \/ Paid(pay, pay[q].of) > 0
    BY <1>2, <2>5
  <2> QED BY <1>1, <2>1, <2>3, <2>6, MovesClose
<1>3. ASSUME NEW p \in Payments, AdminDelete(p)
      PROVE  InquiryInv'
  <2> DEFINE P == [pay EXCEPT ![p].del = TRUE]
             o == pay[p].of
  <2>1. Reconcile(P, o) /\ pay[p].st \notin {"absent", "success"} /\ ~pay[p].del
    BY <1>3 DEF AdminDelete, MayCancel
  <2>2. o \in Orders
    BY <1>1, <2>1 DEF RowsLinked, Linked
  <2>3. /\ pay' = P /\ ord' = [ord EXCEPT ![o] = OrderAfter(@, P, o)]
    BY <2>1 DEF Reconcile
  <2>4. /\ ord'[o].st = StatusAfter(ord[o].st, pay', o)
        /\ \A x \in Orders \ {o} : ord'[x] = ord[x]
    BY <1>1, <2>2, <2>3 DEF OrderAfter
  <2>5. /\ P \in [Payments -> PayRow]
        /\ P[p].of = pay[p].of /\ P[p].rail = pay[p].rail /\ P[p].gross = pay[p].gross
        /\ P[p].seq = pay[p].seq /\ P[p].st = pay[p].st /\ P[p].del
        /\ \A q \in Payments \ {p} : P[q] = pay[q]
    BY <1>1 DEF PayRow
  <2>6. OrderFollows(o)
    BY <2>4 DEF OrderFollows
  <2> HIDE DEF P
  <2> QED BY <1>2, <2>1, <2>3, <2>4, <2>5, <2>6
<1>4. ASSUME NEW p \in Payments, AdminCancel(p)
      PROVE  InquiryInv'
  <2> DEFINE P == [pay EXCEPT ![p].st = "canceled"]
             o == pay[p].of
  <2>1. pay[p].st \notin {"absent", "success"} /\ ~pay[p].del
    BY <1>4 DEF AdminCancel, MayCancel
  <2>2. o \in Orders
    BY <1>1, <2>1 DEF RowsLinked, Linked
  <2>3. /\ pay' = P
        /\ ord' = [ord EXCEPT ![o] = IF Paid(P, o) = 0 THEN [st |-> "canceled", by |-> TRUE]
                                     ELSE OrderAfter(@, P, o)]
    BY <1>4 DEF AdminCancel
  <2>4. /\ P \in [Payments -> PayRow]
        /\ P[p].of = pay[p].of /\ P[p].rail = pay[p].rail /\ P[p].gross = pay[p].gross
        /\ P[p].seq = pay[p].seq /\ P[p].st = "canceled" /\ P[p].del = pay[p].del
        /\ \A q \in Payments \ {p} : P[q] = pay[q]
    BY <1>1 DEF PayRow, PayStatuses
  <2>5. P \in Tables
    BY <2>4 DEF Tables
  <2> HIDE DEF P
  <2>6. Paid(P, o) \in Nat
    BY <2>2, <2>5, PaidBounds
  <2>7. /\ IF Paid(P, o) = 0 THEN ord'[o].st = "canceled"
                             ELSE ord'[o].st = StatusAfter(ord[o].st, P, o)
        /\ \A x \in Orders \ {o} : ord'[x] = ord[x]
    BY <1>1, <2>2, <2>3 DEF OrderAfter
  <2>8. OrderFollows(o)
    <3>1. CASE Paid(P, o) = 0
      BY <2>3, <2>7, <3>1 DEF OrderFollows
    <3>2. CASE Paid(P, o) # 0
      <4>1. ord'[o].st = StatusAfter(ord[o].st, pay', o)
        BY <2>3, <2>7, <3>2
      <4> QED BY <4>1 DEF OrderFollows
    <3> QED BY <3>1, <3>2
  <2>9. ord'[o].st = "canceled" \/ Paid(pay', o) > 0
    BY <2>3, <2>6, <2>7
  <2> QED BY <1>2, <2>1, <2>3, <2>4, <2>7, <2>8, <2>9
<1>5. ASSUME NEW o \in Orders, UserCancel(o)
      PROVE  InquiryInv'
  <2>1. /\ Settled(pay, o) = {} /\ ord' = [ord EXCEPT ![o] = [st |-> "canceled", by |-> TRUE]]
        /\ pay' = [p \in Payments |->
                      IF p \in Live(pay, o) /\ pay[p].st \in {"created", "pending"}
                      THEN [pay[p] EXCEPT !.st = "canceled"] ELSE pay[p]]
    BY <1>5 DEF UserCancel
  <2>2. ord'[o].st = "canceled" /\ \A x \in Orders \ {o} : ord'[x] = ord[x]
    BY <1>1, <2>1
  <2>3. ASSUME NEW q \in Payments
        PROVE  \/ pay'[q] = pay[q]
               \/ /\ pay[q].st \in {"created", "pending"} /\ pay[q].of = o
                  /\ pay'[q] = [pay[q] EXCEPT !.st = "canceled"]
    BY <2>1 DEF Live
  <2>4. ASSUME NEW q \in Payments, pay'[q] # pay[q]
        PROVE  /\ pay[q].st \in {"created", "pending"} /\ pay[q].of = o
               /\ pay'[q].st = "canceled"
               /\ pay'[q].of = pay[q].of /\ pay'[q].rail = pay[q].rail
               /\ pay'[q].gross = pay[q].gross /\ pay'[q].seq = pay[q].seq
               /\ pay'[q].del = pay[q].del
    <3>1. pay[q] \in PayRow /\ pay'[q] = [pay[q] EXCEPT !.st = "canceled"]
      BY <1>1, <2>3, <2>4
    <3>2. /\ pay'[q].st = "canceled"
          /\ pay'[q].of = pay[q].of /\ pay'[q].rail = pay[q].rail
          /\ pay'[q].gross = pay[q].gross /\ pay'[q].seq = pay[q].seq
      BY <3>1 DEF PayRow
    <3>3. pay'[q].del = pay[q].del
      BY <3>1 DEF PayRow
    <3> QED BY <2>3, <2>4, <3>2, <3>3
  <2>5. \A q \in Payments : Moves(q)
    BY <2>4 DEF Moves
  <2>6. \A q \in Payments : pay'[q].st = "success" => pay'[q] = pay[q]
    BY <2>4
  <2>7. \A x \in Orders : Settled(pay', x) = Settled(pay, x)
    <3>1. \A q \in Payments : pay[q].st = "success" => pay'[q] = pay[q]
      BY <2>4
    <3> QED BY <2>6, <3>1 DEF Settled
  <2>8. \A x \in Orders : OrderFollows(x)
    <3>1. Paid(pay', o) = 0
      <4>1. pay' \in Tables
        BY DEF SnapInv, TypeOKSnap, TypeOK, Tables
      <4> QED BY <2>1, <2>7, <4>1, NothingSettled
    <3> QED BY <2>2, <2>7, <3>1 DEF OrderFollows
  <2>9. \A q \in Payments : pay'[q] = pay[q] \/ ord'[pay[q].of].st = "canceled"
    BY <2>2, <2>4
  <2> QED BY <1>1, <2>5, <2>6, <2>8, <2>9, MovesClose
<1> QED BY <1>3, <1>4, <1>5

(* Row p of bill b has taken status s, and its order o follows.            *)
Heard(b, p, s, o) ==
  /\ bill[b].row = p /\ pay[p].st # "absent" /\ ~pay[p].del
  /\ named[p] = b /\ b # 0 /\ p # 0
  /\ o \in Orders /\ pay[p].of = o
  /\ pay' = [pay EXCEPT ![p].st = s]
  /\ pay'[p].st = s /\ pay'[p].of = pay[p].of /\ pay'[p].rail = pay[p].rail
  /\ pay'[p].gross = pay[p].gross /\ pay'[p].seq = pay[p].seq /\ ~pay'[p].del
  /\ pay[p].st = s => pay'[p] = pay[p]
  /\ \A q \in Payments \ {p} : pay'[q] = pay[q]
  /\ \A x \in Orders \ {o} : ord'[x] = ord[x]
  /\ ord'[o].st = StatusAfter(ord[o].st, pay', o)

(* That is how a notification leaves them.                                 *)
LEMMA HeardOrder ==
  ASSUME SnapInv, NEW b \in Bills, NEW p \in Payments, Hears(p, b),
         NEW s \in PayStatuses \ {"absent"},
         Reconcile([pay EXCEPT ![p].st = s], pay[p].of)
  PROVE  Heard(b, p, s, pay[p].of)
<1>1. /\ bill[b].row = p /\ pay[p].st # "absent" /\ pay[p].of \in Orders
      /\ named[p] = b /\ ~pay[p].del /\ b # 0 /\ p # 0
  BY HeardRow, BillIds, RowIds DEF Hears
<1>2. pay \in [Payments -> PayRow] /\ ord \in [Orders -> OrderRow]
  BY DEF SnapInv, TypeOKSnap, TypeOK
<1>3. pay' = [pay EXCEPT ![p].st = s]
  BY DEF Reconcile
<1>4. /\ pay'[p].st = s /\ pay'[p].of = pay[p].of /\ pay'[p].rail = pay[p].rail
      /\ pay'[p].gross = pay[p].gross /\ pay'[p].seq = pay[p].seq
      /\ \A q \in Payments \ {p} : pay'[q] = pay[q]
  BY <1>2, <1>3 DEF PayRow
<1>5. pay'[p].del = pay[p].del
  BY <1>2, <1>3 DEF PayRow
<1>6. ord' = [ord EXCEPT ![pay[p].of] = OrderAfter(ord[pay[p].of], pay', pay[p].of)]
  BY <1>3 DEF Reconcile
<1>7. /\ \A x \in Orders \ {pay[p].of} : ord'[x] = ord[x]
      /\ ord'[pay[p].of].st = StatusAfter(ord[pay[p].of].st, pay', pay[p].of)
  BY <1>1, <1>2, <1>6 DEF OrderAfter
<1>8. pay[p].st = s => pay'[p] = pay[p]
  <2>1. pay[p] \in PayRow /\ pay'[p] = [pay[p] EXCEPT !.st = s]
    BY <1>2, <1>3
  <2> QED BY <2>1 DEF PayRow
<1> QED BY <1>1, <1>3, <1>4, <1>5, <1>7, <1>8 DEF Heard

(* The notifications of the bank and of DOKU.                              *)
LEMMA HearInquiry ==
  ASSUME SnapInv, SnapInv', InquiryInv, NEW b \in Bills, NEW p \in Payments,
         HearSettled(b, p) \/ HearEnded(b, p)
  PROVE  InquiryInv'
<1> DEFINE o == pay[p].of
<1>1. /\ Hears(p, b) /\ call' = call /\ named' = named
      /\ pay \in [Payments -> PayRow] /\ bill \in [Bills -> BillRow]
  BY DEF HearSettled, HearEnded, SnapInv, TypeOKSnap, TypeOK
<1>2. ASSUME NEW s \in PayStatuses \ {"absent"}, Reconcile([pay EXCEPT ![p].st = s], o),
             NEW to \in {"told", "ended"}, NEW from \in {"settled", "open"},
             BillMoves(b, from, to),
             to = "told" => s = "success",
             to = "ended" => bill[b].product \in {"card", "qris"},
             s = pay[p].st \/ (pay[p].st # "success" /\ s = "expired" /\ to = "ended")
      PROVE  InquiryInv'
  <2>1. Heard(b, p, s, o)
    BY <1>1, <1>2, HeardOrder
  <2>2. BillsStay /\ bill'[b].st = to /\ \A c \in Bills \ {b} : bill'[c] = bill[c]
    BY <1>2, MovedBill
  <2>4. \A q \in Payments : Moves(q)
    BY <1>2, <2>1 DEF Moves, Heard
  <2>5. \A q \in Payments : pay'[q].st = "success" => pay'[q] = pay[q]
    BY <1>2, <2>1 DEF Heard
  <2>6. \A c \in Bills : bill'[c].st = "told" =>
          bill[c].st = "told" \/ (bill[c].row # 0 /\ pay'[bill[c].row].st = "success")
    BY <1>2, <2>1, <2>2 DEF Heard
  <2>7. \A c \in Bills : bill'[c].st = "ended" =>
          bill[c].st = "ended" \/ bill[c].product \in {"card", "qris"}
    BY <1>2, <2>2
  <2>8. \A x \in Orders : OrderFollows(x)
    <3>1. \A x \in Orders \ {o} : Settled(pay', x) = Settled(pay, x)
      BY <2>1 DEF Settled, Heard
    <3> QED BY <2>1, <3>1 DEF OrderFollows, Heard
  <2>9. \A q \in Payments : pay'[q] = pay[q] \/ \A c \in Bills : ~Owes(c, q)'
    <3> SUFFICES ASSUME pay'[p] # pay[p], NEW c \in Bills, Owes(c, p)' PROVE FALSE
      BY <2>1 DEF Heard
    <3>1. s = "expired" /\ to = "ended"
      BY <1>2, <2>1 DEF Heard
    <3>2. named[p] = c /\ named[p] = b
      BY <1>1, <2>1, <3>1 DEF Owes, Heard
    <3> QED BY <2>2, <3>1, <3>2 DEF Owes
  <2> QED BY <1>1, <2>2, <2>4, <2>5, <2>6, <2>7, <2>8, <2>9, MovesClose
<1>3. CASE HearEnded(b, p)
  <2>1. /\ Reconcile([pay EXCEPT ![p].st = DokuResult(pay[p], "EXPIRED")], o)
        /\ BillMoves(b, "open", "ended") /\ bill[b].product \in {"card", "qris"}
    BY <1>3 DEF HearEnded
  <2>2. CASE pay[p].st = "success"
    <3>1. DokuResult(pay[p], "EXPIRED") = "success"
      BY <2>2 DEF DokuResult
    <3> QED BY <1>2, <2>1, <2>2, <3>1 DEF PayStatuses
  <2>3. CASE pay[p].st # "success"
    <3>1. DokuResult(pay[p], "EXPIRED") = "expired"
      BY <2>3 DEF DokuResult
    <3> QED BY <1>2, <2>1, <2>3, <3>1 DEF PayStatuses
  <2> QED BY <2>2, <2>3
<1>4. CASE HearSettled(b, p) /\ pay[p].st = "success"
  <2>1. /\ Reconcile([pay EXCEPT ![p].st = "success"], o) /\ BillMoves(b, "settled", "told")
    BY <1>4 DEF HearSettled
  <2> QED BY <1>2, <1>4, <2>1 DEF PayStatuses
<1>5. CASE HearSettled(b, p) /\ pay[p].st # "success"
  <2>1. /\ Reconcile([pay EXCEPT ![p].st = "success"], o) /\ BillMoves(b, "settled", "told")
        /\ bill[b].st = "settled"
    BY <1>5 DEF HearSettled, BillMoves
  <2>2. Heard(b, p, "success", o)
    BY <1>1, <2>1, HeardOrder DEF PayStatuses
  <2>3. BillsStay /\ bill'[b].st = "told" /\ \A c \in Bills \ {b} : bill'[c] = bill[c]
    BY <2>1, MovedBill
  <2>4. ASSUME Prompt(o)
        PROVE  Owes(b, p)
    <3>1. pay[p].rail = RailOf(bill[b].product)
      BY <2>2, <2>4 DEF InquiryInv, PromptOrders, RailsMatch, Heard
    <3>2. bill[b].product # "qris"
      BY <1>1, <3>1 DEF Hears, RailOf, DokuRails
    <3> QED BY <2>1, <2>2, <3>2 DEF Owes, Heard
  <2>5. /\ \A c \in Bills : bill'[c].st = "told" => bill[c].st = "told" \/ bill[c].row = p
        /\ \A c \in Bills : bill'[c].st = "ended" => bill[c].st = "ended"
    BY <2>2, <2>3 DEF Heard
  <2>6. /\ o \in Orders /\ pay[p].of = o /\ pay[p].st \notin {"absent", "success"}
        /\ ~pay[p].del /\ pay' = [pay EXCEPT ![p].st = "success"]
        /\ \A x \in Orders \ {o} : ord'[x] = ord[x]
        /\ ord'[o].st = StatusAfter(ord[o].st, pay', o)
    BY <1>5, <2>2 DEF Heard
  <2> HIDE DEF o
  <2> QED BY <1>1, <2>3, <2>4, <2>5, <2>6, MovesSettle
<1> QED BY <1>3, <1>4, <1>5

-----------------------------------------------------------------------------
(* Asking for bills                                                        *)

(* A step that lets row p join, and touches no other.                      *)
LEMMA RestFits ==
  ASSUME SnapInv, SnapInv', SeqsStay, NEW x \in Orders, RowsFit(x), NEW p,
         Settled(pay', x) = Settled(pay, x),
         ord[x].st = "canceled" => ord'[x].st = "canceled",
         \A q \in Payments \ {p} : pay'[q] = pay[q] /\ Falls(q),
         p \in Payable(x)' => p \in Undecided(x)',
         Numbers(pay', p, Numbered(x), Numbered(x)', Candidates(x)', Remaining(pay, x)),
         Follows(pay', p, Payable(x), Candidates(x), Candidates(x)', Remaining(pay, x)),
         Joins(pay', p, Payable(x), Candidates(x), Settled(pay, x), Payable(x)',
               Remaining(pay, x), Paid(pay, x) > 0)
  PROVE  RowsFit(x)'
<1>1. /\ Payable(x)' \subseteq Payments /\ Candidates(x)' \subseteq Payments
      /\ Numbered(x)' \subseteq Payments
  BY DEF Payable, Candidates, Numbered, Live
<1>2. /\ Payable(x)' \subseteq Payable(x) \cup {p}
      /\ Candidates(x)' \subseteq Candidates(x) \cup {p}
      /\ Numbered(x)' \subseteq Numbered(x) \cup {p}
  BY <1>1, RowFalls
<1>3. \A q \in Payments \ {p} : q \in Undecided(x)' <=> q \in Undecided(x)
  BY DEF Undecided, Live
<1>4. \A q \in Payable(x)' \ Undecided(x)' : q \in Payable(x) \ Undecided(x)
  BY <1>1, <1>2, <1>3
<1> QED BY <1>2, <1>4, FitKeeps

(* A step that lets no row join, and touches none that may be paid.        *)
LEMMA RestFalls ==
  ASSUME SnapInv, SnapInv', SeqsStay, NEW x \in Orders, RowsFit(x), NEW p,
         Settled(pay', x) = Settled(pay, x),
         ord[x].st = "canceled" => ord'[x].st = "canceled",
         \A q \in Payments \ {p} : pay'[q] = pay[q] /\ Falls(q),
         p \notin Candidates(x)'
  PROVE  RowsFit(x)'
<1>1. p \notin Payable(x)' /\ p \notin Numbered(x)'
  BY DEF Candidates, Numbered
<1>2. /\ Numbers(pay', p, Numbered(x), Numbered(x)', Candidates(x)', Remaining(pay, x))
      /\ Follows(pay', p, Payable(x), Candidates(x), Candidates(x)', Remaining(pay, x))
      /\ Joins(pay', p, Payable(x), Candidates(x), Settled(pay, x), Payable(x)',
               Remaining(pay, x), Paid(pay, x) > 0)
  BY <1>1 DEF Numbers, Follows, Joins
<1> QED BY <1>1, <1>2, RestFits

(* Row p is new: the checkout or an endpoint has just inserted it.         *)
Inserts(p, o) ==
  /\ Unused(p)
  /\ pay'[p].st = "created" /\ pay'[p].of = o /\ ~pay'[p].del
  /\ pay'[p].seq # 0 => pay'[p].gross > 0 \/ Total[o] = 0

(* A request leaves everything but the sums of its order in agreement.     *)
LEMMA AskParts ==
  ASSUME SnapInv, SnapInv', InquiryInv, NEW b \in Bills, NEW o \in Orders,
         NEW row \in Payments \cup {0}, NEW product \in Products, NEW amount \in Nat,
         NEW seq \in Nat, NEW door \in Doors,
         Ask(b, o, row, product, amount, seq, door), ord' = ord,
         \A q \in Payments \ {row} : pay'[q] = pay[q] /\ named'[q] = named[q],
         row # 0 => \/ pay' = pay /\ named' = named
                    \/ Inserts(row, o) /\ named'[row] \in {0, b, named[row]},
         row # 0 /\ named'[row] = b => pay'[row].rail = RailOf(product),
         door = "method" /\ product # "va" => row # 0 /\ named'[row] = b,
         row = 0 => \/ product = "qris" /\ (amount > 0 \/ Total[o] = 0)
                    \/ product = "debit" /\ amount = Total[o] /\ seq = 0
  PROVE  /\ RowsInOrder' /\ SegmentsCharge' /\ BillsNamed' /\ SeqsStay
         /\ \A x \in Orders : Prompt(x)' =>
              /\ OrderTells(x)' /\ RailsMatch(x)' /\ ToldArePaid(x)' /\ OrderTells(x) /\ RowsFit(x)
         /\ \A x \in Orders : Settled(pay', x) = Settled(pay, x)
         /\ \A q \in Payments \ {row} : pay'[q] = pay[q] /\ Falls(q)
         /\ \A c \in Bills, q \in Payments : c # b => (Owes(c, q)' <=> Owes(c, q)) /\ bill'[c] = bill[c]
         /\ \A q \in Payments : named[q] # b
         /\ row # 0 /\ Unused(row) => named[row] = 0 /\ \A c \in Bills : ~Owes(c, row)
         /\ bill'[b] = BillAsked(o, row, product, amount, seq, door)
<1>1. /\ RowsInOrder /\ SegmentsCharge /\ BillsNamed /\ PromptOrders /\ BillRows /\ NamedRows
      /\ bill \in [Bills -> BillRow] /\ pay \in [Payments -> PayRow] /\ CallsOnce
      /\ named \in [Payments -> Bills \cup {0}] /\ 0 \notin Payments /\ 0 \notin Bills
      /\ named' \in [Payments -> Bills \cup {0}]
  BY RowIds, BillIds DEF InquiryInv, SnapInv, TypeOKSnap, TypeOK
<1> DEFINE new == BillAsked(o, row, product, amount, seq, door)
<1>2. /\ bill[b] = NoBill /\ bill'[b] = new
      /\ \A c \in Bills \ {b} : bill'[c] = bill[c]
      /\ call' = call \cup {<<b, ord[o].st>>}
  BY <1>1 DEF Ask, NextBill, BillRows
<1>3. /\ new.st = "asked" /\ new.of = o /\ new.row = row /\ new.product = product
      /\ new.amount = amount /\ new.seq = seq /\ new.door = door /\ ~new.late
      /\ bill[b].row = 0 /\ ~bill[b].late
  BY <1>2 DEF BillAsked, NoBill
<1> HIDE DEF new
<1>4. \A q \in Payments : named[q] # b
  BY <1>1, <1>3 DEF NamedRows
<1>5. \A q \in Payments : q = row /\ Unused(q) =>
        /\ named[q] = 0 /\ \A c \in Bills : bill[c].row # q
  <2> SUFFICES ASSUME NEW q \in Payments, pay[q].st = "absent"
               PROVE  named[q] = 0 /\ \A c \in Bills : bill[c].row # q
    BY DEF Unused
  <2>1. \A c \in Bills : bill[c].row # q
    BY <1>1 DEF BillRows
  <2> QED BY <1>1, <2>1 DEF NamedRows
<1>6. \A q \in Payments :
        \/ pay'[q] = pay[q] /\ named'[q] = named[q]
        \/ q = row /\ Inserts(q, o) /\ named'[q] \in {0, b}
  BY <1>1, <1>5 DEF Inserts
<1>7. \A c \in Bills \ {b} : Waiting(c)' <=> Waiting(c)
  <2>1. \A d : d \in call' <=> d \in call \/ d = <<b, ord[o].st>>
    BY <1>2
  <2> QED BY <2>1 DEF Waiting
<1>8. ASSUME NEW c \in Bills \ {b}, NEW q \in Payments
      PROVE  Owes(c, q)' <=> Owes(c, q)
  <2>1. CASE q = row /\ Inserts(q, o)
    <3>1. bill[c].row # q
      BY <1>5, <2>1 DEF Inserts
    <3> QED BY <1>2, <3>1 DEF Owes
  <2>2. CASE ~(q = row /\ Inserts(q, o))
    <3>1. pay'[q] = pay[q] /\ named'[q] = named[q]
      BY <1>6, <2>2
    <3> QED BY <1>2, <1>7, <3>1 DEF Owes
  <2> QED BY <2>1, <2>2
<1>9. \A q \in Payments \ {row} : pay'[q] = pay[q] /\ Falls(q)
  <2>1. \A q \in Payments \ {row} : ~Owes(b, q)'
    BY <1>2, <1>3 DEF Owes
  <2> QED BY <1>2, <1>8, <2>1 DEF Falls
<1>10. RowsInOrder' /\ SeqsStay
  <2>1. \A q \in Payments : pay[q].st # "absent" => pay'[q] = pay[q]
    BY <1>6 DEF Inserts, Unused
  <2>2. ASSUME NEW p \in Payments, NEW q \in Payments, q < p, pay'[p].st # "absent"
        PROVE  pay'[q].st # "absent"
    <3>1. pay[q].st # "absent"
      BY <1>1, <1>6, <2>2 DEF RowsInOrder, Inserts, Unused
    <3> QED BY <2>1, <3>1
  <2> QED BY <2>1, <2>2 DEF RowsInOrder, SeqsStay
<1>11. SegmentsCharge'
  <2>1. ASSUME NEW q \in Payments, pay'[q].st # "absent", pay'[q].seq # 0
        PROVE  pay'[q].gross > 0 \/ Total[pay'[q].of] = 0
    BY <1>1, <1>6, <2>1 DEF SegmentsCharge, Inserts
  <2>2. ASSUME NEW c \in Bills, bill'[c].st # "none", bill'[c].row = 0
        PROVE  \/ bill'[c].product = "qris" /\ (bill'[c].amount > 0 \/ Total[bill'[c].of] = 0)
               \/ bill'[c].product = "debit" /\ bill'[c].amount = Total[bill'[c].of] /\ bill'[c].seq = 0
    <3>1. CASE c = b
      BY <1>2, <1>3, <2>2, <3>1
    <3>2. CASE c # b
      BY <1>1, <1>2, <2>2, <3>2 DEF SegmentsCharge
    <3> QED BY <3>1, <3>2
  <2> QED BY <2>1, <2>2 DEF SegmentsCharge
<1>12. BillsNamed'
  <2> SUFFICES ASSUME NEW c \in Bills
               PROVE  /\ /\ Waiting(c)' /\ bill'[c].door = "method" /\ bill'[c].product # "va"
                         /\ pay'[bill'[c].row].st = "created" /\ ~pay'[bill'[c].row].del
                         => named'[bill'[c].row] = c
                      /\ bill'[c].st = "ended" => bill'[c].product \in {"card", "qris"}
    BY DEF BillsNamed
  <2>1. CASE c = b
    BY <1>2, <1>3, <2>1
  <2>2. CASE c # b
    <3>1. bill'[c] = bill[c] /\ (Waiting(c)' <=> Waiting(c))
      BY <1>2, <1>7, <2>2
    <3>2. bill[c].st = "ended" => bill[c].product \in {"card", "qris"}
      BY <1>1 DEF BillsNamed
    <3>3. ASSUME Waiting(c), bill[c].door = "method", bill[c].product # "va",
                 pay'[bill[c].row].st = "created", ~pay'[bill[c].row].del
          PROVE  named'[bill[c].row] = c
      <4>1. bill[c].row \in Payments
        <5>1. bill[c].st # "none"
          BY <1>1, <3>3 DEF Waiting, CallsOnce
        <5>2. bill[c].row # 0
          BY <1>1, <3>3, <5>1 DEF BillRows
        <5> QED BY <1>1, <5>2 DEF BillRow
      <4>2. pay'[bill[c].row] = pay[bill[c].row] /\ named'[bill[c].row] = named[bill[c].row]
        BY <1>5, <1>6, <4>1 DEF Inserts
      <4> QED BY <1>1, <3>3, <4>2 DEF BillsNamed
    <3> QED BY <3>1, <3>2, <3>3
  <2> QED BY <2>1, <2>2
<1>13. \A x \in Orders : Settled(pay', x) = Settled(pay, x)
  BY <1>6 DEF Settled, Inserts, Unused
<1>14. ASSUME NEW x \in Orders, Prompt(x)'
       PROVE  OrderTells(x)' /\ RailsMatch(x)' /\ ToldArePaid(x)' /\ OrderTells(x) /\ RowsFit(x)
  <2>1. Prompt(x)
    <3>1. \A c \in Bills : bill[c].late => bill'[c] = bill[c]
      BY <1>2, <1>3
    <3> QED BY <1>14, <3>1 DEF Prompt
  <2>2. OrderTells(x) /\ RailsMatch(x) /\ ToldArePaid(x) /\ RowsFit(x)
    BY <1>1, <2>1 DEF PromptOrders
  <2>3. OrderTells(x)'
    <3>1. OrderFollows(x)
      BY <1>13 DEF OrderFollows
    <3> QED BY <1>10, <2>2, <3>1, OrderStillTells
  <2>4. RailsMatch(x)'
    <3> SUFFICES ASSUME NEW q \in Payments, pay'[q].of = x, named'[q] # 0
                 PROVE  pay'[q].rail = RailOf(bill'[named'[q]].product)
      BY DEF RailsMatch
    <3>1. CASE q = row /\ named'[q] = b
      BY <1>1, <1>2, <1>3, <3>1
    <3>2. CASE ~(q = row /\ named'[q] = b)
      <4>1. pay'[q] = pay[q] /\ named'[q] = named[q]
        BY <1>6, <3>2
      <4>2. named[q] \in Bills \ {b}
        BY <1>1, <1>4, <4>1
      <4> QED BY <1>2, <2>2, <4>1, <4>2 DEF RailsMatch
    <3> QED BY <3>1, <3>2
  <2>5. ToldArePaid(x)'
    <3> SUFFICES ASSUME NEW c \in Bills, bill'[c].of = x, bill'[c].st = "told"
                 PROVE  bill'[c].row # 0 /\ pay'[bill'[c].row].st = "success"
      BY DEF ToldArePaid
    <3>1. bill'[c] = bill[c]
      BY <1>2, <1>3
    <3>2. bill[c].row # 0 /\ pay[bill[c].row].st = "success"
      BY <2>2, <3>1 DEF ToldArePaid
    <3>3. bill[c].row \in Payments
      BY <1>1, <3>2 DEF BillRow
    <3>4. pay'[bill[c].row] = pay[bill[c].row]
      BY <1>6, <3>2, <3>3 DEF Inserts, Unused
    <3> QED BY <3>1, <3>2, <3>4
  <2> QED BY <2>2, <2>3, <2>4, <2>5
<1>15. row # 0 /\ Unused(row) => named[row] = 0 /\ \A c \in Bills : ~Owes(c, row)
  BY <1>5 DEF Owes
<1> QED BY <1>2, <1>4, <1>8, <1>9, <1>10, <1>11, <1>12, <1>13, <1>14, <1>15 DEF new

(* A request that takes over a row nobody can pay through it, or none,     *)
(* owes nothing new.                                                       *)
LEMMA TakesOver ==
  ASSUME SnapInv, SnapInv', InquiryInv, NEW b \in Bills, NEW o \in Orders,
         NEW row \in Payments \cup {0}, NEW product \in Products, NEW amount \in Nat,
         NEW seq \in Nat, Ask(b, o, row, product, amount, seq, "legacy"),
         ord' = ord, pay' = pay, named' = named,
         row # 0 => product = "qris" \/ pay[row].st # "created",
         row = 0 => \/ product = "qris" /\ (amount > 0 \/ Total[o] = 0)
                    \/ product = "debit" /\ amount = Total[o] /\ seq = 0
  PROVE  InquiryInv'
<1>1. "legacy" \in Doors /\ "legacy" # "method" /\ 0 \notin Payments
  BY RowIds DEF Doors
<1>2. row # 0 => named'[row] # b
  <2> SUFFICES ASSUME row # 0, named[row] = b PROVE FALSE
    OBVIOUS
  <2>1. bill[b].row = row
    BY BillIds DEF SnapInv, NamedRows
  <2>2. bill[b] = NoBill
    BY DEF SnapInv, Ask, NextBill, BillRows
  <2> QED BY <2>1, <2>2 DEF NoBill
<1>3. /\ RowsInOrder' /\ SegmentsCharge' /\ BillsNamed' /\ SeqsStay
      /\ \A x \in Orders : Prompt(x)' =>
           /\ OrderTells(x)' /\ RailsMatch(x)' /\ ToldArePaid(x)' /\ OrderTells(x) /\ RowsFit(x)
      /\ \A x \in Orders : Settled(pay', x) = Settled(pay, x)
      /\ \A q \in Payments \ {row} : pay'[q] = pay[q] /\ Falls(q)
      /\ \A c \in Bills, q \in Payments : c # b => (Owes(c, q)' <=> Owes(c, q)) /\ bill'[c] = bill[c]
      /\ bill'[b] = BillAsked(o, row, product, amount, seq, "legacy")
  BY <1>1, <1>2, AskParts
<1>4. \A q \in Payments \ {0} : pay'[q] = pay[q] /\ Falls(q)
  <2>1. row # 0 => ~Owes(b, row)'
    <3>1. bill'[b].product = product
      BY <1>3 DEF BillAsked
    <3> QED BY <1>2, <3>1 DEF Owes
  <2>2. row # 0 => Falls(row)
    BY <1>3, <2>1 DEF Falls
  <2> QED BY <1>3, <2>2
<1>5. ASSUME NEW x \in Orders, Prompt(x)'
      PROVE  OrderTells(x)' /\ RailsMatch(x)' /\ ToldArePaid(x)' /\ RowsFit(x)'
  <2>1. 0 \notin Candidates(x)'
    BY <1>1 DEF Candidates, Payable, Live
  <2> QED BY <1>3, <1>4, <1>5, <2>1, RestFalls
<1>6. PromptOrders'
  BY <1>5 DEF PromptOrders
<1> QED BY <1>3, <1>6 DEF InquiryInv

(* create_doku_qris: a code is not paid through the row.                   *)
LEMMA AskQrisInquiry ==
  ASSUME SnapInv, SnapInv', InquiryInv, NEW b \in Bills, NEW o \in Orders,
         NEW i \in 1 .. SegmentCount(o), AskQris(b, o, i)
  PROVE  InquiryInv'
<1> DEFINE rows == Latest(pay, {p \in Live(pay, o) : pay[p].rail = "qris" /\ pay[p].seq = i})
<1>1. PICK row \in (IF rows = {} THEN {0} ELSE rows) :
        Ask(b, o, row, "qris", SegmentAmount(o, i), i, "legacy")
  BY DEF AskQris
<1>2. ord' = ord /\ pay' = pay /\ named' = named
  BY DEF AskQris, vars
<1>3. row \in Payments \cup {0}
  BY <1>1 DEF Latest, Live
<1> HIDE DEF rows
<1>4. i \in Nat /\ SegmentAmount(o, i) \in Nat /\ "qris" \in Products
  BY SegmentWithin DEF Products
<1>5. SegmentAmount(o, i) > 0 \/ Total[o] = 0
  <2>1. Total[o] \in Nat
    BY OrderConstants
  <2>2. Total[o] > 0 => SegmentAmount(o, i) \in 1 .. SegmentLimit
    BY Segments
  <2> QED BY <2>1, <2>2, <1>4
<1> QED BY <1>1, <1>2, <1>3, <1>4, <1>5, TakesOver

(* Orders that are open without settled money have all to be paid.         *)
LEMMA NothingPaid ==
  ASSUME SnapInv, NEW o \in Orders, OrderTells(o), ord[o].st \in {"draft", "pending"}
  PROVE  Paid(pay, o) = 0 /\ Remaining(pay, o) = Total[o] /\ Total[o] \in Nat
<1>1. pay \in Tables
  BY DEF SnapInv, TypeOKSnap, TypeOK, Tables
<1>2. Paid(pay, o) \in Nat /\ Total[o] \in Nat
  BY <1>1, PaidBounds
<1>3. Paid(pay, o) = 0
  BY <1>2 DEF OrderTells
<1> QED BY <1>2, <1>3 DEF Remaining

(* create_doku_direct_va: a first row asks for the total, and a decided    *)
(* one is not paid through its old bill.                                   *)
LEMMA AskVaInquiry ==
  ASSUME SnapInv, SnapInv', InquiryInv, NEW b \in Bills, NEW o \in Orders,
         NEW p \in Payments, AskVa(b, o, p)
  PROVE  InquiryInv'
<1> DEFINE row == NewPay(o, "doku", "created", Total[o], 0)
<1>1. /\ Ask(b, o, p, "va", Total[o], 0, "legacy") /\ ord[o].st \in {"draft", "pending"}
      /\ ord' = ord /\ named' = named
      /\ Live(pay, o) = {} => Unused(p) /\ pay' = [pay EXCEPT ![p] = row]
      /\ Live(pay, o) # {} => p \in Live(pay, o) /\ p \notin Undecided(o) /\ pay' = pay
  BY DEF AskVa, Latest
<1>2. /\ Total[o] \in Nat /\ "va" \in Products /\ p # 0 /\ 0 \notin Payments /\ "legacy" \in Doors
      /\ pay \in Tables /\ pay \in [Payments -> PayRow] /\ "legacy" # "method"
  BY OrderConstants, RowIds DEF Products, Doors, SnapInv, TypeOKSnap, TypeOK, Tables
<1>3. row.of = o /\ row.st = "created" /\ row.gross = Total[o] /\ row.seq = 0 /\ ~row.del
  BY DEF NewPay
<1> HIDE DEF row
<1>4. CASE Live(pay, o) # {}
  <2>1. pay[p].st # "created"
    BY <1>1, <1>4 DEF Undecided
  <2> QED BY <1>1, <1>2, <1>4, <2>1, TakesOver
<1>5. CASE Live(pay, o) = {}
  <2>1. Unused(p) /\ pay'[p] = row /\ \A q \in Payments \ {p} : pay'[q] = pay[q]
    BY <1>1, <1>2, <1>5
  <2>2. Inserts(p, o)
    BY <1>3, <2>1 DEF Inserts
  <2>3. named[p] # b
    <3> SUFFICES ASSUME named[p] = b PROVE FALSE
      OBVIOUS
    <3>1. bill[b].row = p
      BY BillIds DEF SnapInv, NamedRows
    <3>2. bill[b] = NoBill
      BY <1>1 DEF SnapInv, Ask, NextBill, BillRows
    <3> QED BY <1>2, <3>1, <3>2 DEF NoBill
  <2>4. /\ RowsInOrder' /\ SegmentsCharge' /\ BillsNamed' /\ SeqsStay
        /\ \A x \in Orders : Prompt(x)' =>
             /\ OrderTells(x)' /\ RailsMatch(x)' /\ ToldArePaid(x)' /\ OrderTells(x) /\ RowsFit(x)
        /\ \A x \in Orders : Settled(pay', x) = Settled(pay, x)
        /\ \A q \in Payments \ {p} : pay'[q] = pay[q] /\ Falls(q)
    BY <1>1, <1>2, <2>1, <2>2, <2>3, AskParts
  <2>5. ASSUME NEW x \in Orders, Prompt(x)'
        PROVE  RowsFit(x)'
    <3>1. SeqsStay /\ RowsFit(x) /\ Settled(pay', x) = Settled(pay, x)
          /\ \A q \in Payments \ {p} : pay'[q] = pay[q] /\ Falls(q)
      BY <2>4, <2>5
    <3>2. CASE x # o
      <4>1. p \notin Candidates(x)'
        BY <1>3, <2>1, <3>2 DEF Candidates, Payable, Live
      <4> QED BY <1>1, <3>1, <4>1, RestFalls
    <3>3. CASE x = o
      <4>1. Paid(pay, x) = 0 /\ Remaining(pay, x) = Total[o]
        BY <1>1, <2>4, <2>5, <3>3, NothingPaid
      <4>2. /\ Candidates(x) = {} /\ Payable(x) = {} /\ Settled(pay, x) = {}
            /\ Candidates(x)' \subseteq {p}
        BY <1>5, <2>1, <3>3 DEF Candidates, Payable, Settled, Live
      <4>3. p \in Undecided(x)'
        BY <1>3, <2>1, <3>3 DEF Undecided, Live
      <4>4. Numbers(pay', p, Numbered(x), Numbered(x)', Candidates(x)', Remaining(pay, x))
        BY <1>2, <1>3, <2>1, <4>1, <4>2 DEF Numbers
      <4>5. Follows(pay', p, Payable(x), Candidates(x), Candidates(x)', Remaining(pay, x))
        BY <4>2 DEF Follows
      <4>6. Joins(pay', p, Payable(x), Candidates(x), Settled(pay, x), Payable(x)',
                  Remaining(pay, x), Paid(pay, x) > 0)
        BY <1>2, <1>3, <2>1, <4>1, <4>2 DEF Joins
      <4> QED BY <1>1, <3>1, <4>3, <4>4, <4>5, <4>6, RestFits
    <3> QED BY <3>2, <3>3
  <2>6. PromptOrders'
    BY <2>4, <2>5 DEF PromptOrders
  <2> QED BY <2>4, <2>6 DEF InquiryInv
<1> QED BY <1>4, <1>5

(* create_doku_direct_debit_payment: the row it takes over is the latest,  *)
(* and nothing of the order has been paid.                                 *)
LEMMA AskDebitInquiry ==
  ASSUME SnapInv, SnapInv', InquiryInv, NEW b \in Bills, NEW o \in Orders, AskDebit(b, o)
  PROVE  InquiryInv'
<1>1. PICK row \in (IF Live(pay, o) = {} THEN {0} ELSE Latest(pay, Live(pay, o))) :
        Ask(b, o, row, "debit", Total[o], 0, "legacy")
  BY DEF AskDebit
<1>2. /\ ord' = ord /\ pay' = pay /\ named' = named /\ ord[o].st \in {"draft", "pending"}
      /\ \A p \in Latest(pay, Live(pay, o)) : pay[p].rail \in {"doku", "va", "debit"}
  BY DEF AskDebit, vars
<1>3. /\ row \in Payments \cup {0}
      /\ row # 0 => /\ row \in Live(pay, o) /\ pay[row].rail # "qris"
                    /\ \A q \in Live(pay, o) : q <= row
  BY <1>1, <1>2 DEF Latest, Live
<1>4. /\ Total[o] \in Nat /\ "debit" \in Products /\ 0 \notin Payments /\ "legacy" \in Doors
      /\ pay \in Tables /\ pay \in [Payments -> PayRow] /\ "legacy" # "method"
  BY OrderConstants, RowIds DEF Products, Doors, SnapInv, TypeOKSnap, TypeOK, Tables
<1>5. CASE row = 0 \/ pay[row].st # "created"
  BY <1>1, <1>2, <1>3, <1>4, <1>5, TakesOver
<1>6. CASE row # 0 /\ pay[row].st = "created"
  <2>1. named[row] # b
    <3> SUFFICES ASSUME named[row] = b PROVE FALSE
      OBVIOUS
    <3>1. bill[b].row = row
      BY <1>3, <1>6, BillIds DEF SnapInv, NamedRows
    <3>2. bill[b] = NoBill
      BY <1>1 DEF SnapInv, Ask, NextBill, BillRows
    <3> QED BY <1>6, <3>1, <3>2 DEF NoBill
  <2>2. /\ RowsInOrder' /\ SegmentsCharge' /\ BillsNamed' /\ SeqsStay
        /\ \A x \in Orders : Prompt(x)' =>
             /\ OrderTells(x)' /\ RailsMatch(x)' /\ ToldArePaid(x)' /\ OrderTells(x) /\ RowsFit(x)
        /\ \A x \in Orders : Settled(pay', x) = Settled(pay, x)
        /\ \A q \in Payments \ {row} : pay'[q] = pay[q] /\ Falls(q)
        /\ \A c \in Bills, q \in Payments : c # b => (Owes(c, q)' <=> Owes(c, q)) /\ bill'[c] = bill[c]
        /\ bill'[b] = BillAsked(o, row, "debit", Total[o], 0, "legacy")
    BY <1>1, <1>2, <1>3, <1>4, <1>6, <2>1, AskParts
  <2>3. ASSUME NEW x \in Orders, Prompt(x)'
        PROVE  RowsFit(x)'
    <3>1. SeqsStay /\ RowsFit(x) /\ Settled(pay', x) = Settled(pay, x)
          /\ \A q \in Payments \ {row} : pay'[q] = pay[q] /\ Falls(q)
      BY <2>2, <2>3
    <3>2. CASE x # o
      <4>1. row \notin Candidates(x)'
        BY <1>2, <1>3, <1>6, <3>2 DEF Candidates, Payable, Live
      <4> QED BY <1>2, <3>1, <4>1, RestFalls
    <3>3. CASE x = o
      <4>1. Paid(pay, x) = 0 /\ Remaining(pay, x) = Total[x]
        BY <1>2, <2>2, <2>3, <3>3, NothingPaid
      <4>2. /\ row \in Candidates(x) /\ row \in Undecided(x) /\ row \in Undecided(x)'
        BY <1>2, <1>3, <1>6, <3>3 DEF Candidates, Undecided
      <4>3. row \in Numbered(x)' => row \in Numbered(x)
        <5> SUFFICES ASSUME NEW c \in Bills, Owes(c, row)', bill'[c].product = "va"
                     PROVE  row \in Numbered(x)
          BY DEF Numbered
        <5>1. c # b
          BY <2>2 DEF BillAsked
        <5>2. Owes(c, row) /\ bill[c].product = "va"
          BY <1>3, <1>6, <2>2, <5>1
        <5>3. row \in Payable(x)
          BY <1>3, <1>6, <3>3, <5>2 DEF Payable
        <5> QED BY <4>2, <5>2, <5>3 DEF Numbered
      <4>4. Numbers(pay', row, Numbered(x), Numbered(x)', Candidates(x)', Remaining(pay, x))
        BY <4>3 DEF Numbers
      <4>5. Follows(pay', row, Payable(x), Candidates(x), Candidates(x)', Remaining(pay, x))
        BY <4>2 DEF Follows
      <4>6. Joins(pay', row, Payable(x), Candidates(x), Settled(pay, x), Payable(x)',
                  Remaining(pay, x), Paid(pay, x) > 0)
        <5>1. \A q \in Candidates(x) \cup Settled(pay, x) : q <= row
          <6>1. Candidates(x) \cup Settled(pay, x) \subseteq Live(pay, o)
            BY <3>3 DEF Candidates, Payable, Settled, Live
          <6> QED BY <1>3, <1>6, <6>1
        <5>2. pay[row].gross <= Total[x]
          BY <1>3, <1>6, <3>3 DEF SnapInv, WithinTotal, Live
        <5>3. ASSUME NEW q \in Settled(pay, x), pay[q].seq # 0
              PROVE  Total[x] = 0
          <6>1. \A r \in Settled(pay, x) : pay[r].seq # 0 => pay[r].gross > 0 \/ Total[x] = 0
            BY DEF InquiryInv, SegmentsCharge, Settled
          <6> QED BY <1>4, <4>1, <5>3, <6>1, SettledPays
        <5> QED BY <1>2, <4>1, <5>1, <5>2, <5>3 DEF Joins
      <4> QED BY <1>2, <3>1, <4>2, <4>4, <4>5, <4>6, RestFits
    <3> QED BY <3>2, <3>3
  <2>4. PromptOrders'
    BY <2>2, <2>3 DEF PromptOrders
  <2> QED BY <2>2, <2>4 DEF InquiryInv
<1> QED BY <1>5, <1>6

(* create_payment: no attempt is undecided, and the new row asks for all   *)
(* that remains or is a code.                                              *)
LEMMA ChooseMethodInquiry ==
  ASSUME SnapInv, SnapInv', InquiryInv, NEW b \in Bills, NEW o \in Orders,
         NEW p \in Payments, NEW product \in Products, ChooseMethod(b, o, p, product)
  PROVE  InquiryInv'
<1> DEFINE Charge(i) == IF product = "qris" THEN SegmentAmount(o, i) ELSE Remaining(pay, o)
<1>1. PICK i \in 1 .. SegmentCount(o) :
        /\ NextSegment(o, i)
        /\ Ask(b, o, p, product, Charge(i), i, "method")
        /\ pay' = [pay EXCEPT ![p] = NewPay(o, RailOf(product), "created", Charge(i), i)]
  BY DEF ChooseMethod
<1> DEFINE amount == Charge(i)
<1>2. /\ product \in {"va", "qris", "card"} /\ ord' = ord
      /\ Undecided(o) = {} /\ Remaining(pay, o) > 0 /\ Unused(p) /\ ord[o].st # "canceled"
      /\ named' = [named EXCEPT ![p] = IF product = "va" THEN 0 ELSE b]
  BY DEF ChooseMethod
<1>3. /\ pay \in Tables /\ pay \in [Payments -> PayRow] /\ 0 \notin Payments /\ p # 0
      /\ named \in [Payments -> Bills \cup {0}] /\ b # 0 /\ "method" \in Doors
      /\ RowsInOrder /\ Payments \subseteq Nat
  BY RowIds, BillIds DEF Doors, SnapInv, TypeOKSnap, TypeOK, Tables, InquiryInv
<1>4. /\ i \in Nat /\ i # 0 /\ Total[o] \in Nat /\ Remaining(pay, o) \in Nat
      /\ Remaining(pay, o) <= Total[o] /\ Total[o] > 0
  BY <1>2, <1>3, SegmentWithin, PaidBounds DEF Remaining
<1>5. amount \in Nat /\ amount > 0 /\ (product # "qris" => amount = Remaining(pay, o))
  <2>1. CASE product = "qris"
    <3>1. SegmentAmount(o, i) \in 1 .. SegmentLimit
      BY <1>4, Segments
    <3>2. SegmentAmount(o, i) \in Nat
      BY SegmentWithin
    <3> QED BY <1>1, <2>1, <3>1, <3>2
  <2>2. CASE product # "qris"
    BY <1>1, <1>2, <1>4, <2>2
  <2> QED BY <2>1, <2>2
<1> DEFINE row == NewPay(o, RailOf(product), "created", amount, i)
<1>6. /\ row.of = o /\ row.st = "created" /\ row.gross = amount /\ row.seq = i
      /\ ~row.del /\ row.rail = RailOf(product)
  BY DEF NewPay
<1>7. pay'[p] = row /\ \A q \in Payments \ {p} : pay'[q] = pay[q]
  BY <1>1, <1>3
<1>13. Ask(b, o, p, product, amount, i, "method") /\ NextSegment(o, i)
  BY <1>1
<1> HIDE DEF row, amount, Charge
<1>8. Inserts(p, o)
  BY <1>2, <1>5, <1>6, <1>7 DEF Inserts
<1>9. /\ \A q \in Payments \ {p} : named'[q] = named[q]
      /\ named'[p] = (IF product = "va" THEN 0 ELSE b)
  BY <1>2, <1>3
<1>10. /\ RowsInOrder' /\ SegmentsCharge' /\ BillsNamed' /\ SeqsStay
       /\ \A x \in Orders : Prompt(x)' =>
            /\ OrderTells(x)' /\ RailsMatch(x)' /\ ToldArePaid(x)' /\ OrderTells(x) /\ RowsFit(x)
       /\ \A x \in Orders : Settled(pay', x) = Settled(pay, x)
       /\ \A q \in Payments \ {p} : pay'[q] = pay[q] /\ Falls(q)
       /\ \A c \in Bills, q \in Payments : c # b => (Owes(c, q)' <=> Owes(c, q)) /\ bill'[c] = bill[c]
       /\ p # 0 /\ Unused(p) => named[p] = 0 /\ \A c \in Bills : ~Owes(c, p)
       /\ bill'[b] = BillAsked(o, p, product, amount, i, "method")
  <2>2. \/ pay' = pay /\ named' = named
        \/ Inserts(p, o) /\ named'[p] \in {0, b, named[p]}
    BY <1>8, <1>9
  <2>3. \A q \in Payments \ {p} : pay'[q] = pay[q] /\ named'[q] = named[q]
    BY <1>7, <1>9
  <2>4. pay'[p].rail = RailOf(product)
    BY <1>6, <1>7
  <2>5. product # "va" => p # 0 /\ named'[p] = b
    BY <1>3, <1>9
  <2> QED BY <1>2, <1>3, <1>4, <1>5, <1>13, <2>2, <2>3, <2>4, <2>5, AskParts
<1>11. ASSUME NEW x \in Orders, Prompt(x)'
       PROVE  RowsFit(x)'
  <2>1. /\ SeqsStay /\ RowsFit(x) /\ Settled(pay', x) = Settled(pay, x)
        /\ \A q \in Payments \ {p} : pay'[q] = pay[q] /\ Falls(q)
    BY <1>10, <1>11
  <2>2. CASE x # o
    <3>1. p \notin Candidates(x)'
      BY <1>6, <1>7, <2>2 DEF Candidates, Payable, Live
    <3> QED BY <1>2, <2>1, <3>1, RestFalls
  <2>3. CASE product = "qris"
    <3>1. ~Owes(b, p)'
      BY <1>10, <2>3 DEF Owes, BillAsked
    <3>2. \A c \in Bills : ~Owes(c, p)'
      BY <1>2, <1>3, <1>10, <3>1
    <3>3. p \notin Candidates(x)'
      BY <1>6, <1>7, <2>3, <3>2 DEF Candidates, Payable, RailOf
    <3> QED BY <1>2, <2>1, <3>3, RestFalls
  <2>4. CASE x = o /\ product # "qris"
    <3>1. amount = Remaining(pay, x)
      BY <1>5, <2>4
    <3>2. Candidates(x) = Payable(x) /\ \A q \in Payable(x) : pay[q].gross >= Remaining(pay, x)
      <4>1. Candidates(x) = Payable(x)
        BY <1>2, <2>4 DEF Candidates, Undecided
      <4>2. \A q \in Payable(x) \ Undecided(x) : pay[q].gross >= Remaining(pay, x)
        BY <1>2, <2>1, <2>4 DEF RowsFit, Fits
      <4> QED BY <1>2, <2>4, <4>1, <4>2
    <3>3. p \in Undecided(x)'
      BY <1>6, <1>7, <2>4 DEF Undecided, Live
    <3>4. p \notin Candidates(x) /\ Candidates(x) \subseteq Payments /\ Candidates(x)' \subseteq Payments
      BY <1>2 DEF Candidates, Payable, Live, Unused
    <3>5. \A q \in Candidates(x)' \ {p} : q \in Candidates(x) /\ pay'[q] = pay[q]
      BY <2>1, <3>4, RowFalls
    <3>6. pay'[p].gross = Remaining(pay, x) /\ pay'[p].seq = i
      BY <1>6, <1>7, <3>1
    <3>7. Numbers(pay', p, Numbered(x), Numbered(x)', Candidates(x)', Remaining(pay, x))
      BY <1>4, <2>4, <3>2, <3>5, <3>6 DEF Numbers
    <3>8. \A q \in Payable(x) : pay'[q] = pay[q]
      BY <1>7, <3>2, <3>4
    <3>9. Follows(pay', p, Payable(x), Candidates(x), Candidates(x)', Remaining(pay, x))
      BY <1>4, <2>4, <3>2, <3>6, <3>8 DEF Follows
    <3>10. \A q \in Candidates(x) \cup Settled(pay, x) : q <= p
      <4>1. \A q \in Candidates(x) \cup Settled(pay, x) : q \in Payments /\ pay[q].st # "absent"
        BY DEF Candidates, Payable, Live, Settled
      <4>2. \A q \in Payments : p < q => pay[q].st = "absent"
        BY <1>2, <1>3 DEF RowsInOrder, Unused
      <4>3. \A q \in Payments : q <= p \/ p < q
        BY <1>3
      <4> QED BY <4>1, <4>2, <4>3
    <3>11. \A q \in Settled(pay, x) : pay'[q].seq # i
      <4>1. \A q \in Settled(pay, x) : pay[q].seq # i
        BY <1>13, <2>4 DEF NextSegment, Unsettled
      <4>2. \A q \in Settled(pay, x) : pay'[q] = pay[q]
        BY <1>2, <1>7 DEF Settled, Unused
      <4> QED BY <4>1, <4>2
    <3>12. Joins(pay', p, Payable(x), Candidates(x), Settled(pay, x), Payable(x)',
                 Remaining(pay, x), Paid(pay, x) > 0)
      BY <1>4, <2>4, <3>6, <3>10, <3>11 DEF Joins
    <3> QED BY <1>2, <2>1, <3>3, <3>7, <3>9, <3>12, RestFits
  <2> QED BY <2>2, <2>3, <2>4
<1>12. PromptOrders'
  BY <1>10, <1>11 DEF PromptOrders
<1> QED BY <1>10, <1>12 DEF InquiryInv

-----------------------------------------------------------------------------
(* Answers                                                                 *)

(* What the answer to bill b for row p leaves, of bills, calls and names;  *)
(* of the row; and of its order.                                           *)
BillHas(b, p) ==
  /\ bill[b].st \notin {"none", "asked"} /\ bill[b].of \in Orders /\ ord[bill[b].of].st # "absent"
  /\ bill'[b].row = p /\ bill'[b].of = bill[b].of /\ bill'[b].product = bill[b].product
  /\ bill'[b].st = bill[b].st /\ ~bill[b].late
  /\ \A c \in Bills \ {b} : bill'[c] = bill[c]
  /\ \A c \in Bills \ {b} : Waiting(c)' <=> Waiting(c)
  /\ Waiting(b) /\ ~Waiting(b)'
  /\ \A q \in Payments \ {p} : named'[q] = named[q]
  /\ named'[p] = IF bill[b].door = "method" /\ bill[b].product # "va" THEN named[p] ELSE b

RowHas(b, p) ==
  /\ pay'[p].of = bill[b].of /\ pay'[p].st = "pending" /\ pay'[p].rail = RailOf(bill[b].product)
  /\ \A q \in Payments \ {p} : pay'[q] = pay[q]
  /\ bill[b].row # 0 =>
       /\ bill[b].row = p /\ pay[p].st # "absent" /\ pay[p].of = bill[b].of
       /\ pay'[p].gross = pay[p].gross /\ pay'[p].seq = pay[p].seq
       /\ pay[p].del => pay'[p].del
       /\ ~bill'[b].late => pay[p].st = "created" /\ ~pay[p].del /\ ~pay'[p].del
  /\ bill[b].row = 0 =>
       /\ Unused(p) /\ named[p] = 0 /\ bill[b].door = "legacy"
       /\ pay'[p].gross = bill[b].amount /\ pay'[p].seq = bill[b].seq /\ ~pay'[p].del
       /\ \A c \in Bills : bill[c].row # p

OrderHas(b) ==
  /\ \A x \in Orders : x # bill[b].of => ord'[x] = ord[x]
  /\ ord'[bill[b].of].st = ord[bill[b].of].st \/
       /\ ord'[bill[b].of].st = "pending"
       /\ bill'[b].late \/ ord[bill[b].of].st = "draft"

(* Only an answer to the bill does that, and all of it.                    *)
LEMMA AnsweredParts ==
  ASSUME SnapInv, NEW b \in Bills, NEW p \in Payments, Answer(b, p)
  PROVE  BillHas(b, p) /\ RowHas(b, p) /\ OrderHas(b)
<1>1. PICK st \in OrderStatuses :
        LET o == bill[b].of
            opens == st = "draft" /\ (bill[b].door = "method" \/ bill[b].product = "va")
        IN  /\ <<b, st>> \in call
            /\ call' = call \ {<<b, st>>}
            /\ ord' = IF opens THEN [ord EXCEPT ![o].st = "pending"] ELSE ord
            /\ bill' = [bill EXCEPT ![b].row = p,
                 ![b].late = \/ bill[b].row # 0 /\ (pay[p].st # "created" \/ pay[p].del)
                             \/ opens /\ ord[o].st # "draft"]
  BY DEF Answer
<1> DEFINE opens == st = "draft" /\ (bill[b].door = "method" \/ bill[b].product = "va")
           late == \/ bill[b].row # 0 /\ (pay[p].st # "created" \/ pay[p].del)
                   \/ opens /\ ord[bill[b].of].st # "draft"
<1>2. /\ bill \in [Bills -> BillRow] /\ CallsOnce /\ BillRows /\ NamedRows /\ RowsLinked
      /\ ord \in [Orders -> OrderRow] /\ call \subseteq Bills \X OrderStatuses
      /\ pay \in [Payments -> PayRow] /\ named \in [Payments -> Bills \cup {0}]
      /\ p # 0 /\ b # 0
  BY RowIds, BillIds DEF SnapInv, TypeOKSnap, TypeOK
<1>3. <<b, st>> \in call /\ call' = call \ {<<b, st>>}
  BY <1>1
<1>4. bill' = [bill EXCEPT ![b] = [bill[b] EXCEPT !.row = p, !.late = late]]
  BY <1>1, <1>2 DEF BillRow
<1>5. ord' = IF opens THEN [ord EXCEPT ![bill[b].of].st = "pending"] ELSE ord
  BY <1>1
<1>6. /\ bill[b].st \notin {"none", "asked"} /\ ~bill[b].late
      /\ bill[b].of \in Orders /\ ord[bill[b].of].st # "absent"
      /\ \A c \in call' : c[1] # b
  BY AnsweredBill, AnsweredPay
<1> HIDE DEF late, opens
<1>7. /\ bill'[b].row = p /\ bill'[b].of = bill[b].of /\ bill'[b].product = bill[b].product
      /\ bill'[b].st = bill[b].st
      /\ \A c \in Bills \ {b} : bill'[c] = bill[c]
  BY <1>2, <1>4 DEF BillRow
<1>8. bill'[b].late = late
  BY <1>2, <1>4 DEF BillRow
<1>9. /\ Waiting(b) /\ ~Waiting(b)'
      /\ \A c \in Bills \ {b} : Waiting(c)' <=> Waiting(c)
  <2>1. \A d : d \in call' <=> d \in call /\ d # <<b, st>>
    BY <1>3
  <2>2. ~Waiting(b)'
    BY <1>6 DEF Waiting
  <2>3. Waiting(b)
    BY <1>3 DEF Waiting
  <2>4. ASSUME NEW c \in Bills \ {b} PROVE Waiting(c)' <=> Waiting(c)
    <3>1. \A d : d[1] = c => d # <<b, st>>
      OBVIOUS
    <3> QED BY <2>1, <3>1 DEF Waiting
  <2> QED BY <2>2, <2>3, <2>4
<1>10. /\ \A q \in Payments \ {p} : named'[q] = named[q]
       /\ named'[p] = IF bill[b].door = "method" /\ bill[b].product # "va" THEN named[p] ELSE b
  BY <1>2 DEF Answer, NamedAfter
<1>11. BillHas(b, p)
  BY <1>6, <1>7, <1>9, <1>10 DEF BillHas
<1>12. OrderHas(b)
  <2>1. \A x \in Orders : x # bill[b].of => ord'[x] = ord[x]
    BY <1>2, <1>5
  <2>2. CASE ~opens
    BY <1>5, <2>1, <2>2 DEF OrderHas
  <2>3. CASE opens
    <3>1. ord'[bill[b].of].st = "pending"
      BY <1>2, <1>5, <1>6, <2>3 DEF OrderRow
    <3>2. bill'[b].late \/ ord[bill[b].of].st = "draft"
      BY <1>8, <2>3 DEF late
    <3> QED BY <2>1, <3>1, <3>2 DEF OrderHas
  <2> QED BY <2>2, <2>3
<1> DEFINE new == AnsweredRow(b, pay[p])
<1>13. /\ pay'[p] = new /\ \A q \in Payments \ {p} : pay'[q] = pay[q]
       /\ new.st = "pending" /\ new.of = bill[b].of
       /\ bill[b].row # 0 => /\ p = bill[b].row
                             /\ pay[p].st # "absent" /\ pay[p].of = bill[b].of
                             /\ new.gross = pay[p].gross /\ new.del = pay[p].del
  <2>1. pay' = [pay EXCEPT ![p] = AnsweredRow(b, pay[p])]
    BY AnsweredPay
  <2> QED BY <1>2, <2>1, AnsweredPay
<1>14. CASE bill[b].row # 0
  <2>1. new = [pay[p] EXCEPT !.rail = RailOf(bill[b].product), !.st = "pending"]
    BY <1>14 DEF AnsweredRow, Answered
  <2>2. new.rail = RailOf(bill[b].product) /\ new.seq = pay[p].seq
    BY <1>2, <2>1 DEF PayRow
  <2>3. ~bill'[b].late => pay[p].st = "created" /\ ~pay[p].del
    BY <1>8, <1>14 DEF late
  <2> HIDE DEF new
  <2>4. pay[p].del => pay'[p].del
    BY <1>13, <1>14
  <2>5. ~pay[p].del => ~pay'[p].del
    BY <1>13, <1>14
  <2> QED BY <1>11, <1>12, <1>13, <1>14, <2>2, <2>3, <2>4, <2>5 DEF RowHas
<1>15. CASE bill[b].row = 0
  <2>1. new = NewPay(bill[b].of, RailOf(bill[b].product), "pending", bill[b].amount, bill[b].seq)
    BY <1>15 DEF AnsweredRow, Answered
  <2>2. new.rail = RailOf(bill[b].product) /\ new.gross = bill[b].amount
        /\ new.seq = bill[b].seq /\ ~new.del
    BY <2>1 DEF NewPay
  <2>3. Unused(p)
    BY <1>15 DEF Answer
  <2>4. \A c \in Bills : bill[c].row # p
    BY <1>2, <2>3 DEF BillRows, Unused
  <2>5. named[p] = 0
    BY <1>2, <2>4 DEF NamedRows
  <2>6. bill[b].door = "legacy"
    BY <1>2, <1>6, <1>15 DEF BillRows, BillRow, Doors
  <2> HIDE DEF new
  <2> QED BY <1>11, <1>12, <1>13, <1>15, <2>2, <2>3, <2>4, <2>5, <2>6 DEF RowHas
<1> QED BY <1>11, <1>12, <1>14, <1>15

(* What holds of every table outlives an answer, late or not.              *)
LEMMA AnsweredTables ==
  ASSUME SnapInv, SnapInv', InquiryInv, NEW b \in Bills, NEW p \in Payments,
         BillHas(b, p), RowHas(b, p)
  PROVE  RowsInOrder' /\ SegmentsCharge' /\ BillsNamed' /\ SeqsStay
<1>1. /\ bill \in [Bills -> BillRow] /\ BillRows /\ pay \in [Payments -> PayRow]
      /\ RowsInOrder /\ SegmentsCharge /\ BillsNamed /\ p # 0
  BY RowIds DEF InquiryInv, SnapInv, TypeOKSnap, TypeOK
<1>2. SeqsStay
  BY DEF SeqsStay, RowHas, Unused
<1>3. RowsInOrder'
  <2> SUFFICES ASSUME NEW r \in Payments, NEW q \in Payments, q < r, pay'[r].st # "absent"
               PROVE  pay'[q].st # "absent"
    BY DEF RowsInOrder
  <2>1. pay[q].st # "absent"
    <3>1. CASE r = p /\ bill[b].row = 0
      BY <3>1 DEF RowHas, Unused
    <3>2. CASE ~(r = p /\ bill[b].row = 0)
      <4>1. pay[r].st # "absent"
        BY <3>2 DEF RowHas
      <4> QED BY <1>1, <4>1 DEF RowsInOrder
    <3> QED BY <3>1, <3>2
  <2> QED BY <2>1 DEF RowHas
<1>4. SegmentsCharge'
  <2>1. ASSUME NEW q \in Payments, pay'[q].st # "absent", pay'[q].seq # 0
        PROVE  pay'[q].gross > 0 \/ Total[pay'[q].of] = 0
    <3>1. CASE q = p /\ bill[b].row = 0
      BY <1>1, <2>1, <3>1 DEF SegmentsCharge, RowHas, BillHas
    <3>2. CASE q = p /\ bill[b].row # 0
      BY <1>1, <2>1, <3>2 DEF SegmentsCharge, RowHas
    <3>3. CASE q # p
      BY <1>1, <2>1, <3>3 DEF SegmentsCharge, RowHas
    <3> QED BY <3>1, <3>2, <3>3
  <2>2. ASSUME NEW c \in Bills, bill'[c].st # "none", bill'[c].row = 0
        PROVE  \/ bill'[c].product = "qris" /\ (bill'[c].amount > 0 \/ Total[bill'[c].of] = 0)
               \/ bill'[c].product = "debit" /\ bill'[c].amount = Total[bill'[c].of] /\ bill'[c].seq = 0
    <3>1. bill'[c] = bill[c]
      BY <1>1, <2>2 DEF BillHas
    <3> QED BY <1>1, <2>2, <3>1 DEF SegmentsCharge
  <2> QED BY <2>1, <2>2 DEF SegmentsCharge
<1>5. BillsNamed'
  <2>1. ASSUME NEW c \in Bills, bill'[c].st = "ended"
        PROVE  bill'[c].product \in {"card", "qris"}
    BY <1>1, <2>1 DEF BillHas, BillsNamed
  <2>2. ASSUME NEW c \in Bills, Waiting(c)', bill'[c].door = "method", bill'[c].product # "va",
               pay'[bill'[c].row].st = "created", ~pay'[bill'[c].row].del
        PROVE  named'[bill'[c].row] = c
    <3>1. c # b /\ bill'[c] = bill[c] /\ Waiting(c)
      BY <2>2 DEF BillHas
    <3>2. bill[c].row \in Payments
      <4>1. bill[c].st # "none"
        BY <3>1 DEF Waiting, CallsOnce, SnapInv
      <4>2. bill[c].row # 0
        BY <1>1, <2>2, <3>1, <4>1 DEF BillRows
      <4> QED BY <1>1, <4>2 DEF BillRow
    <3>3. bill[c].row # p
      BY <2>2, <3>1 DEF RowHas
    <3>4. pay'[bill[c].row] = pay[bill[c].row] /\ named'[bill[c].row] = named[bill[c].row]
      BY <3>2, <3>3 DEF RowHas, BillHas
    <3> QED BY <1>1, <2>2, <3>1, <3>4 DEF BillsNamed
  <2> QED BY <2>1, <2>2 DEF BillsNamed
<1> QED BY <1>2, <1>3, <1>4, <1>5

(* Other rows stay, and are owed no more.                                  *)
LEMMA AnsweredOthers ==
  ASSUME NEW b \in Bills, NEW p \in Payments, BillHas(b, p), RowHas(b, p)
  PROVE  \A q \in Payments \ {p} : pay'[q] = pay[q] /\ Falls(q)
<1> SUFFICES ASSUME NEW q \in Payments \ {p}, NEW c \in Bills, Owes(c, q)'
             PROVE  Owes(c, q) /\ bill'[c].product = bill[c].product
  BY DEF Falls, RowHas
<1>1. c # b
  BY DEF Owes, BillHas
<1>2. /\ bill'[c] = bill[c] /\ (Waiting(c)' <=> Waiting(c))
      /\ pay'[q] = pay[q] /\ named'[q] = named[q]
  BY <1>1 DEF BillHas, RowHas
<1> QED BY <1>2 DEF Owes

(* The other orders see nothing of it.                                     *)
LEMMA AnsweredElsewhere ==
  ASSUME SnapInv, SnapInv', InquiryInv, NEW b \in Bills, NEW p \in Payments,
         BillHas(b, p), RowHas(b, p), OrderHas(b),
         NEW x \in Orders, x # bill[b].of, Prompt(x)'
  PROVE  OrderTells(x)' /\ RailsMatch(x)' /\ ToldArePaid(x)' /\ RowsFit(x)'
<1>1. /\ bill \in [Bills -> BillRow] /\ BillRows /\ named \in [Payments -> Bills \cup {0}]
      /\ SeqsStay /\ NamedRows
      /\ \A q \in Payments \ {p} : pay'[q] = pay[q] /\ Falls(q)
  BY AnsweredTables, AnsweredOthers DEF SnapInv, TypeOKSnap
<1>2. OrderTells(x) /\ RailsMatch(x) /\ ToldArePaid(x) /\ RowsFit(x)
  <2>1. Prompt(x)
    BY DEF Prompt, BillHas
  <2> QED BY <2>1 DEF InquiryInv, PromptOrders
<1>3. pay'[p].of # x /\ (pay[p].st = "absent" \/ pay[p].of # x) /\ ord'[x] = ord[x]
  BY DEF RowHas, OrderHas, Unused
<1>4. Settled(pay', x) = Settled(pay, x)
  BY <1>1, <1>3 DEF Settled
<1>5. OrderTells(x)'
  <2>1. OrderFollows(x)
    BY <1>3, <1>4 DEF OrderFollows
  <2> QED BY <1>1, <1>2, <2>1, OrderStillTells
<1>6. RailsMatch(x)'
  <2> SUFFICES ASSUME NEW q \in Payments, pay'[q].of = x, named'[q] # 0
               PROVE  pay'[q].rail = RailOf(bill'[named'[q]].product)
    BY DEF RailsMatch
  <2>1. pay'[q] = pay[q] /\ named'[q] = named[q]
    BY <1>1, <1>3 DEF BillHas
  <2>2. named[q] \in Bills
    BY <1>1, <2>1
  <2>3. bill'[named[q]].product = bill[named[q]].product
    BY <2>2 DEF BillHas
  <2> QED BY <1>2, <2>1, <2>3 DEF RailsMatch
<1>7. ToldArePaid(x)'
  <2> SUFFICES ASSUME NEW c \in Bills, bill'[c].of = x, bill'[c].st = "told"
               PROVE  bill'[c].row # 0 /\ pay'[bill'[c].row].st = "success"
    BY DEF ToldArePaid
  <2>1. bill'[c] = bill[c]
    BY DEF BillHas
  <2>2. bill[c].row # 0 /\ pay[bill[c].row].st = "success"
    BY <1>2, <2>1 DEF ToldArePaid
  <2>3. bill[c].row \in Payments /\ pay[bill[c].row].of = x
    BY <1>1, <2>1, <2>2 DEF BillRow, BillRows
  <2>4. pay'[bill[c].row] = pay[bill[c].row]
    BY <1>1, <1>3, <2>2, <2>3
  <2> QED BY <2>1, <2>2, <2>4
<1>8. RowsFit(x)'
  <2>1. p \notin Candidates(x)'
    BY <1>3 DEF Candidates, Payable, Live
  <2> QED BY <1>1, <1>2, <1>3, <1>4, <2>1, RestFalls
<1> QED BY <1>5, <1>6, <1>7, <1>8

(* On its own order, an answer in time finds the row as it was left, or    *)
(* adds one that asks for everything.                                      *)
LEMMA AnsweredHere ==
  ASSUME SnapInv, SnapInv', InquiryInv, NEW b \in Bills, NEW p \in Payments,
         BillHas(b, p), RowHas(b, p), OrderHas(b),
         NEW o \in Orders, o = bill[b].of, Prompt(o)'
  PROVE  OrderTells(o)' /\ RailsMatch(o)' /\ ToldArePaid(o)' /\ RowsFit(o)'
<1>1. /\ bill \in [Bills -> BillRow] /\ BillRows /\ named \in [Payments -> Bills \cup {0}]
      /\ SeqsStay /\ NamedRows /\ pay \in Tables /\ p # 0 /\ b # 0
      /\ RowsInOrder /\ SegmentsCharge /\ BillsNamed /\ Payments \subseteq Nat
      /\ \A q \in Payments \ {p} : pay'[q] = pay[q] /\ Falls(q)
  BY RowIds, BillIds, AnsweredTables, AnsweredOthers
     DEF SnapInv, TypeOKSnap, TypeOK, Tables, InquiryInv
<1>2. OrderTells(o) /\ RailsMatch(o) /\ ToldArePaid(o) /\ RowsFit(o)
  <2>1. Prompt(o)
    BY DEF Prompt, BillHas
  <2> QED BY <2>1 DEF InquiryInv, PromptOrders
<1>3. ~bill'[b].late
  BY DEF Prompt, BillHas
<1>4. /\ bill[b].row # 0 => pay[p].st = "created" /\ ~pay[p].del /\ ~pay'[p].del
                            /\ pay[p].of = o /\ bill[b].row = p
      /\ pay'[p].of = o /\ pay'[p].st = "pending" /\ pay'[p].rail = RailOf(bill[b].product)
      /\ pay[p].st \in {"absent", "created"} /\ ~pay'[p].del
  BY <1>3 DEF RowHas, Unused
<1>5. Settled(pay', o) = Settled(pay, o)
  BY <1>1, <1>4 DEF Settled
<1>6. bill[b].st # "told"
  <2> SUFFICES ASSUME bill[b].st = "told" PROVE FALSE
    OBVIOUS
  <2>1. bill[b].row # 0 /\ pay[bill[b].row].st = "success"
    BY <1>2 DEF ToldArePaid
  <2> QED BY <1>4, <2>1
<1>7. named'[p] = b
  <2>1. CASE bill[b].door = "method" /\ bill[b].product # "va"
    <3>1. bill[b].row # 0
      BY <2>1 DEF RowHas
    <3>2. named[p] = b
      BY <1>1, <1>4, <2>1, <3>1 DEF BillsNamed, BillHas
    <3> QED BY <2>1, <3>2 DEF BillHas
  <2>2. CASE ~(bill[b].door = "method" /\ bill[b].product # "va")
    BY <2>2 DEF BillHas
  <2> QED BY <2>1, <2>2
<1>8. OrderTells(o)'
  <2>1. CASE ord'[o].st = ord[o].st
    <3>1. OrderFollows(o)
      BY <1>5, <2>1 DEF OrderFollows
    <3> QED BY <1>1, <1>2, <3>1, OrderStillTells
  <2>2. CASE ord'[o].st = "pending" /\ ord[o].st = "draft"
    <3>1. Paid(pay, o) = 0
      BY <1>2, <2>2, NothingPaid
    <3>2. Paid(pay', o) = Paid(pay, o)
      <4>1. \A q \in Settled(pay, o) : pay'[q].seq = pay[q].seq /\ pay'[q].gross = pay[q].gross
        BY <1>1 DEF SeqsStay, Settled
      <4> QED BY <1>5, <4>1, SameSettled
    <3>3. ~(Paid(pay', o) > 0)
      BY <3>1, <3>2
    <3> QED BY <2>2, <3>3 DEF OrderTells, Covered
  <2> QED BY <1>3, <2>1, <2>2 DEF OrderHas
<1>9. RailsMatch(o)'
  <2> SUFFICES ASSUME NEW q \in Payments, pay'[q].of = o, named'[q] # 0
               PROVE  pay'[q].rail = RailOf(bill'[named'[q]].product)
    BY DEF RailsMatch
  <2>1. CASE q = p
    BY <1>4, <1>7, <2>1 DEF BillHas
  <2>2. CASE q # p
    <3>1. pay'[q] = pay[q] /\ named'[q] = named[q]
      BY <1>1, <2>2 DEF BillHas
    <3>2. named[q] \in Bills
      BY <1>1, <3>1
    <3>3. bill'[named[q]].product = bill[named[q]].product
      BY <3>2 DEF BillHas
    <3> QED BY <1>2, <3>1, <3>3 DEF RailsMatch
  <2> QED BY <2>1, <2>2
<1>10. ToldArePaid(o)'
  <2> SUFFICES ASSUME NEW c \in Bills, bill'[c].of = o, bill'[c].st = "told"
               PROVE  bill'[c].row # 0 /\ pay'[bill'[c].row].st = "success"
    BY DEF ToldArePaid
  <2>1. bill'[c] = bill[c]
    BY <1>6 DEF BillHas
  <2>2. bill[c].row # 0 /\ pay[bill[c].row].st = "success"
    BY <1>2, <2>1 DEF ToldArePaid
  <2>3. bill[c].row \in Payments
    BY <1>1, <2>2 DEF BillRow
  <2>4. pay'[bill[c].row] = pay[bill[c].row]
    BY <1>1, <1>4, <2>2, <2>3
  <2> QED BY <2>1, <2>2, <2>4
<1>11. \A c \in Bills : Owes(c, p)' => c = b /\ bill[b].product # "qris" /\ bill[b].st # "ended"
  BY <1>4, <1>7 DEF Owes, BillHas
<1>12. p \in Live(pay, o)' /\ p \in Undecided(o)'
  BY <1>4 DEF Live, Undecided
<1>13. ord[o].st = "canceled" => ord'[o].st = "canceled"
  BY <1>3 DEF OrderHas
<1>14. p \in Candidates(o)' => p \in Payable(o)' /\ bill[b].product # "qris"
  BY <1>4, <1>11 DEF Candidates, Payable
<1>15. CASE bill[b].row # 0
  <2>1. Owes(b, p)' => Owes(b, p)
    BY <1>4, <1>15 DEF Owes, BillHas
  <2>2. p \in Payable(o)' => p \in Payable(o)
    BY <1>4, <1>11, <1>15, <2>1 DEF Payable, Live
  <2>3. p \in Candidates(o)' => p \in Candidates(o)
    BY <1>14, <2>2 DEF Candidates
  <2>4. p \in Numbered(o)' => p \in Numbered(o)
    <3> SUFFICES ASSUME p \in Payable(o)', NEW c \in Bills, Owes(c, p)', bill'[c].product = "va"
                 PROVE  p \in Numbered(o)
      BY DEF Numbered
    <3>1. Owes(b, p) /\ bill[b].product = "va"
      BY <1>11, <2>1 DEF BillHas
    <3>2. p \in Undecided(o)
      BY <1>4, <1>15 DEF Undecided, Live
    <3> QED BY <2>2, <3>1, <3>2 DEF Numbered
  <2>5. /\ Numbers(pay', p, Numbered(o), Numbered(o)', Candidates(o)', Remaining(pay, o))
        /\ Follows(pay', p, Payable(o), Candidates(o), Candidates(o)', Remaining(pay, o))
        /\ Joins(pay', p, Payable(o), Candidates(o), Settled(pay, o), Payable(o)',
                 Remaining(pay, o), Paid(pay, o) > 0)
    BY <2>2, <2>3, <2>4 DEF Numbers, Follows, Joins
  <2>6. RowsFit(o)'
    BY <1>1, <1>2, <1>5, <1>12, <1>13, <2>5, RestFits
  <2> QED BY <1>8, <1>9, <1>10, <2>6
<1>16. CASE bill[b].row = 0 /\ p \notin Candidates(o)'
  <2>1. RowsFit(o)'
    BY <1>1, <1>2, <1>5, <1>13, <1>16, RestFalls
  <2> QED BY <1>8, <1>9, <1>10, <2>1
<1>17. CASE bill[b].row = 0 /\ p \in Candidates(o)'
  <2>1. bill[b].product = "debit" /\ bill[b].amount = Total[o] /\ bill[b].seq = 0
    BY <1>1, <1>14, <1>17 DEF SegmentsCharge, BillHas
  <2>2. pay'[p].gross = Total[o] /\ pay'[p].seq = 0 /\ Unused(p)
    BY <1>17, <2>1 DEF RowHas
  <2>3. Remaining(pay, o) \in Nat /\ Total[o] \in Nat /\ Remaining(pay, o) <= Total[o]
    BY <1>1, OrderConstants, PaidBounds DEF Remaining
  <2>4. p \notin Numbered(o)'
    BY <1>11, <2>1 DEF Numbered, BillHas
  <2>5. Numbers(pay', p, Numbered(o), Numbered(o)', Candidates(o)', Remaining(pay, o))
    BY <2>4 DEF Numbers
  <2>6. Follows(pay', p, Payable(o), Candidates(o), Candidates(o)', Remaining(pay, o))
    BY <2>2, <2>3 DEF Follows
  <2>7. \A q \in Candidates(o) \cup Settled(pay, o) : q <= p
    <3>1. \A q \in Candidates(o) \cup Settled(pay, o) : q \in Payments /\ pay[q].st # "absent"
      BY DEF Candidates, Payable, Live, Settled
    <3>2. \A q \in Payments : p < q => pay[q].st = "absent"
      BY <1>1, <2>2 DEF RowsInOrder, Unused
    <3>3. \A q \in Payments : q <= p \/ p < q
      BY <1>1
    <3> QED BY <3>1, <3>2, <3>3
  <2>8. Joins(pay', p, Payable(o), Candidates(o), Settled(pay, o), Payable(o)',
              Remaining(pay, o), Paid(pay, o) > 0)
    BY <2>2, <2>3, <2>7 DEF Joins
  <2>9. RowsFit(o)'
    BY <1>1, <1>2, <1>5, <1>12, <1>13, <2>5, <2>6, <2>8, RestFits
  <2> QED BY <1>8, <1>9, <1>10, <2>9
<1> QED BY <1>15, <1>16, <1>17

(* The answer to a request keeps the agreement of rows and inquiries.      *)
LEMMA AnswerInquiry ==
  ASSUME SnapInv, SnapInv', InquiryInv, NEW b \in Bills, NEW p \in Payments, Answer(b, p)
  PROVE  InquiryInv'
<1>1. BillHas(b, p) /\ RowHas(b, p) /\ OrderHas(b)
  BY AnsweredParts
<1>2. RowsInOrder' /\ SegmentsCharge' /\ BillsNamed'
  BY <1>1, AnsweredTables
<1>3. ASSUME NEW x \in Orders, Prompt(x)'
      PROVE  OrderTells(x)' /\ RailsMatch(x)' /\ ToldArePaid(x)' /\ RowsFit(x)'
  BY <1>1, <1>3, AnsweredElsewhere, AnsweredHere
<1>4. PromptOrders'
  BY <1>3 DEF PromptOrders
<1> QED BY <1>2, <1>4 DEF InquiryInv

-----------------------------------------------------------------------------
(* Before any request nothing is owed.                                     *)
LEMMA InitInquiry == InitSnap => InquiryInv
<1> SUFFICES ASSUME InitSnap PROVE InquiryInv
  OBVIOUS
<1>1. PICK s \in Openings : ord = s.ord /\ pay = s.pay /\ reg = s.reg /\ sel = s.sel
  BY DEF InitSnap, Init
<1>2. /\ \A p \in Payments : pay[p].st # "absent" =>
           /\ pay[p].seq # 0 => pay[p].gross > 0 \/ Total[pay[p].of] = 0
           /\ \A q \in Payments : q < p => pay[q].st # "absent"
      /\ \A o \in Orders : ord[o].st # "paid" /\ Paid(pay, o) = 0
  BY <1>1, SnapOpenings, LegalOpenings
<1>3. /\ \A b \in Bills : bill[b] = NoBill
      /\ call = {} /\ \A p \in Payments : named[p] = 0
      /\ NoBill.st = "none" /\ NoBill.row = 0 /\ 0 \notin Payments
  BY RowIds DEF InitSnap, NoBill
<1>4. RowsInOrder
  BY <1>2 DEF RowsInOrder
<1>5. SegmentsCharge
  BY <1>2, <1>3 DEF SegmentsCharge
<1>6. BillsNamed
  BY <1>3 DEF BillsNamed, Waiting
<1>7. ASSUME NEW o \in Orders
      PROVE  OrderTells(o) /\ RailsMatch(o) /\ ToldArePaid(o) /\ RowsFit(o)
  <2>1. OrderTells(o)
    BY <1>2 DEF OrderTells, Covered
  <2>2. RailsMatch(o) /\ ToldArePaid(o)
    BY <1>3 DEF RailsMatch, ToldArePaid
  <2>3. Payable(o) = {} /\ Numbered(o) = {}
    BY <1>3 DEF Payable, Numbered, Owes, Live
  <2>4. RowsFit(o)
    BY <2>3 DEF RowsFit, Fits
  <2> QED BY <2>1, <2>2, <2>4
<1>8. PromptOrders
  BY <1>7 DEF PromptOrders
<1> QED BY <1>4, <1>5, <1>6, <1>8 DEF InquiryInv

(* Every step of the rails keeps the agreement.                            *)
LEMMA NextInquiry == SnapInv /\ SnapInv' /\ InquiryInv /\ [NextSnap]_snapVars => InquiryInv'
<1> SUFFICES ASSUME SnapInv, SnapInv', InquiryInv, [NextSnap]_snapVars PROVE InquiryInv'
  OBVIOUS
<1>1. ASSUME NEW b \in Bills, NEW o \in Orders, NEW p \in Payments,
             (\E product \in Products : ChooseMethod(b, o, p, product)) \/ AskVa(b, o, p)
      PROVE  InquiryInv'
  BY <1>1, ChooseMethodInquiry, AskVaInquiry
<1>2. ASSUME NEW b \in Bills, NEW o \in Orders,
             (\E i \in 1 .. SegmentCount(o) : AskQris(b, o, i)) \/ AskDebit(b, o)
      PROVE  InquiryInv'
  BY <1>2, AskQrisInquiry, AskDebitInquiry
<1>3. ASSUME NEW b \in Bills, NEW p \in Payments,
             Answer(b, p) \/ HearSettled(b, p) \/ HearEnded(b, p)
      PROVE  InquiryInv'
  BY <1>3, AnswerInquiry, HearInquiry
<1>4. ASSUME \/ \E b \in Bills : AnswerLost(b) \/ BillOpens(b) \/ CustomerSettles(b)
             \/ \E p \in Payments : VerifyOtp(p)
             \/ Bind \/ UNCHANGED snapVars
      PROVE  InquiryInv'
  BY <1>4, DokuInquiry
<1>5. ASSUME UNCHANGED snap,
             \/ \E p \in Payments : AdminCancel(p) \/ AdminDelete(p)
             \/ \E o \in Orders : UserCancel(o)
      PROVE  InquiryInv'
  BY <1>5, CommandInquiry
<1> QED BY <1>1, <1>2, <1>3, <1>4, <1>5 DEF NextSnap

(* A bank is told yes for a numbered row, and what is left is not zero.    *)
LEMMA InquiriesOwed == SnapInv /\ InquiryInv => InquiryIsOwed
<1> SUFFICES ASSUME SnapInv, InquiryInv, NEW b \in Bills, Inquiry(b) = "success",
                    NEW p \in Inquired(b)
             PROVE  \/ pay[p].gross <= Remaining(pay, pay[p].of)
                    \/ \E c \in Bills : bill[c].of = pay[p].of /\ bill[c].late
  BY DEF InquiryIsOwed
<1> DEFINE o == pay[p].of
<1>1. /\ bill \in [Bills -> BillRow] /\ pay \in Tables /\ pay \in [Payments -> PayRow]
      /\ NamedRows /\ RowsLinked /\ BillRows /\ BillsNamed /\ p # 0 /\ b # 0
  BY RowIds, BillIds DEF SnapInv, TypeOKSnap, TypeOK, Tables, InquiryInv, Inquired
<1>2. p \in Payments /\ named[p] = b /\ pay[p].rail = "va" /\ ~pay[p].del
  BY DEF Inquired
<1>3. \A q \in Inquired(b) : q = p
  BY <1>1, <1>2 DEF Inquired, NamedRows
<1>4. InquiryOf(p) = "success"
  <2>1. (CHOOSE q \in Inquired(b) : TRUE) = p
    BY <1>3
  <2> QED BY <2>1 DEF Inquiry
<1>5. /\ pay[p].st \in {"created", "pending"} /\ ord[o].st \in {"pending", "partially_paid"}
      /\ pay[p].gross > 0
  BY <1>4 DEF InquiryOf
<1>6. o \in Orders /\ bill[b].row = p /\ bill[b].of = o
  BY <1>1, <1>2, <1>5 DEF RowsLinked, Linked, NamedRows, BillRows
<1> HIDE DEF o
<1>7. CASE ~Prompt(o)
  BY <1>7 DEF Prompt, o
<1>8. CASE Prompt(o)
  <2>1. OrderTells(o) /\ RailsMatch(o) /\ ToldArePaid(o) /\ RowsFit(o)
    BY <1>6, <1>8 DEF InquiryInv, PromptOrders
  <2>2. bill[b].product = "va"
    <3>1. RailOf(bill[b].product) = "va" /\ bill[b].product \in Products
      BY <1>1, <1>2, <2>1 DEF RailsMatch, BillRow, o
    <3> QED BY <3>1 DEF RailOf
  <2>3. Owes(b, p)
    <3>1. bill[b].st # "told"
      BY <1>5, <1>6, <2>1 DEF ToldArePaid
    <3>2. bill[b].st # "ended"
      BY <1>1, <2>2 DEF BillsNamed
    <3> QED BY <1>2, <1>6, <2>2, <3>1, <3>2 DEF Owes
  <2>4. p \in Numbered(o)
    <3>1. p \in Live(pay, o)
      BY <1>2, <1>5 DEF Live, o
    <3> QED BY <1>5, <2>2, <2>3, <3>1 DEF Numbered, Payable, Undecided
  <2>5. pay[p].gross <= Remaining(pay, o) \/ Remaining(pay, o) = 0
    BY <2>1, <2>4 DEF RowsFit, Fits
  <2>6. Remaining(pay, o) # 0
    <3> SUFFICES ASSUME Remaining(pay, o) = 0 PROVE FALSE
      OBVIOUS
    <3>1. Paid(pay, o) \in Nat /\ Total[o] \in Nat /\ pay[p].gross \in Nat
      BY <1>1, <1>2, <1>6, PaidBounds DEF PayRow
    <3>2. pay[p].gross <= Total[o]
      BY <1>2, <1>5 DEF SnapInv, WithinTotal, o
    <3>3. Paid(pay, o) > 0
      BY <1>5, <3>1, <3>2 DEF Remaining
    <3>4. Covered(pay, o) /\ Exists(o)
      BY <1>5, <3>3 DEF Covered, Exists
    <3> QED BY <1>5, <2>1, <3>4 DEF OrderTells
  <2> QED BY <2>5, <2>6 DEF o
<1> QED BY <1>7, <1>8

(* For every number of bills and orders, however answers, notifications    *)
(* and commands interleave: a bank asks, and is told to collect no more    *)
(* than the order still needs, unless an answer came late for that order.  *)
THEOREM InquiryHonest == SpecSnap => []InquiryIsOwed
<1>1. InitSnap => InquiryInv
  BY InitInquiry
<1>2. SnapInv /\ SnapInv' /\ InquiryInv /\ [NextSnap]_snapVars => InquiryInv'
  BY NextInquiry
<1>3. SnapInv /\ InquiryInv => InquiryIsOwed
  BY InquiriesOwed
<1> QED BY <1>1, <1>2, <1>3, SnapInvariant, PTL DEF SpecSnap
=============================================================================
