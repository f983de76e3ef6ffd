------------------------------ MODULE MCLedger ------------------------------
(***************************************************************************)
(* Instances of PaymentHistory, and so of Ledger, for TLC: one             *)
(* registration with a main order, an order of an additional package and a *)
(* second order by the legacy entry, an exhibitor's order of a free        *)
(* product without registration, and a payment table of two rows.          *)
(***************************************************************************)
EXTENDS PaymentHistory

CONSTANTS r1, k1

MCRegs == {r1}
MCPackages == {k1}
MCKind == [o \in Orders |->
             CASE o = 1 -> "main_registration" [] o = 2 -> "additional"
               [] o = 3 -> "exhibitor"         [] o = 4 -> "legacy"]

MCRegOf == [o \in Orders |-> IF MCKind[o] = "exhibitor" THEN NoReg ELSE r1]
MCItems == [o \in Orders |-> IF MCKind[o] = "additional" THEN {k1} ELSE {}]

\* Order 1 has segments of 2 and 1, orders 2 and 4 one segment, order 3 none.
MCTotal == [o \in Orders |-> CASE o = 1 -> 3 [] o \in {2, 4} -> 1 [] o = 3 -> 0]

\* A ledger whose first payment rows are rows, each written by the checkout
\* of its rail; the orders of open are in status st, the others absent.
Open(open, st, rows) ==
  [ord |-> [o \in Orders |-> [st |-> IF o \in open THEN st ELSE "absent", by |-> FALSE]],
   pay |-> [p \in Payments |-> IF p \in DOMAIN rows THEN rows[p] ELSE NoPay],
   reg |-> [r \in Regs |-> "submitted"],
   sel |-> [r \in Regs |-> [k \in Packages |-> 0]]]

\* Checkouts that are not actions of Ledger have written the first row of an
\* opening: the QRIS code is of order 2, whose total is one segment.
Draft    == Open({1}, "draft", <<>>)
Absent   == Open({}, "pending", <<>>)
Midtrans == Open({1}, "pending", <<NewPay(1, "midtrans", "pending", 2, 1)>>)
VirtAcct == Open({1, 4}, "pending", <<NewPay(1, "va", "pending", 3, 0)>>)
Qris     == Open({1, 2}, "pending", <<NewPay(2, "qris", "pending", 1, 1)>>)
Free     == Open({3}, "pending", <<>>)

AllOpenings  == {Draft, Absent, Midtrans, VirtAcct, Qris, Free}
DraftOpening == {Draft}
=============================================================================
