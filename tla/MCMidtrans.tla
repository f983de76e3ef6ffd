----------------------------- MODULE MCMidtrans -----------------------------
(***************************************************************************)
(* Instances of MidtransRail for TLC: one order of 3 units in segments of  *)
(* 2 and 1, an unlocked checkout beside the locked one.                    *)
(***************************************************************************)
EXTENDS MidtransRail

CONSTANT r1

MCTotal == [o \in Orders |-> 3]
OfReg   == [o \in Orders |-> r1]
Main    == [o \in Orders |-> "main_registration"]
NoItems == [o \in Orders |-> {}]

Fresh ==
  {[ord |-> [o \in Orders |-> [st |-> "pending", by |-> FALSE]],
    pay |-> [p \in Payments |-> NoPay],
    reg |-> [r \in Regs |-> "submitted"],
    sel |-> [r \in Regs |-> [k \in Packages |-> 0]]]}
=============================================================================
