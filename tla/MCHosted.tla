------------------------------ MODULE MCHosted ------------------------------
(***************************************************************************)
(* Instances of HostedCheckout for TLC: one order of 3 units, billed in    *)
(* segments of 2 and 1, with room for a repeated bill.                     *)
(***************************************************************************)
EXTENDS HostedCheckout

CONSTANTS r1

MCTotal == [o \in Orders |-> 3]
OfReg   == [o \in Orders |-> r1]
Main    == [o \in Orders |-> "main_registration"]
Legacy  == [o \in Orders |-> "legacy"]
NoItems == [o \in Orders |-> {}]

Open(st) ==
  [ord |-> [o \in Orders |-> [st |-> st, by |-> FALSE]],
   pay |-> [p \in Payments |-> NoPay],
   reg |-> [r \in Regs |-> "submitted"],
   sel |-> [r \in Regs |-> [k \in Packages |-> 0]]]

Fresh  == {Open("pending"), Open("draft")}
Absent == {Open("absent")}
=============================================================================
