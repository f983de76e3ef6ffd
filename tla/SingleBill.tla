----------------------------- MODULE SingleBill -----------------------------
(***************************************************************************)
(* What hosted checkout promises a participant: an order never has two     *)
(* payable bills at once, a bill never asks for more than what is still    *)
(* due, and so the money collected never exceeds the order's total.        *)
(***************************************************************************)
EXTENDS Integers

CONSTANTS Orders, Total

VARIABLES
  bill,  \* the amount of the payable bill of an order, 0 if there is none
  got    \* the money the provider has collected for an order

Init ==
  /\ bill = [o \in Orders |-> 0]
  /\ got = [o \in Orders |-> 0]

Issue(o) ==
  /\ bill[o] = 0
  /\ \E amount \in 1 .. (Total[o] - got[o]) : bill' = [bill EXCEPT ![o] = amount]
  /\ UNCHANGED got

Collect(o) ==
  /\ bill[o] > 0
  /\ got' = [got EXCEPT ![o] = @ + bill[o]]
  /\ bill' = [bill EXCEPT ![o] = 0]

Void(o) ==
  /\ bill[o] > 0
  /\ bill' = [bill EXCEPT ![o] = 0]
  /\ UNCHANGED got

Next == \E o \in Orders : Issue(o) \/ Collect(o) \/ Void(o)

Spec == Init /\ [][Next]_<<bill, got>>

TypeOK ==
  /\ bill \in [Orders -> Nat]
  /\ got \in [Orders -> Nat]

NeverOvercharged == \A o \in Orders : got[o] + bill[o] <= Total[o]
=============================================================================
