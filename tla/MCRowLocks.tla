---------------------------- MODULE MCRowLocks ----------------------------
(***************************************************************************)
(* Instances of RowLocks for TLC: three requests at once on one order.     *)
(***************************************************************************)
EXTENDS RowLocks, TLC

CONSTANTS w1, w2, w3

MCWorkers == {w1, w2, w3}
Symmetric == Permutations(MCWorkers)

OrderFirst == {"DokuWebhook", "UserCancel", "UserContinue", "ManualProof", "ManualConfirm",
               "LegacyCheckout", "CheckoutAnswer", "RegistrationCommand"}
AllWebhooks == {"DokuWebhook", "RowFirstWebhook", "UserCancel", "UserContinue"}
=============================================================================
