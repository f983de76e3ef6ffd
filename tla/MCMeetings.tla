----------------------------- MODULE MCMeetings -----------------------------
(***************************************************************************)
(* Instances of Meetings for TLC: three meetings among three participants, *)
(* each two of which share one; the second on a recommendation.            *)
(***************************************************************************)
EXTENDS Meetings, TLC

CONSTANTS m1, m2, m3, pa, pb, pc

MCRequester == (m1 :> pa) @@ (m2 :> pa) @@ (m3 :> pb)
MCRecipient == (m1 :> pb) @@ (m2 :> pc) @@ (m3 :> pc)

(* Everything on, or nothing but the participants' own requests. *)
MCSetups == {Unset, [assisted |-> FALSE, auto |-> FALSE, override |-> FALSE]}
MCSymmetry == Permutations(Slots) \cup Permutations(Resources) \cup Permutations(Requests)
=============================================================================
