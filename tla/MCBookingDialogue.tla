-------------------------- MODULE MCBookingDialogue --------------------------
(* Constants of the BookingDialogue run. *)
EXTENDS BookingDialogue, TLC

CONSTANTS c1, c2

MCCalls == {c1, c2}
CallSymmetry == Permutations(MCCalls)
=============================================================================
