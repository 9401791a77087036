-------------------------- MODULE MCBookingCalendar --------------------------
(* Constants of the BookingCalendar runs. *)
EXTENDS BookingCalendar, TLC

CONSTANTS s1, s2

Nothing == {}

MCSessions == {s1, s2}
SessionSymmetry == Permutations(MCSessions)

MCUsers == {"owner", "ann", "bob"}

\* One item, three requests: two that share a day, one that shares days with both.
OneItem == {"bike"}
OneItemOwner == [i \in OneItem |-> "owner"]
ThreeRequests == {1, 2, 3}
Rivals ==
  [b \in ThreeRequests |->
    [borrower |-> IF b = 2 THEN "bob" ELSE "ann", item |-> "bike",
     first |-> b, last |-> b + 1, deposit |-> b = 1]]
TwoRivals == {1, 2}
TwoRivalRequests == [b \in TwoRivals |-> Rivals[b]]
RivalPeriods == {[item |-> "bike", first |-> 2, last |-> 2]}

OneBlocker == {<<"owner", "ann">>}
=============================================================================
