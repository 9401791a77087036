----------------------------- MODULE MCListings -----------------------------
(* Constants of the Listings run. *)
EXTENDS Listings, TLC

CONSTANTS c1, c2

MCCalls == {c1, c2}
MCServes == c1 :> {"owner", "reports", "closure", "blocking"} @@
            c2 :> {"moderation", "reports", "requests"}

\* 1.50 a day, whose fee of 1.5 kopecks is rounded.  Revisions tell the contents apart.
MCOffers == {[price |-> 150, deposit |-> NoDeposit]}
MCStays == {[first |-> 0, last |-> 0]}

\* By price, by period, around a point, and one that is not accepted.
MCQueries ==
  {[min |-> 160, max |-> Absent, from |-> Absent, to |-> Absent, at |-> 12, radius |-> 3],
   [min |-> Absent, max |-> 150, from |-> 0, to |-> 1, at |-> 14, radius |-> 10],
   [min |-> 200, max |-> 150, from |-> Absent, to |-> Absent, at |-> 1, radius |-> Absent]}
MCPlaces == {0, 9, 10, 30}
=============================================================================
