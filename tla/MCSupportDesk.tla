---------------------------- MODULE MCSupportDesk ----------------------------
(* Constants of the SupportDesk run. *)
EXTENDS SupportDesk

CONSTANTS c1, c2, o1, o2

MCCalls == {c1, c2}
MCStaff == {o1, o2}

\* Two images of one operator.
MCUploadedBy == [i \in 1 .. 2 |-> o1]
=============================================================================
