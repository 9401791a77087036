-------------------------- MODULE MCOperatorConsole --------------------------
(* Constants of the OperatorConsole run. *)
EXTENDS OperatorConsole

CONSTANTS ann, max, none

MCCapabilities == [o \in Operators |-> IF o = ann THEN {"SUPPORT"} ELSE {"DISPUTE", "FINANCE"}]
=============================================================================
