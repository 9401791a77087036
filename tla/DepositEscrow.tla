--------------------------- MODULE DepositEscrow ---------------------------
(***************************************************************************)
(* What the deposit of a booking promises its two parties, with no clock,  *)
(* no workers and no provider: it is held once, it is split once, and each *)
(* party receives exactly its part of the split, in one payment.  The      *)
(* statuses and their order are those of payments/deposit-state.ts; the    *)
(* rules on the split are product rules 6 to 9 of the deposit design.      *)
(*                                                                         *)
(* SafeDeal implements this specification.                                 *)
(***************************************************************************)
EXTENDS Integers

CONSTANT NoSplit   \* the split of a deposit nobody has decided about yet

VARIABLES
  amount,     \* what the parties agreed on; 0 when there is no deposit
  status,     \* the status of the deposit
  split,      \* what each party is to get, or NoSplit
  toBorrower, \* what the borrower has got back
  toLender    \* what the lender has got

escrowVars == <<amount, status, split, toBorrower, toLender>>

FullRefund == [refund |-> amount, release |-> 0]
Splits == {s \in [refund : 0 .. amount, release : 0 .. amount] :
             s.refund + s.release = amount}

EscrowInit ==
  /\ amount \in Nat
  /\ status = IF amount = 0 THEN "NONE" ELSE "PENDING"
  /\ split = NoSplit
  /\ toBorrower = 0 /\ toLender = 0

Move(from, to) == status = from /\ status' = to

\* The borrower's checkout holds the deposit.
Hold == Move("PENDING", "HELD") /\ UNCHANGED <<amount, split, toBorrower, toLender>>

\* The booking ends before anything was held.
Void == Move("PENDING", "CANCELLED") /\ UNCHANGED <<amount, split, toBorrower, toLender>>

\* A dispute freezes the held deposit.
Freeze == Move("HELD", "DISPUTED") /\ UNCHANGED <<amount, split, toBorrower, toLender>>

\* Undisputed, all of it goes back to the borrower; disputed, the two parts add up.
Decide ==
  /\ \/ Move("HELD", "RESOLVING") /\ split' = FullRefund
     \/ Move("DISPUTED", "RESOLVING") /\ split' \in Splits
  /\ UNCHANGED <<amount, toBorrower, toLender>>

\* One party gets its whole part, once; the last payment resolves the deposit.
Pay ==
  /\ status = "RESOLVING"
  /\ \/ /\ toBorrower = 0 /\ split.refund > 0
        /\ toBorrower' = split.refund /\ toLender' = toLender
     \/ /\ toLender = 0 /\ split.release > 0
        /\ toLender' = split.release /\ toBorrower' = toBorrower
  /\ status' = IF toBorrower' + toLender' = amount THEN "RESOLVED" ELSE "RESOLVING"
  /\ UNCHANGED <<amount, split>>

EscrowNext == Hold \/ Void \/ Freeze \/ Decide \/ Pay

EscrowSpec == EscrowInit /\ [][EscrowNext]_escrowVars
=============================================================================
