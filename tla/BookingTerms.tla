---------------------------- MODULE BookingTerms ----------------------------
(***************************************************************************)
(* The terms of a rental: the period a request may ask for, its price, the *)
(* snapshot of the listing that is stored with the booking, and what the   *)
(* acts, the checkout and the cancellation later accept as one.            *)
(*                                                                         *)
(* Money is counted in kopecks.  The snapshot holds rubles as JSON numbers *)
(* and the readers multiply them by 100 again; below 2^33 kopecks the      *)
(* product lies within the 0.000001 that minorUnits allows, and the        *)
(* largest total, 30 days at 1,000,000 rubles and the largest deposit, is  *)
(* below that.  So a sum is represented by its kopecks on both sides.      *)
(***************************************************************************)
EXTENDS Integers

CONSTANTS
  MaxDays,        \* BOOKING_MAX_DAYS
  Horizon,        \* BOOKING_HORIZON_DAYS
  MaxDeposit      \* FAKE_SAFE_DEAL_DEPOSIT_MAX_MINOR

ASSUME TermsAssumption ==
  MaxDays \in Nat \ {0} /\ Horizon \in Nat /\ MaxDeposit \in Nat \ {0}

Scenarios == {"PAY_ON_HANDOVER", "FAKE_SAFE_DEAL"}

NoDeposit == -1      \* Item.depositAmount is NULL
NoTerms == [days |-> 0]

-----------------------------------------------------------------------------
\* Both days count.
DaysOf(stay) == stay.last - stay.first + 1

\* parseBookingPeriod accepts the period.
PeriodAllowed(stay, today) ==
  /\ stay.first >= today
  /\ stay.last >= stay.first
  /\ DaysOf(stay) <= MaxDays
  /\ stay.first - today <= Horizon

\* assertDepositAllowed under the scenario the process was started with.
DepositAllowed(deposit, scenario) ==
  IF scenario = "PAY_ON_HANDOVER" THEN deposit = 0 ELSE deposit \in 0 .. MaxDeposit

\* A deposit of NULL counts as none.
DepositOf(offer) == IF offer.deposit = NoDeposit THEN 0 ELSE offer.deposit

-----------------------------------------------------------------------------
\* One percent, half a kopeck rounded up.
PlatformFee(rental) == (rental * 100 + 5000) \div 10000

\* As if the payout were rounded for itself.
PriceTwiceRounded(scenario, rental, deposit) ==
  LET fee == IF scenario = "FAKE_SAFE_DEAL" THEN PlatformFee(rental) ELSE 0 IN
  [rental |-> rental, deposit |-> deposit, fee |-> fee,
   payout |-> IF scenario = "FAKE_SAFE_DEAL" THEN (rental * 9900 + 5000) \div 10000 ELSE rental,
   total |-> IF scenario = "FAKE_SAFE_DEAL" THEN rental + deposit ELSE rental]

\* calculateProvisionalSafeDealPrice, or the price of a rental that is paid on handover.
Price(scenario, rental, deposit) ==
  LET fee == IF scenario = "FAKE_SAFE_DEAL" THEN PlatformFee(rental) ELSE 0 IN
  [rental |-> rental, deposit |-> deposit, fee |-> fee, payout |-> rental - fee,
   total |-> IF scenario = "FAKE_SAFE_DEAL" THEN rental + deposit ELSE rental]

\* What create stores in Booking.termsSnapshot.
Snapshot(offer, stay, borrower, lender, scenario) ==
  LET deposit == DepositOf(offer) IN
  [days |-> DaysOf(stay), lender |-> lender, accepted |-> borrower,
   perDay |-> offer.price, depositAmount |-> offer.deposit,
   money |-> Price(scenario, offer.price * DaysOf(stay), deposit),
   scenario |-> scenario,
   policy |-> scenario = "FAKE_SAFE_DEAL" /\ deposit > 0]

\* readBookingTermsSnapshot takes the value for a snapshot.
Readable(terms) ==
  LET money == terms.money IN
  /\ terms.days >= 1
  /\ money.rental = terms.perDay * terms.days
  /\ money.payout + money.fee = money.rental
  /\ money.total = money.rental + money.deposit
  /\ (IF terms.depositAmount = NoDeposit THEN 0 ELSE terms.depositAmount) = money.deposit
  /\ IF terms.scenario = "PAY_ON_HANDOVER"
     THEN /\ money.deposit = 0 /\ money.fee = 0 /\ money.payout = money.rental
          /\ ~terms.policy
     ELSE terms.policy = (money.deposit > 0)

\* readBoundBookingTermsSnapshot: and it is the one of this booking.
ReadBound(terms, borrower, lender, stay, total) ==
  IF /\ terms # NoTerms /\ Readable(terms)
     /\ terms.lender = lender /\ terms.accepted = borrower
     /\ terms.days = DaysOf(stay) /\ terms.money.total = total
  THEN terms ELSE NoTerms
=============================================================================
