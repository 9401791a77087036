------------------------------ MODULE SafeDeal ------------------------------
(***************************************************************************)
(* The money side of one safe-deal booking, from the moment the lender has *)
(* confirmed it: checkout, handover and return acts, pre-handover          *)
(* cancellation, the financial dispute, the automatic refund at the end of *)
(* the dispute window, and the workers that execute deposit operations at  *)
(* the payment provider.                                                   *)
(*                                                                         *)
(* Every command except the worker's claim runs in one READ COMMITTED      *)
(* transaction that first takes pg_advisory_xact_lock(hashtext(booking)),  *)
(* so it is one action here.  What is not atomic in the code is not atomic *)
(* here either: a request reads the clock before it waits for the lock,    *)
(* checkout calls the provider inside its open transaction, and a worker   *)
(* scans, claims, calls the provider and applies the outcome in four steps *)
(* between which other workers run, time passes and the process can crash. *)
(*                                                                         *)
(* Every row these commands touch belongs to one booking, so bookings do   *)
(* not interact and one is enough.                                         *)
(***************************************************************************)
EXTENDS Integers, FiniteSets

CONSTANTS
  Workers,       \* concurrent runs of DepositOperationProcessor.processPending
  Amounts,       \* deposits, in minor units, a booking may have agreed on
  CheckoutKeys,  \* Idempotency-Key values a borrower sends with a checkout
  Verdicts,      \* definitive answers the provider may give to an operation
  MaxRetries,    \* bound: administrator retries of one operation
  MaxWait,       \* bound: how long a request waits for the lock (Prisma's transaction timeout)
  Window,        \* disputeWindowSeconds of the snapshot, in clock units
  Lease,         \* OPERATION_LEASE_MS, in clock units
  RetryDelay,    \* the back-off after a timeout, in clock units
  MaxClock,      \* bound: the last instant of a behaviour
  Calm           \* bound: processes crash and provider answers are lost before it only

ASSUME SafeDealAssumption ==
  /\ Amounts \subseteq Nat
  /\ Verdicts \subseteq {"SUCCEEDED", "DECLINED"}
  /\ MaxRetries \in Nat
  /\ MaxWait \in Nat
  /\ Window \in Nat \ {0}
  /\ Lease \in Nat \ {0}
  /\ RetryDelay \in Nat \ {0}
  /\ MaxClock \in Nat
  /\ Calm \in Nat

(***************************************************************************)
(* The journal of deposit operations.  An idempotency key is a leg, fixed  *)
(* by the command that creates the operation, and the number of            *)
(* administrator retries before it: retryFailedOperation links each failed *)
(* operation to at most one retry.  The HOLD row of checkout is born       *)
(* SUCCEEDED and never read again; depositStatus stands for it.            *)
(***************************************************************************)
RefundLegs == {"preHandoverRefund", "autoRefund", "resolveRefund"}
Legs == RefundLegs \cup {"resolveRelease"}
OpIds == Legs \X (0 .. MaxRetries)

IsRefund(o) == o[1] \in RefundLegs

NoTime == -1                        \* null of a timestamp column
NoOp == <<"none", 0>>

OpStatuses == {"NONE", "PENDING", "SUCCEEDED", "FAILED"}
BookingStatuses == {"CONFIRMED", "ACTIVE", "RETURNED", "COMPLETED", "CANCELLED"}
DepositStatuses ==
  {"NONE", "PENDING", "HELD", "DISPUTED", "RESOLVING", "RESOLVED", "CANCELLED"}
Stages == {"HANDOVER", "RETURN"}

\* A DepositOperation row: lease is processingUntil, next is nextAttemptAt.
Operation == [status : OpStatuses, amount : Nat,
              lease : Nat \cup {NoTime}, next : Nat \cup {NoTime}]

\* One run of processPending: its clock, what is left of its batch, and the claimed
\* operation with its lease token and the provider's answer.
Run == [phase : {"idle", "scanned", "claimed", "called"},
        now : Nat, batch : SUBSET OpIds,
        op : OpIds \cup {NoOp}, token : Nat \cup {NoTime},
        outcome : {"none", "SUCCEEDED", "DECLINED", "TIMEOUT"}]

VARIABLES
  clock,          \* server time
  amount,         \* snapshot.moneyMinor.deposit, fixed when the booking was made
  booking,        \* Booking.status
  acts,           \* BookingAct per stage: "NONE", "CREATED" or "CONFIRMED"
  payment,        \* whether a SUCCEEDED Payment row exists
  depositStatus,  \* BookingDeposit.status, "NONE" when there is no row
  refunded,       \* BookingDeposit.refundedAmount
  released,       \* BookingDeposit.releasedToLenderAmount
  windowEnds,     \* BookingDeposit.disputeWindowEndsAt
  disputeStatus,  \* FinancialDispute.status, "NONE" when there is no row
  decision,       \* FinancialDispute.refundToBorrowerAmount / releaseToLenderAmount
  checkoutTx,     \* Idempotency-Key of the open checkout transaction, which holds the lock
  ops,            \* DepositOperation rows by idempotency key
  verdict,        \* the provider's memory of the operations it has decided
  charges,        \* the provider's memory of the checkouts it has charged
  worker          \* the runs of the operation processor

bookingVars == <<booking, acts, payment>>
depositVars == <<depositStatus, refunded, released, windowEnds>>
disputeVars == <<disputeStatus, decision>>
externalVars == <<verdict, charges>>
vars == <<clock, amount, booking, acts, payment, depositStatus, refunded, released,
          windowEnds, disputeStatus, decision, checkoutTx, ops,
          verdict, charges, worker>>

NoCheckout == "none"
LockFree == checkoutTx = NoCheckout

NoDecision == [refund |-> 0, release |-> 0]
Absent == [status |-> "NONE", amount |-> 0, lease |-> NoTime, next |-> NoTime]
Scheduled(a) == [status |-> "PENDING", amount |-> a, lease |-> NoTime, next |-> clock]
IdleWorker == [phase |-> "idle", now |-> 0, batch |-> {}, op |-> NoOp,
               token |-> NoTime, outcome |-> "none"]

\* Between its claim and the record of the outcome a run is in flight with one operation.
InFlight(w) == worker[w].phase \in {"claimed", "called"}

TypeOK ==
  /\ clock \in 0 .. MaxClock
  /\ amount \in Amounts
  /\ booking \in BookingStatuses
  /\ acts \in [Stages -> {"NONE", "CREATED", "CONFIRMED"}]
  /\ payment \in BOOLEAN
  /\ depositStatus \in DepositStatuses
  /\ refunded \in Nat /\ released \in Nat
  /\ windowEnds \in Nat \cup {NoTime}
  /\ disputeStatus \in {"NONE", "OPEN", "RESOLVED"}
  /\ decision \in [refund : Nat, release : Nat]
  /\ checkoutTx \in CheckoutKeys \cup {NoCheckout}
  /\ ops \in [OpIds -> Operation]
  /\ verdict \in [OpIds -> {"NONE", "SUCCEEDED", "DECLINED"}]
  /\ charges \subseteq CheckoutKeys
  /\ worker \in [Workers -> Run]
  /\ \A w \in Workers : InFlight(w) => worker[w].op \in OpIds

Init ==
  /\ clock = 0
  /\ amount \in Amounts
  /\ booking = "CONFIRMED"
  /\ acts = [s \in Stages |-> "NONE"]
  /\ payment = FALSE
  /\ depositStatus = IF amount = 0 THEN "NONE" ELSE "PENDING"
  /\ refunded = 0 /\ released = 0
  /\ windowEnds = NoTime
  /\ disputeStatus = "NONE"
  /\ decision = NoDecision
  /\ checkoutTx = NoCheckout
  /\ ops = [o \in OpIds |-> Absent]
  /\ verdict = [o \in OpIds |-> "NONE"]
  /\ charges = {}
  /\ worker = [w \in Workers |-> IdleWorker]

-----------------------------------------------------------------------------
(***************************************************************************)
(* Checkout                                                                *)
(***************************************************************************)

\* The provider is called inside the open transaction, before the existing
\* payment is looked at.  A charge goes on to CheckoutCommit only when there is
\* no payment yet; otherwise the stored payment is returned and nothing changes.
\* A declined or timed-out charge ends the request with nothing changed.
CheckoutCall(key) ==
  /\ LockFree
  /\ booking = "CONFIRMED"
  /\ charges' = charges \cup {key}
  /\ checkoutTx' = IF payment THEN NoCheckout ELSE key
  /\ UNCHANGED <<clock, amount, bookingVars, depositVars, disputeVars,
                 ops, verdict, worker>>

\* The hold succeeded: Payment, the HELD deposit and the HOLD row commit together.
CheckoutCommit ==
  /\ ~LockFree
  /\ depositStatus \in {"NONE", "PENDING"}
  /\ payment' = TRUE
  /\ depositStatus' = IF depositStatus = "NONE" THEN "NONE" ELSE "HELD"
  /\ checkoutTx' = NoCheckout
  /\ UNCHANGED <<clock, amount, booking, acts, refunded, released, windowEnds,
                 disputeVars, ops, externalVars, worker>>

\* The hold fails, the transaction times out or the process dies: the database
\* rolls back, the provider does not.
CheckoutAbort ==
  /\ ~LockFree
  /\ checkoutTx' = NoCheckout
  /\ UNCHANGED <<clock, amount, bookingVars, depositVars, disputeVars,
                 ops, externalVars, worker>>

-----------------------------------------------------------------------------
(***************************************************************************)
(* The booking: cancellation, acts and completion                          *)
(***************************************************************************)

\* Mutant of CancelConfirmed: a held deposit is voided instead of refunded.
CancelConfirmedVoiding ==
  /\ LockFree
  /\ booking = "CONFIRMED"
  /\ depositStatus \in {"NONE", "PENDING", "HELD"}
  /\ booking' = "CANCELLED"
  /\ depositStatus' = IF depositStatus = "NONE" THEN "NONE" ELSE "CANCELLED"
  /\ UNCHANGED <<clock, amount, acts, payment, refunded, released, windowEnds,
                 disputeVars, checkoutTx, ops, externalVars, worker>>

\* cancelPending on a CONFIRMED safe-deal booking.  A PENDING deposit is
\* cancelled; a HELD one is refunded in full by an operation.
CancelConfirmed ==
  /\ LockFree
  /\ booking = "CONFIRMED"
  /\ depositStatus \in {"NONE", "PENDING", "HELD"}
  /\ booking' = "CANCELLED"
  /\ depositStatus' = CASE depositStatus = "PENDING" -> "CANCELLED"
                        [] depositStatus = "HELD" -> "RESOLVING"
                        [] OTHER -> depositStatus
  /\ ops' = IF depositStatus = "HELD"
              THEN [ops EXCEPT ![<<"preHandoverRefund", 0>>] = Scheduled(amount)]
              ELSE ops
  /\ UNCHANGED <<clock, amount, acts, payment, refunded, released, windowEnds,
                 disputeVars, checkoutTx, externalVars, worker>>

StageStatus(stage) == IF stage = "HANDOVER" THEN "CONFIRMED" ELSE "ACTIVE"

\* The lender creates the handover act, the borrower the return act; the unique
\* index on (bookingId, stage) refuses a second one.
CreateAct(stage) ==
  /\ LockFree
  /\ booking = StageStatus(stage)
  /\ acts[stage] = "NONE"
  /\ acts' = [acts EXCEPT ![stage] = "CREATED"]
  /\ UNCHANGED <<clock, amount, booking, payment, depositVars, disputeVars,
                 checkoutTx, ops, externalVars, worker>>

\* Mutant of ConfirmHandover: the deposit is not looked at.
ConfirmHandoverUnsecured ==
  /\ LockFree
  /\ acts["HANDOVER"] = "CREATED"
  /\ booking = "CONFIRMED"
  /\ acts' = [acts EXCEPT !["HANDOVER"] = "CONFIRMED"]
  /\ booking' = "ACTIVE"
  /\ UNCHANGED <<clock, amount, payment, depositVars, disputeVars,
                 checkoutTx, ops, externalVars, worker>>

\* The counterparty confirms the handover: only a paid booking whose deposit is
\* held becomes ACTIVE.
ConfirmHandover ==
  /\ LockFree
  /\ acts["HANDOVER"] = "CREATED"
  /\ booking = "CONFIRMED"
  /\ payment
  /\ amount > 0 => depositStatus = "HELD"
  /\ acts' = [acts EXCEPT !["HANDOVER"] = "CONFIRMED"]
  /\ booking' = "ACTIVE"
  /\ UNCHANGED <<clock, amount, payment, depositVars, disputeVars,
                 checkoutTx, ops, externalVars, worker>>

\* The counterparty confirms the return: the dispute window opens, and a booking
\* without a deposit is completed in the same transaction (ZERO_DEPOSIT_RETURN).
ConfirmReturn ==
  /\ LockFree
  /\ acts["RETURN"] = "CREATED"
  /\ booking = "ACTIVE"
  /\ acts' = [acts EXCEPT !["RETURN"] = "CONFIRMED"]
  /\ windowEnds' = IF depositStatus = "NONE" THEN windowEnds ELSE clock + Window
  /\ booking' = IF amount = 0 THEN "COMPLETED" ELSE "RETURNED"
  /\ UNCHANGED <<clock, amount, payment, depositStatus, refunded, released,
                 disputeVars, checkoutTx, ops, externalVars, worker>>

-----------------------------------------------------------------------------
(***************************************************************************)
(* Dispute and dispute window                                              *)
(***************************************************************************)

\* openDispute reads its clock before it waits for the booking's lock, and judges
\* the window by that reading, up to MaxWait old, once it holds the lock.
OpenDispute ==
  /\ LockFree
  /\ booking = "RETURNED"
  /\ depositStatus = "HELD"
  /\ disputeStatus = "NONE"
  /\ \E wait \in 0 .. MaxWait : windowEnds > clock - wait
  /\ disputeStatus' = "OPEN"
  /\ depositStatus' = "DISPUTED"
  /\ UNCHANGED <<clock, amount, bookingVars, refunded, released, windowEnds, decision,
                 checkoutTx, ops, externalVars, worker>>

\* Operations for the non-zero legs of a decision.
Resolution(refund, release) ==
  [ops EXCEPT
     ![<<"resolveRefund", 0>>] = IF refund = 0 THEN @ ELSE Scheduled(refund),
     ![<<"resolveRelease", 0>>] = IF release = 0 THEN @ ELSE Scheduled(release)]

\* The administrator splits the deposit; the booking completes at once
\* (DISPUTE_DECIDED), before the operations are executed.
ResolveDispute(refund) ==
  /\ LockFree
  /\ disputeStatus = "OPEN"
  /\ booking = "RETURNED"
  /\ depositStatus = "DISPUTED"
  /\ decision' = [refund |-> refund, release |-> amount - refund]
  /\ ops' = Resolution(refund, amount - refund)
  /\ depositStatus' = "RESOLVING"
  /\ disputeStatus' = "RESOLVED"
  /\ booking' = "COMPLETED"
  /\ UNCHANGED <<clock, amount, acts, payment, refunded, released, windowEnds,
                 checkoutTx, externalVars, worker>>

\* An automatic refund scheduled under a given condition.
AutoRefundIf(condition) ==
  /\ LockFree
  /\ condition
  /\ booking = "RETURNED"
  /\ ops[<<"autoRefund", 0>>].status = "NONE"
  /\ ops' = [ops EXCEPT ![<<"autoRefund", 0>>] = Scheduled(amount)]
  /\ depositStatus' = "RESOLVING"
  /\ booking' = "COMPLETED"
  /\ UNCHANGED <<clock, amount, acts, payment, refunded, released, windowEnds,
                 disputeVars, checkoutTx, externalVars, worker>>

\* Mutants of DeadlineRefund: the window only has to have an end; the window's last
\* instant is left out.
DeadlineRefundEarly ==
  AutoRefundIf(depositStatus = "HELD" /\ windowEnds # NoTime /\ disputeStatus = "NONE")
DeadlineRefundLate ==
  AutoRefundIf(depositStatus = "HELD" /\ windowEnds # NoTime /\ windowEnds < clock
                 /\ disputeStatus = "NONE")

\* DepositDeadlineService: the window of an undisputed deposit has closed.  The
\* worker re-checks under the lock what made the deposit a candidate, with the
\* clock of its scan; a clock that has moved on since only admits more deposits.
DeadlineRefund ==
  /\ LockFree
  /\ depositStatus = "HELD"
  /\ windowEnds # NoTime /\ windowEnds <= clock
  /\ booking = "RETURNED"
  /\ disputeStatus = "NONE"
  /\ ops[<<"autoRefund", 0>>].status = "NONE"
  /\ ops' = [ops EXCEPT ![<<"autoRefund", 0>>] = Scheduled(amount)]
  /\ depositStatus' = "RESOLVING"
  /\ booking' = "COMPLETED"
  /\ UNCHANGED <<clock, amount, acts, payment, refunded, released, windowEnds,
                 disputeVars, checkoutTx, externalVars, worker>>

\* The amount a decided dispute requires of an operation's kind; a deposit
\* without a dispute requires nothing, so its failed refunds are not retried.
Required(o) ==
  IF disputeStatus # "RESOLVED" THEN 0
  ELSE IF IsRefund(o) THEN decision.refund ELSE decision.release

RetryOf(o) == <<o[1], o[2] + 1>>

\* Mutant of MayRetry: an operation that is still being executed may be retried.
MayRetryUnfinished(o) ==
  /\ ops[o].status \in {"PENDING", "FAILED"}
  /\ depositStatus = "RESOLVING"
  /\ Required(o) > 0
  /\ Required(o) = ops[o].amount

MayRetry(o) ==
  /\ ops[o].status = "FAILED"
  /\ depositStatus = "RESOLVING"
  /\ Required(o) > 0
  /\ Required(o) = ops[o].amount

\* retryFailedOperation: a new operation with its own key, linked to the failed one.
RetryFailed(o) ==
  /\ LockFree
  /\ MayRetry(o)
  /\ o[2] < MaxRetries
  /\ ops[RetryOf(o)].status = "NONE"
  /\ ops' = [ops EXCEPT ![RetryOf(o)] = Scheduled(ops[o].amount)]
  /\ UNCHANGED <<clock, amount, bookingVars, depositVars, disputeVars,
                 checkoutTx, externalVars, worker>>

-----------------------------------------------------------------------------
(***************************************************************************)
(* The operation processor                                                 *)
(***************************************************************************)

\* Mutants of Claimable: a leased operation is claimed again; one whose lease has
\* run out never is.
ClaimableWhileLeased(o, now) ==
  /\ ops[o].status = "PENDING"
  /\ ops[o].next <= now
ClaimableIfNeverLeased(o, now) ==
  /\ ops[o].status = "PENDING"
  /\ ops[o].next <= now
  /\ ops[o].lease = NoTime

\* PENDING, due, and not leased at instant now.
Claimable(o, now) ==
  /\ ops[o].status = "PENDING"
  /\ ops[o].next <= now
  /\ ops[o].lease <= now

\* A run goes on with what is left of its batch, and ends with it.
Proceed(now, batch) ==
  IF batch = {} THEN IdleWorker
  ELSE [IdleWorker EXCEPT !.phase = "scanned", !.now = now, !.batch = batch]

\* processPending: the clock of the run and its batch are fixed by the scan.
Scan(w) ==
  /\ worker[w].phase = "idle"
  /\ \E o \in OpIds : Claimable(o, clock)
  /\ worker' = [worker EXCEPT ![w] =
       Proceed(clock, {o \in OpIds : Claimable(o, clock)})]
  /\ UNCHANGED <<clock, amount, bookingVars, depositVars, disputeVars,
                 checkoutTx, ops, externalVars>>

\* The conditional update that takes the lease; its end is the fencing token.
Claim(w, o) ==
  /\ worker[w].phase = "scanned"
  /\ o \in worker[w].batch
  /\ Claimable(o, worker[w].now)
  /\ ops' = [ops EXCEPT ![o].lease = worker[w].now + Lease]
  /\ worker' = [worker EXCEPT ![w].phase = "claimed", ![w].batch = @ \ {o},
                              ![w].op = o, ![w].token = worker[w].now + Lease]
  /\ UNCHANGED <<clock, amount, bookingVars, depositVars, disputeVars,
                 checkoutTx, externalVars>>

\* Somebody else has the operation: the update matches no row.
SkipOperation(w, o) ==
  /\ worker[w].phase = "scanned"
  /\ o \in worker[w].batch
  /\ ~Claimable(o, worker[w].now)
  /\ worker' = [worker EXCEPT ![w] = Proceed(worker[w].now, worker[w].batch \ {o})]
  /\ UNCHANGED <<clock, amount, bookingVars, depositVars, disputeVars,
                 checkoutTx, ops, externalVars>>

\* The provider decides an idempotency key once and repeats its verdict.  The
\* worker may not learn it: a lost answer and an exception are both a TIMEOUT.
CallProvider(w) ==
  LET o == worker[w].op IN
  /\ worker[w].phase = "claimed"
  /\ \/ /\ verdict[o] = "NONE"
        /\ \E v \in Verdicts : verdict' = [verdict EXCEPT ![o] = v]
     \/ UNCHANGED verdict
  /\ \E answer \in {verdict'[o]} \cup (IF clock < Calm THEN {"TIMEOUT"} ELSE {}) :
       /\ answer # "NONE"
       /\ worker' = [worker EXCEPT ![w].phase = "called", ![w].outcome = answer]
  /\ UNCHANGED <<clock, amount, bookingVars, depositVars, disputeVars,
                 checkoutTx, ops, charges>>

\* Every non-zero leg of a decided dispute has a successful operation.
LegsPaid(journal) ==
  disputeStatus = "RESOLVED" =>
    /\ decision.refund > 0 =>
         \E o \in OpIds : /\ IsRefund(o) /\ journal[o].status = "SUCCEEDED"
                          /\ journal[o].amount = decision.refund
    /\ decision.release > 0 =>
         \E o \in OpIds : /\ ~IsRefund(o) /\ journal[o].status = "SUCCEEDED"
                          /\ journal[o].amount = decision.release

\* The conditions under which DEPOSIT_SETTLED completes a RETURNED booking.
SettledCompletes(now) ==
  /\ booking = "RETURNED"
  /\ disputeStatus \in {"NONE", "RESOLVED"}
  /\ windowEnds # NoTime
  /\ windowEnds <= now \/ disputeStatus = "RESOLVED"

\* Mutant of HoldsLease: the outcome is written without looking at the operation again.
HoldsLeaseAlways(w) == worker[w].phase = "called"

\* The worker still holds the lease it claimed.
HoldsLease(w) ==
  /\ ops[worker[w].op].status = "PENDING"
  /\ ops[worker[w].op].lease = worker[w].token

\* A timeout gives the lease back and backs off; a decline fails the operation;
\* a success is added to the deposit, and settles it when nothing is missing.
Record(w) ==
  LET o == worker[w].op
      now == worker[w].now
      done(status) == [ops EXCEPT ![o].status = status, ![o].lease = NoTime]
      nextRefunded == refunded + IF IsRefund(o) THEN ops[o].amount ELSE 0
      nextReleased == released + IF IsRefund(o) THEN 0 ELSE ops[o].amount
      resolved == nextRefunded + nextReleased = amount /\ LegsPaid(done("SUCCEEDED"))
  IN CASE worker[w].outcome = "TIMEOUT" ->
            /\ ops' = [ops EXCEPT ![o].lease = NoTime, ![o].next = now + RetryDelay]
            /\ UNCHANGED <<booking, depositStatus, refunded, released>>
       [] worker[w].outcome = "DECLINED" ->
            /\ ops' = done("FAILED")
            /\ UNCHANGED <<booking, depositStatus, refunded, released>>
       [] OTHER ->
            IF depositStatus = "RESOLVING" /\ nextRefunded + nextReleased <= amount
              THEN /\ ops' = done("SUCCEEDED")
                   /\ refunded' = nextRefunded
                   /\ released' = nextReleased
                   /\ depositStatus' = IF resolved THEN "RESOLVED" ELSE depositStatus
                   /\ booking' = IF resolved /\ SettledCompletes(now)
                                   THEN "COMPLETED" ELSE booking
              ELSE UNCHANGED <<ops, booking, depositStatus, refunded, released>>

\* applyOutcome: nothing is written for a lease that has been lost.
ApplyOutcome(w) ==
  /\ LockFree
  /\ worker[w].phase = "called"
  /\ IF HoldsLease(w)
       THEN Record(w)
       ELSE UNCHANGED <<ops, booking, depositStatus, refunded, released>>
  /\ worker' = [worker EXCEPT ![w] = Proceed(worker[w].now, worker[w].batch)]
  /\ UNCHANGED <<clock, amount, acts, payment, windowEnds, disputeVars,
                 checkoutTx, externalVars>>

\* The process dies and restarts: its batch and an unrecorded outcome are lost.
Crash(w) ==
  /\ clock < Calm
  /\ worker[w].phase # "idle"
  /\ worker' = [worker EXCEPT ![w] = IdleWorker]
  /\ UNCHANGED <<clock, amount, bookingVars, depositVars, disputeVars,
                 checkoutTx, ops, externalVars>>

Tick ==
  /\ clock < MaxClock
  /\ clock' = clock + 1
  /\ UNCHANGED <<amount, bookingVars, depositVars, disputeVars,
                 checkoutTx, ops, externalVars, worker>>

-----------------------------------------------------------------------------
Checkout == (\E key \in CheckoutKeys : CheckoutCall(key)) \/ CheckoutCommit \/ CheckoutAbort

Lifecycle ==
  \/ CancelConfirmed
  \/ \E stage \in Stages : CreateAct(stage)
  \/ ConfirmHandover
  \/ ConfirmReturn

Settlement ==
  \/ OpenDispute
  \/ \E refund \in 0 .. amount : ResolveDispute(refund)
  \/ DeadlineRefund
  \/ \E o \in OpIds : RetryFailed(o)

Process(w) ==
  \/ Scan(w)
  \/ \E o \in OpIds : Claim(w, o) \/ SkipOperation(w, o)
  \/ CallProvider(w)
  \/ ApplyOutcome(w)

Next ==
  \/ Checkout
  \/ Lifecycle
  \/ Settlement
  \/ \E w \in Workers : Process(w) \/ Crash(w)
  \/ Tick

Spec == Init /\ [][Next]_vars

\* What the code schedules by itself: time, the 5-second run of the processor on
\* every replica, the 60-second run of the deadline worker, and the end of an open
\* checkout transaction.  People, administrators included, are not fair.
Fairness ==
  /\ WF_vars(Tick)
  /\ WF_vars(CheckoutCommit \/ CheckoutAbort)
  /\ WF_vars(DeadlineRefund)
  /\ \A w \in Workers : WF_vars(Process(w))

FairSpec == Spec /\ Fairness

-----------------------------------------------------------------------------
(***************************************************************************)
(* Safety                                                                  *)
(***************************************************************************)

\* Operations of one kind that the journal, or the provider, holds as executed.
Succeeded(refund) == {o \in OpIds : ops[o].status = "SUCCEEDED" /\ IsRefund(o) = refund}
Executed(refund) == {o \in OpIds : verdict[o] = "SUCCEEDED" /\ IsRefund(o) = refund}

\* A success is added to the deposit exactly once, whatever the interleaving of
\* leases, crashes and retries: the accumulated amounts of BookingDeposit are
\* those of the successful journal rows, of which each kind has at most one
\* (applyOutcome).
AmountsMatchJournal ==
  /\ \A o \in Succeeded(TRUE) : refunded = ops[o].amount
  /\ \A o \in Succeeded(FALSE) : released = ops[o].amount
  /\ Succeeded(TRUE) = {} => refunded = 0
  /\ Succeeded(FALSE) = {} => released = 0
  /\ \A r \in BOOLEAN : \A o1, o2 \in Succeeded(r) : o1 = o2

\* The database's own constraint, and more: the deposit never pays out more than
\* was held, and it is RESOLVED exactly when all of it has been paid out
\* (applyOutcome's total against the statuses written by every other command).
SettledExactly ==
  /\ refunded + released <= amount
  /\ depositStatus = "RESOLVED" <=> (amount > 0 /\ refunded + released = amount)

\* What is paid out is what was decided: a resolved dispute's split, or all of it
\* to the borrower when there is no dispute (resolveDispute, processDue and
\* cancelPending against applyOutcome).
ResolvedAsDecided ==
  depositStatus = "RESOLVED" =>
    IF disputeStatus = "RESOLVED"
      THEN refunded = decision.refund /\ released = decision.release
      ELSE refunded = amount /\ released = 0

\* The provider moves each part of the deposit at most once, never more than the
\* deposit, and the journal never contradicts it: neither a crash between call and
\* record, nor a lost lease, nor a retry of a failed operation pays twice
\* (idempotency keys of processOne and retryFailedOperation).
PaidOnce ==
  /\ \A r \in BOOLEAN : \A o1, o2 \in Executed(r) : o1 = o2
  /\ \A o1 \in Executed(TRUE), o2 \in Executed(FALSE) :
       ops[o1].amount + ops[o2].amount <= amount
  /\ \A o \in OpIds : /\ ops[o].status = "SUCCEEDED" => verdict[o] = "SUCCEEDED"
                      /\ ops[o].status = "FAILED" => verdict[o] = "DECLINED"

\* The lease is a fence: two runs never both hold the current lease of one
\* operation, although clocks of runs go stale and leases expire mid-call
\* (processOne's token processingUntil).
LeaseExclusive ==
  \A w1, w2 \in Workers :
    (InFlight(w1) /\ InFlight(w2) /\ worker[w1].op = worker[w2].op
       /\ HoldsLease(w1) /\ HoldsLease(w2)) => w1 = w2

\* A handed-over item is secured: while the item is out, the rental is paid and
\* the whole deposit is held; until the money is split, none of it has moved and no
\* operation exists.  Cancellation, checkout and the acts race for this.
ItemOutIsSecured ==
  /\ booking \in {"ACTIVE", "RETURNED"} =>
       payment /\ (amount > 0 => depositStatus \in {"HELD", "DISPUTED"})
  /\ depositStatus \in {"NONE", "PENDING", "HELD", "DISPUTED", "CANCELLED"} =>
       refunded + released = 0 /\ \A o \in OpIds : ops[o].status = "NONE"

\* The race of openDispute, processDue and cancelPending has one winner: the legs
\* of only one of them are ever scheduled, and a dispute excludes an automatic
\* refund for good.
OneSettlementPath ==
  LET used == {o[1] : o \in {p \in OpIds : ops[p].status # "NONE"}} IN
  /\ \/ used = {}
     \/ used = {"preHandoverRefund"} /\ booking = "CANCELLED"
     \/ used = {"autoRefund"} /\ disputeStatus = "NONE"
     \/ used \subseteq {"resolveRefund", "resolveRelease"} /\ disputeStatus = "RESOLVED"
  /\ disputeStatus = "OPEN" <=> depositStatus = "DISPUTED"

\* Results are final: a decided operation is never reopened, an accumulated amount
\* never shrinks, and a booking that has ended stays ended.
ResultsAreFinal ==
  [][/\ \A o \in OpIds : ops[o].status \in {"SUCCEEDED", "FAILED"} => ops'[o] = ops[o]
     /\ refunded' >= refunded /\ released' >= released
     /\ booking \in {"COMPLETED", "CANCELLED"} => booking' = booking]_vars

\* The dispute window is honoured: no automatic refund is scheduled while a
\* dispute could still be opened by a request that arrives now.
WindowHonoured ==
  [][(ops[<<"autoRefund", 0>>].status = "NONE" /\ ops'[<<"autoRefund", 0>>].status # "NONE")
       => acts["RETURN"] = "CONFIRMED" /\ windowEnds <= clock]_vars

(***************************************************************************)
(* Liveness                                                                *)
(***************************************************************************)

\* A settlement that has started ends: after crashes, lost answers, expired leases
\* and stale runs every operation is executed, unless the provider declines one
\* (processPending and the lease that lets another run take over).
SettlementEnds ==
  depositStatus = "RESOLVING" ~>
    (depositStatus = "RESOLVED" \/ \E o \in OpIds : ops[o].status = "FAILED")

\* A deposit is not forgotten at the end of its window: it goes back, or it is
\* disputed, without anybody asking (processDue).
ReturnedDepositMoves ==
  (booking = "RETURNED" /\ depositStatus = "HELD" /\ windowEnds <= MaxClock) ~>
    depositStatus # "HELD"

\* Deposits move by themselves: a returned one leaves its window, a started settlement
\* reaches its end (the deadline worker and the operation processor together).
DepositsMove == SettlementEnds /\ ReturnedDepositMoves

(***************************************************************************)
(* Refinement                                                              *)
(***************************************************************************)

\* The split a settlement is executing: a dispute's decision, else a full refund.
Split ==
  IF disputeStatus = "RESOLVED" THEN decision
  ELSE IF depositStatus \in {"RESOLVING", "RESOLVED"}
    THEN [refund |-> amount, release |-> 0]
    ELSE NoDecision

Escrow == INSTANCE DepositEscrow WITH
  NoSplit <- NoDecision, status <- depositStatus,
  split <- Split, toBorrower <- refunded, toLender <- released

\* The safe deal keeps the promise of DepositEscrow: of all the commands and worker
\* steps that touch BookingDeposit, each one either leaves the escrow alone or
\* makes a single legal move of deposit-state.ts with the amounts of the decision.
ImplementsEscrow == Escrow!EscrowSpec
=============================================================================
