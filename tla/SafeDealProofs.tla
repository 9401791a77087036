--------------------------- MODULE SafeDealProofs ---------------------------
(***************************************************************************)
(* Theorems about SafeDeal, for every set of workers, every deposit, every *)
(* number of retries and every length of window, lease and back-off.       *)
(***************************************************************************)
EXTENDS SafeDeal, TLAPS

-----------------------------------------------------------------------------
(* Typing of the rows the commands write. *)

\* A freshly scheduled operation and an absent one are rows of the journal.
LEMMA RowTypes ==
  ASSUME clock \in Nat
  PROVE  /\ Absent \in Operation
         /\ \A a \in Nat : Scheduled(a) \in Operation
BY DEF Absent, Scheduled, Operation, OpStatuses

\* A run that goes on, or ends, is a run, and is not in flight.
LEMMA RunTypes ==
  /\ IdleWorker \in Run
  /\ \A now \in Nat, batch \in SUBSET OpIds :
       Proceed(now, batch) \in Run /\ Proceed(now, batch).phase \in {"idle", "scanned"}
BY DEF IdleWorker, Proceed, Run, NoOp

\* A booking that has just been confirmed is well typed.
LEMMA InitTypes == Init => TypeOK
<1> USE SafeDealAssumption
<1> SUFFICES ASSUME Init PROVE TypeOK
  OBVIOUS
<1>1. ops \in [OpIds -> Operation] /\ worker \in [Workers -> Run]
  BY RowTypes, RunTypes DEF Init
<1>2. \A w \in Workers : ~InFlight(w)
  BY DEF Init, InFlight, IdleWorker
<1>3. /\ acts \in [Stages -> {"NONE", "CREATED", "CONFIRMED"}]
      /\ verdict \in [OpIds -> {"NONE", "SUCCEEDED", "DECLINED"}]
      /\ decision \in [refund : Nat, release : Nat]
  BY DEF Init, NoDecision
<1>4. depositStatus \in DepositStatuses /\ booking \in BookingStatuses
  BY DEF Init, BookingStatuses, DepositStatuses
<1>5. clock \in 0 .. MaxClock /\ amount \in Amounts
  BY DEF Init
<1>6. /\ payment \in BOOLEAN
      /\ refunded \in Nat /\ released \in Nat
      /\ windowEnds \in Nat \cup {NoTime}
      /\ disputeStatus \in {"NONE", "OPEN", "RESOLVED"}
      /\ checkoutTx \in CheckoutKeys \cup {NoCheckout}
      /\ charges \subseteq CheckoutKeys
  BY DEF Init
<1>7. \A w \in Workers : InFlight(w) => worker[w].op \in OpIds
  BY <1>2
<1> QED
  BY <1>1, <1>3, <1>4, <1>5, <1>6, <1>7, Zenon DEF TypeOK

\* Every command and every worker step keeps the types of the rows it writes.
LEMMA StepTypes == TypeOK /\ [Next]_vars => TypeOK'
<1> USE SafeDealAssumption
<1> SUFFICES ASSUME TypeOK, [Next]_vars
             PROVE  TypeOK'
  OBVIOUS
<1> USE DEF TypeOK, bookingVars, depositVars, disputeVars, externalVars, LockFree, InFlight
<1>a. clock \in Nat /\ amount \in Nat
  OBVIOUS
<1>b. \A a \in Nat : Scheduled(a) \in Operation
  BY <1>a, RowTypes
<1>1. CASE Checkout
  BY <1>1 DEF Checkout, CheckoutCall, CheckoutCommit, CheckoutAbort, DepositStatuses
<1>2. ASSUME CancelConfirmed PROVE TypeOK'
  BY <1>2, <1>a, <1>b DEF CancelConfirmed, BookingStatuses, DepositStatuses
<1>3. ASSUME NEW stage \in Stages, CreateAct(stage) PROVE TypeOK'
  BY <1>3 DEF CreateAct
<1>4. ASSUME ConfirmHandover PROVE TypeOK'
  BY <1>4 DEF ConfirmHandover, Stages, BookingStatuses
<1>5. ASSUME ConfirmReturn PROVE TypeOK'
  BY <1>5 DEF ConfirmReturn, Stages, BookingStatuses
<1>6. ASSUME OpenDispute PROVE TypeOK'
  BY <1>6 DEF OpenDispute, DepositStatuses
<1>7. ASSUME NEW refund \in 0 .. amount, ResolveDispute(refund) PROVE TypeOK'
  <2>1. refund \in Nat /\ amount - refund \in Nat
    BY <1>a
  <2>2. Resolution(refund, amount - refund) \in [OpIds -> Operation]
    BY <2>1, <1>b DEF Resolution
  <2>3. QED
    BY <1>7, <2>1, <2>2 DEF ResolveDispute, DepositStatuses, BookingStatuses
<1>8. ASSUME DeadlineRefund PROVE TypeOK'
  BY <1>8, <1>a, <1>b DEF DeadlineRefund, DepositStatuses, BookingStatuses
<1>9. ASSUME NEW o \in OpIds, RetryFailed(o) PROVE TypeOK'
  <2>1. ops[o].amount \in Nat
    BY DEF Operation
  <2>2. QED
    BY <1>9, <1>b, <2>1 DEF RetryFailed
<1>10. ASSUME NEW w \in Workers, Process(w) PROVE TypeOK'
  <2>1. CASE Scan(w)
    <3> DEFINE batch == {o \in OpIds : Claimable(o, clock)}
    <3>1. batch \in SUBSET OpIds
      OBVIOUS
    <3>2. /\ Proceed(clock, batch) \in Run
          /\ Proceed(clock, batch).phase \in {"idle", "scanned"}
      BY <1>a, <3>1, RunTypes
    <3>3. worker' = [worker EXCEPT ![w] = Proceed(clock, batch)]
      BY <2>1 DEF Scan
    <3> HIDE DEF batch
    <3>4. worker' \in [Workers -> Run]
      BY <3>2, <3>3
    <3>5. \A v \in Workers : InFlight(v)' => worker'[v].op \in OpIds
      BY <3>2, <3>3
    <3>6. QED
      BY <2>1, <3>4, <3>5 DEF Scan
  <2>2. ASSUME NEW o \in OpIds, Claim(w, o) PROVE TypeOK'
    <3> DEFINE token == worker[w].now + Lease
    <3>1. token \in Nat
      BY DEF Run
    <3> HIDE DEF token
    <3>2. ops' = [ops EXCEPT ![o].lease = token]
      BY <2>2 DEF Claim, token
    <3>3. ops' \in [OpIds -> Operation]
      BY <3>1, <3>2 DEF Operation
    <3>4. worker' = [worker EXCEPT ![w] =
            [worker[w] EXCEPT !.phase = "claimed", !.batch = worker[w].batch \ {o},
                              !.op = o, !.token = token]]
      BY <2>2 DEF Claim, token
    <3>5. [worker[w] EXCEPT !.phase = "claimed", !.batch = worker[w].batch \ {o},
                            !.op = o, !.token = token] \in Run
      <4>1. worker[w] \in Run
        OBVIOUS
      <4>2. \A r \in Run : [r EXCEPT !.phase = "claimed", !.batch = r.batch \ {o},
                                      !.op = o, !.token = token] \in Run
        BY <3>1 DEF Run
      <4>3. QED
        BY <4>1, <4>2
    <3>6. worker' \in [Workers -> Run]
      BY <3>4, <3>5
    <3>7. \A v \in Workers : InFlight(v)' => worker'[v].op \in OpIds
      BY <3>4
    <3>8. QED
      BY <2>2, <3>3, <3>6, <3>7 DEF Claim
  <2>3. ASSUME NEW o \in OpIds, SkipOperation(w, o) PROVE TypeOK'
    <3>1. worker[w].now \in Nat /\ worker[w].batch \ {o} \in SUBSET OpIds
      BY DEF Run
    <3>2. QED
      BY <2>3, <3>1, RunTypes DEF SkipOperation
  <2>4. CASE CallProvider(w)
    <3>1. worker[w].op \in OpIds
      BY <2>4 DEF CallProvider
    <3>2. verdict' \in [OpIds -> {"NONE", "SUCCEEDED", "DECLINED"}]
      BY <2>4 DEF CallProvider
    <3>3. \A answer \in {verdict'[worker[w].op], "TIMEOUT"} : 
            answer \in {"NONE", "SUCCEEDED", "DECLINED", "TIMEOUT"}
      BY <3>1, <3>2
    <3>4. PICK answer \in {"SUCCEEDED", "DECLINED", "TIMEOUT"} :
            worker' = [worker EXCEPT ![w].phase = "called", ![w].outcome = answer]
      BY <2>4, <3>3 DEF CallProvider
    <3>5. worker' \in [Workers -> Run]
      <4>1. [worker[w] EXCEPT !.phase = "called", !.outcome = answer] \in Run
        <5>1. worker[w] \in Run
          OBVIOUS
        <5>2. \A r \in Run, a \in {"SUCCEEDED", "DECLINED", "TIMEOUT"} :
                [r EXCEPT !.phase = "called", !.outcome = a] \in Run
          BY DEF Run
        <5>3. QED
          BY <5>1, <5>2
      <4>2. worker' = [worker EXCEPT ![w] =
              [worker[w] EXCEPT !.phase = "called", !.outcome = answer]]
        BY <3>4
      <4>3. QED
        BY <4>1, <4>2
    <3>6. QED
      BY <2>4, <3>1, <3>2, <3>4, <3>5 DEF CallProvider
  <2>5. CASE ApplyOutcome(w)
    <3>1. worker[w].op \in OpIds /\ worker[w].now \in Nat /\ worker[w].batch \in SUBSET OpIds
      BY <2>5 DEF ApplyOutcome, Run
    <3>2. /\ worker' \in [Workers -> Run]
          /\ \A v \in Workers : InFlight(v)' => worker'[v].op \in OpIds
      BY <2>5, <3>1, RunTypes DEF ApplyOutcome
    <3>3. ASSUME Record(w)
          PROVE  /\ ops' \in [OpIds -> Operation]
                 /\ booking' \in BookingStatuses /\ depositStatus' \in DepositStatuses
                 /\ refunded' \in Nat /\ released' \in Nat
      <4>1. ops[worker[w].op].amount \in Nat
        BY <3>1 DEF Operation
      <4>2. \A status \in OpStatuses :
              [ops EXCEPT ![worker[w].op].status = status, ![worker[w].op].lease = NoTime]
                \in [OpIds -> Operation]
        BY <3>1 DEF Operation
      <4>3. [ops EXCEPT ![worker[w].op].lease = NoTime,
                        ![worker[w].op].next = worker[w].now + RetryDelay]
              \in [OpIds -> Operation]
        BY <3>1 DEF Operation
      <4>4. QED
        BY <3>3, <4>1, <4>2, <4>3, SMTT(120) DEF Record, OpStatuses, BookingStatuses, DepositStatuses
    <3>4. QED
      BY <2>5, <3>2, <3>3 DEF ApplyOutcome
  <2>6. QED
    BY <1>10, <2>1, <2>2, <2>3, <2>4, <2>5 DEF Process
<1>11. ASSUME NEW w \in Workers, Crash(w) PROVE TypeOK'
  BY <1>11, RunTypes DEF Crash, IdleWorker
<1>12. CASE Tick
  BY <1>12 DEF Tick
<1>13. CASE UNCHANGED vars
  BY <1>13 DEF vars
<1>14. QED
  BY <1>1, <1>2, <1>3, <1>4, <1>5, <1>6, <1>7, <1>8, <1>9, <1>10, <1>11, <1>12, <1>13
     DEF Next, Lifecycle, Settlement

\* Every variable keeps its type, and a run in flight always has an operation in
\* hand (all commands of DepositService, DisputeService, BookingActService and the
\* two workers).
THEOREM TypeCorrect == Spec => []TypeOK
BY InitTypes, StepTypes, PTL DEF Spec
-----------------------------------------------------------------------------
(***************************************************************************)
(* The inductive invariant.                                                *)
(***************************************************************************)

Live(o) == ops[o].status # "NONE"
Untouched == {"NONE", "PENDING", "HELD", "DISPUTED", "CANCELLED"}
Deciding == {"RESOLVING", "RESOLVED"}
PartOf(o) == IF IsRefund(o) THEN Split.refund ELSE Split.release

\* How the statuses of booking, payment, deposit and dispute go together.
Statuses ==
  /\ amount = 0 <=> depositStatus = "NONE"
  /\ booking = "CONFIRMED" => depositStatus \in {"NONE", "PENDING", "HELD"}
  /\ booking \in {"ACTIVE", "RETURNED"} =>
       payment /\ (amount > 0 => depositStatus \in {"HELD", "DISPUTED"})
  /\ ~LockFree => booking = "CONFIRMED" /\ ~payment
  /\ depositStatus \in Deciding => booking \in {"CANCELLED", "COMPLETED"}
  /\ windowEnds # NoTime => acts["RETURN"] = "CONFIRMED"
  /\ disputeStatus = "OPEN" <=> depositStatus = "DISPUTED"
  /\ disputeStatus = "RESOLVED" =>
       /\ depositStatus \in Deciding
       /\ decision.refund + decision.release = amount

\* The journal holds the legs of one settlement, each operation with the amount of
\* its part, and an operation is retried only after it has failed.
Journal ==
  \A o \in OpIds : Live(o) =>
    /\ depositStatus \in Deciding
    /\ \/ o[1] = "preHandoverRefund" /\ booking = "CANCELLED" /\ disputeStatus = "NONE"
       \/ o[1] = "autoRefund" /\ booking = "COMPLETED" /\ disputeStatus = "NONE"
       \/ /\ o[1] \in {"resolveRefund", "resolveRelease"}
          /\ booking = "COMPLETED" /\ disputeStatus = "RESOLVED"
    /\ ops[o].amount = PartOf(o) /\ PartOf(o) > 0
    /\ \A k \in 0 .. MaxRetries : k < o[2] => ops[<<o[1], k>>].status = "FAILED"

\* What the journal, the runs and the provider know of an operation agrees.
Verdict ==
  /\ \A o \in OpIds :
       /\ verdict[o] # "NONE" => Live(o)
       /\ ops[o].status = "SUCCEEDED" => verdict[o] = "SUCCEEDED"
       /\ ops[o].status = "FAILED" => verdict[o] = "DECLINED"
  /\ \A w \in Workers :
       /\ InFlight(w) => Live(worker[w].op)
       /\ worker[w].phase = "called" =>
            worker[w].outcome \in {"TIMEOUT", verdict[worker[w].op]} \ {"NONE"}

\* The order of the claims of an operation is that of their clocks.
Fence ==
  \A w \in Workers : InFlight(w) /\ ops[worker[w].op].status = "PENDING" =>
    /\ worker[w].token = worker[w].now + Lease
    /\ ops[worker[w].op].lease = NoTime => worker[w].token <= ops[worker[w].op].next
    /\ ops[worker[w].op].lease # NoTime => worker[w].token <= ops[worker[w].op].lease
    /\ \A v \in Workers \ {w} :
         InFlight(v) /\ worker[v].op = worker[w].op /\ HoldsLease(v) =>
           worker[w].token <= worker[v].now

\* BookingDeposit's amounts are those of the executed operations.
Ledger ==
  /\ depositStatus \in Untouched => refunded = 0 /\ released = 0
  /\ AmountsMatchJournal
  /\ SettledExactly

Accounted == TypeOK /\ Statuses /\ Journal /\ Verdict /\ Fence /\ Ledger

-----------------------------------------------------------------------------
(* Facts about the rows. *)

\* An idempotency key is its leg and its retry number.
LEMMA OpParts ==
  /\ \A o \in OpIds : o[1] \in Legs /\ o[2] \in 0 .. MaxRetries /\ o = <<o[1], o[2]>>
  /\ \A l \in Legs, k \in 0 .. MaxRetries :
       <<l, k>> \in OpIds /\ <<l, k>>[1] = l /\ <<l, k>>[2] = k
BY DEF OpIds

\* The types of the columns and local variables the arguments below compute with.
LEMMA Rows ==
  ASSUME TypeOK
  PROVE  /\ amount \in Nat /\ clock \in Nat /\ refunded \in Nat /\ released \in Nat
         /\ decision.refund \in Nat /\ decision.release \in Nat
         /\ \A o \in OpIds :
              /\ ops[o].status \in OpStatuses /\ ops[o].amount \in Nat
              /\ ops[o].lease \in Nat \cup {NoTime} /\ ops[o].next \in Nat \cup {NoTime}
         /\ \A w \in Workers :
              /\ worker[w].now \in Nat /\ worker[w].token \in Nat \cup {NoTime}
              /\ worker[w].batch \in SUBSET OpIds
              /\ worker[w].outcome \in {"none", "SUCCEEDED", "DECLINED", "TIMEOUT"}
BY SafeDealAssumption DEF TypeOK, Operation, Run

\* A deposit that no command has decided about has no operations.
LEMMA NothingLive ==
  ASSUME Journal, depositStatus \notin Deciding
  PROVE  \A o \in OpIds : ops[o].status = "NONE"
BY DEF Journal, Live

\* The parts of the split add up to the deposit.
LEMMA SplitAddsUp ==
  ASSUME TypeOK, Statuses, depositStatus \in Deciding
  PROVE  /\ Split.refund \in Nat /\ Split.release \in Nat
         /\ Split.refund + Split.release = amount
<1>1. amount \in Nat /\ decision.refund \in Nat /\ decision.release \in Nat
  BY Rows
<1>2. CASE disputeStatus = "RESOLVED"
  BY <1>1, <1>2 DEF Split, Statuses
<1>3. CASE disputeStatus # "RESOLVED"
  BY <1>1, <1>3 DEF Split, Deciding
<1>4. QED
  BY <1>2, <1>3

\* Of the operations of one kind only one has not failed: a retry follows a failure,
\* and the legs of one kind belong to different settlements.
LEMMA OneUnfailed ==
  ASSUME TypeOK, Journal, NEW o1 \in OpIds, NEW o2 \in OpIds,
         Live(o1), Live(o2), ops[o1].status # "FAILED", ops[o2].status # "FAILED",
         IsRefund(o1) = IsRefund(o2)
  PROVE  o1 = o2
<1>1. o1[1] = o2[1]
  BY OpParts DEF Journal, IsRefund, Legs, RefundLegs
<1>2. /\ o1[2] \in 0 .. MaxRetries /\ o2[2] \in 0 .. MaxRetries
      /\ o1 = <<o1[1], o1[2]>> /\ o2 = <<o2[1], o2[2]>>
  BY OpParts
<1>3. /\ o1[2] < o2[2] => ops[<<o2[1], o1[2]>>].status = "FAILED"
      /\ o2[2] < o1[2] => ops[<<o1[1], o2[2]>>].status = "FAILED"
  BY <1>2 DEF Journal
<1>4. ~(o1[2] < o2[2]) /\ ~(o2[2] < o1[2])
  BY <1>1, <1>2, <1>3
<1>5. o1[2] = o2[2]
  BY <1>2, <1>4, SafeDealAssumption
<1>6. QED
  BY <1>1, <1>2, <1>5

-----------------------------------------------------------------------------
(* What applyOutcome writes, by outcome. *)

Ended(o, s) == ops' = [ops EXCEPT ![o].status = s, ![o].lease = NoTime]
Postponed(o, now) == ops' = [ops EXCEPT ![o].lease = NoTime, ![o].next = now + RetryDelay]

Paid(o) ==
  /\ ops[o].status = "PENDING" /\ verdict[o] = "SUCCEEDED" /\ depositStatus = "RESOLVING"
  /\ Ended(o, "SUCCEEDED")
  /\ refunded' = refunded + IF IsRefund(o) THEN ops[o].amount ELSE 0
  /\ released' = released + IF IsRefund(o) THEN 0 ELSE ops[o].amount
  /\ refunded' + released' <= amount
  /\ depositStatus' = IF refunded' + released' = amount /\ LegsPaid(ops')
                        THEN "RESOLVED" ELSE depositStatus

Recorded(w) ==
  LET o == worker[w].op IN
  \/ UNCHANGED <<ops, depositStatus, refunded, released>>
  \/ /\ ops[o].status = "PENDING" /\ ops[o].lease = worker[w].token
     /\ \/ /\ Postponed(o, worker[w].now)
           /\ UNCHANGED <<depositStatus, refunded, released>>
        \/ /\ verdict[o] = "DECLINED" /\ Ended(o, "FAILED")
           /\ UNCHANGED <<depositStatus, refunded, released>>
        \/ Paid(o)

\* An outcome is recorded for a live operation, and never completes the booking:
\* the booking has ended when its deposit is being settled.
LEMMA OutcomeRecorded ==
  ASSUME TypeOK, Statuses, Verdict, NEW w \in Workers, ApplyOutcome(w)
  PROVE  worker[w].op \in OpIds /\ booking' = booking /\ Recorded(w)
<1> DEFINE o == worker[w].op
<1>1. o \in OpIds /\ worker[w].phase = "called"
  BY DEF ApplyOutcome, TypeOK, InFlight
<1>2. CASE ~HoldsLease(w)
  BY <1>1, <1>2 DEF ApplyOutcome, Recorded
<1>3. CASE HoldsLease(w)
  <2>1. ops[o].status = "PENDING" /\ ops[o].lease = worker[w].token
    BY <1>3 DEF HoldsLease
  <2>2. Record(w)
    BY <1>3 DEF ApplyOutcome
  <2>3. CASE worker[w].outcome = "TIMEOUT"
    BY <1>1, <2>1, <2>2, <2>3 DEF Record, Recorded, Postponed
  <2>4. CASE worker[w].outcome = "DECLINED"
    <3>1. verdict[o] = "DECLINED"
      BY <1>1, <2>4 DEF Verdict
    <3>2. QED
      BY <1>1, <2>1, <2>2, <2>4, <3>1 DEF Record, Recorded, Ended
  <2>5. CASE worker[w].outcome \notin {"TIMEOUT", "DECLINED"}
    <3>1. verdict[o] = "SUCCEEDED"
      <4>1. verdict[o] \in {"NONE", "SUCCEEDED", "DECLINED"}
        BY <1>1 DEF TypeOK
      <4>2. QED
        BY <1>1, <2>5, <4>1 DEF Verdict
    <3>2. CASE UNCHANGED <<ops, booking, depositStatus, refunded, released>>
      BY <1>1, <3>2 DEF Recorded
    <3>3. CASE ~UNCHANGED <<ops, booking, depositStatus, refunded, released>>
      <4>1. booking' = booking
        BY <2>2, <2>5 DEF Record, Statuses, SettledCompletes, Deciding
      <4>2. Paid(o)
        BY <2>1, <2>2, <2>5, <3>1, <3>3, SMTT(120) DEF Record, Paid, Ended
      <4>3. QED
        BY <1>1, <2>1, <4>1, <4>2 DEF Recorded
    <3>4. QED
      BY <3>2, <3>3
  <2>6. QED
    BY <2>3, <2>4, <2>5
<1>4. QED
  BY <1>2, <1>3

\* Rows that are not concerned stay as they are, and no amount ever changes.
LEMMA EndedRows ==
  ASSUME TypeOK, NEW o \in OpIds, NEW s \in OpStatuses, Ended(o, s)
  PROVE  /\ ops'[o].status = s /\ ops'[o].amount = ops[o].amount
         /\ \A p \in OpIds : p # o => ops'[p] = ops[p]
BY DEF Ended, TypeOK, Operation

\* Postponing an operation gives its lease back and moves its next attempt.
LEMMA PostponedRows ==
  ASSUME TypeOK, NEW o \in OpIds, NEW now \in Nat, Postponed(o, now)
  PROVE  /\ ops'[o].status = ops[o].status /\ ops'[o].amount = ops[o].amount
         /\ ops'[o].lease = NoTime /\ ops'[o].next = now + RetryDelay
         /\ \A p \in OpIds : p # o => ops'[p] = ops[p]
BY DEF Postponed, TypeOK, Operation

\* Claiming an operation changes its lease only.
LEMMA ClaimedRows ==
  ASSUME TypeOK, NEW w \in Workers, NEW o \in OpIds, Claim(w, o)
  PROVE  /\ ops'[o].status = "PENDING" /\ ops[o].status = "PENDING"
         /\ ops'[o].amount = ops[o].amount
         /\ ops'[o].lease = worker[w].now + Lease
         /\ \A p \in OpIds : p # o => ops'[p] = ops[p]
BY DEF Claim, Claimable, TypeOK, Operation

\* A run writes a row only to lease or postpone a pending operation, or to end it
\* as the provider has decided.
LEMMA WorkerRows ==
  ASSUME TypeOK, Statuses, Verdict, NEW w \in Workers, Process(w) \/ Crash(w)
  PROVE  \A o \in OpIds :
           /\ ops'[o].amount = ops[o].amount
           /\ \/ ops'[o] = ops[o]
              \/ /\ ops[o].status = "PENDING"
                 /\ \/ ops'[o].status = "PENDING"
                    \/ ops'[o].status = "SUCCEEDED" /\ verdict[o] = "SUCCEEDED"
                    \/ ops'[o].status = "FAILED" /\ verdict[o] = "DECLINED"
<1> DEFINE Moved ==
      \A o \in OpIds :
        /\ ops'[o].amount = ops[o].amount
        /\ \/ ops'[o] = ops[o]
           \/ /\ ops[o].status = "PENDING"
              /\ \/ ops'[o].status = "PENDING"
                 \/ ops'[o].status = "SUCCEEDED" /\ verdict[o] = "SUCCEEDED"
                 \/ ops'[o].status = "FAILED" /\ verdict[o] = "DECLINED"
<1>1. CASE ApplyOutcome(w)
  <2>1. worker[w].op \in OpIds /\ Recorded(w) /\ worker[w].now \in Nat
    BY <1>1, OutcomeRecorded, Rows
  <2>2. CASE ops' = ops
    BY <2>2
  <2>3. ASSUME ops[worker[w].op].status = "PENDING", Postponed(worker[w].op, worker[w].now)
        PROVE  Moved
    BY <2>1, <2>3, PostponedRows
  <2>4. ASSUME NEW s \in {"SUCCEEDED", "FAILED"}, Ended(worker[w].op, s),
               ops[worker[w].op].status = "PENDING",
               verdict[worker[w].op] = IF s = "FAILED" THEN "DECLINED" ELSE "SUCCEEDED"
        PROVE  Moved
    BY <2>1, <2>4, EndedRows DEF OpStatuses
  <2>5. QED
    BY <2>1, <2>2, <2>3, <2>4 DEF Recorded, Paid
<1>2. ASSUME NEW o \in OpIds, Claim(w, o) PROVE Moved
  BY <1>2, ClaimedRows
<1>3. CASE ops' = ops
  BY <1>3
<1>4. QED
  BY <1>1, <1>2, <1>3 DEF Process, Crash, Scan, SkipOperation, CallProvider

-----------------------------------------------------------------------------
(* The statuses of booking, payment, deposit and dispute stay in step. *)

\* A worker step touches no status but the deposit's, which it resolves.
LEMMA ProcessStatuses ==
  ASSUME TypeOK, Statuses, Verdict, NEW w \in Workers, Process(w) \/ Crash(w)
  PROVE  /\ UNCHANGED <<clock, amount, bookingVars, windowEnds, disputeVars, checkoutTx>>
         /\ \/ depositStatus' = depositStatus
            \/ depositStatus = "RESOLVING" /\ depositStatus' = "RESOLVED"
<1>1. CASE ApplyOutcome(w)
  <2>1. booking' = booking /\ Recorded(w)
    BY <1>1, OutcomeRecorded
  <2>2. QED
    BY <1>1, <2>1 DEF ApplyOutcome, Recorded, Paid, bookingVars, disputeVars
<1>2. CASE ~ApplyOutcome(w)
  BY <1>2 DEF Process, Crash, Scan, Claim, SkipOperation, CallProvider,
              bookingVars, depositVars, disputeVars
<1>3. QED
  BY <1>1, <1>2

\* Every command and every worker step keeps the statuses in step.
LEMMA StepStatuses == TypeOK /\ Statuses /\ Verdict /\ [Next]_vars => Statuses'
<1> SUFFICES ASSUME TypeOK, Statuses, Verdict, [Next]_vars
             PROVE  Statuses'
  OBVIOUS
<1> USE DEF bookingVars, depositVars, disputeVars, LockFree, Deciding
<1>a. /\ amount \in Nat /\ clock \in Nat /\ Window \in Nat
      /\ depositStatus \in DepositStatuses /\ booking \in BookingStatuses
  BY Rows, SafeDealAssumption DEF TypeOK
<1>1. CASE Checkout
  BY <1>1, <1>a DEF Checkout, CheckoutCall, CheckoutCommit, CheckoutAbort, Statuses
<1>2. ASSUME CancelConfirmed PROVE Statuses'
  BY <1>2, <1>a DEF CancelConfirmed, Statuses
<1>3. ASSUME NEW stage \in Stages, CreateAct(stage) PROVE Statuses'
  <2>1. acts["RETURN"] = "CONFIRMED" => acts'["RETURN"] = "CONFIRMED"
    BY <1>3 DEF CreateAct, TypeOK, Stages
  <2>2. QED
    BY <1>3, <2>1 DEF CreateAct, Statuses
<1>4. ASSUME ConfirmHandover PROVE Statuses'
  <2>1. acts'["RETURN"] = acts["RETURN"]
    BY <1>4 DEF ConfirmHandover, TypeOK, Stages
  <2>2. QED
    BY <1>4, <1>a, <2>1 DEF ConfirmHandover, Statuses
<1>5. ASSUME ConfirmReturn PROVE Statuses'
  <2>1. acts'["RETURN"] = "CONFIRMED"
    BY <1>5 DEF ConfirmReturn, TypeOK, Stages
  <2>2. QED
    BY <1>5, <1>a, <2>1 DEF ConfirmReturn, Statuses
<1>6. ASSUME OpenDispute PROVE Statuses'
  BY <1>6, <1>a DEF OpenDispute, Statuses
<1>7. ASSUME NEW refund \in 0 .. amount, ResolveDispute(refund) PROVE Statuses'
  <2>1. decision'.refund + decision'.release = amount
    BY <1>7, <1>a DEF ResolveDispute
  <2>2. QED
    BY <1>7, <1>a, <2>1 DEF ResolveDispute, Statuses
<1>8. ASSUME DeadlineRefund PROVE Statuses'
  BY <1>8, <1>a DEF DeadlineRefund, Statuses
<1>9. ASSUME NEW o \in OpIds, RetryFailed(o) PROVE Statuses'
  BY <1>9 DEF RetryFailed, Statuses
<1>10. ASSUME NEW w \in Workers, Process(w) \/ Crash(w) PROVE Statuses'
  <2>1. /\ UNCHANGED <<clock, amount, bookingVars, windowEnds, disputeVars, checkoutTx>>
        /\ \/ depositStatus' = depositStatus
           \/ depositStatus = "RESOLVING" /\ depositStatus' = "RESOLVED"
    BY <1>10, ProcessStatuses
  <2>2. QED
    BY <2>1 DEF Statuses
<1>11. CASE Tick
  BY <1>11 DEF Tick, Statuses
<1>12. CASE UNCHANGED vars
  BY <1>12 DEF vars, Statuses
<1>13. QED
  BY <1>1, <1>2, <1>3, <1>4, <1>5, <1>6, <1>7, <1>8, <1>9, <1>10, <1>11, <1>12
     DEF Next, Lifecycle, Settlement

-----------------------------------------------------------------------------
(* The journal stays the journal of one settlement. *)

\* A step that schedules nothing and decides nothing.
LEMMA JournalKept ==
  ASSUME TypeOK, Journal, UNCHANGED <<amount, booking, disputeVars>>,
         depositStatus \in Deciding => depositStatus' \in Deciding,
         \A o \in OpIds : /\ ops'[o].amount = ops[o].amount
                          /\ ops'[o].status = "NONE" <=> ops[o].status = "NONE"
                          /\ ops[o].status = "FAILED" => ops'[o].status = "FAILED"
  PROVE  Journal'
<1> SUFFICES ASSUME NEW o \in OpIds, ops'[o].status # "NONE"
             PROVE  /\ depositStatus' \in Deciding
                    /\ \/ o[1] = "preHandoverRefund" /\ booking' = "CANCELLED" /\ disputeStatus' = "NONE"
                       \/ o[1] = "autoRefund" /\ booking' = "COMPLETED" /\ disputeStatus' = "NONE"
                       \/ /\ o[1] \in {"resolveRefund", "resolveRelease"}
                          /\ booking' = "COMPLETED" /\ disputeStatus' = "RESOLVED"
                    /\ ops'[o].amount = PartOf(o)' /\ PartOf(o)' > 0
                    /\ \A k \in 0 .. MaxRetries :
                         k < o[2] => ops'[<<o[1], k>>].status = "FAILED"
  BY DEF Journal, Live, Deciding
<1>1. Live(o)
  BY DEF Live
<1>2. depositStatus \in Deciding /\ depositStatus' \in Deciding
  BY <1>1 DEF Journal
<1>3. Split' = Split
  BY <1>2 DEF Split, Deciding, disputeVars, NoDecision
<1>4. PartOf(o)' = PartOf(o)
  BY <1>3 DEF PartOf, IsRefund, RefundLegs
<1>5. \A k \in 0 .. MaxRetries : k < o[2] => ops'[<<o[1], k>>].status = "FAILED"
  BY <1>1, OpParts DEF Journal
<1>6. QED
  BY <1>1, <1>2, <1>4, <1>5 DEF Journal, disputeVars

\* A journal without operations.
LEMMA JournalEmpty ==
  ASSUME \A o \in OpIds : ops'[o].status = "NONE"
  PROVE  Journal'
BY DEF Journal, Live

\* A command that decides about the whole deposit schedules first operations only.
LEMMA JournalOpened ==
  ASSUME TypeOK, Statuses, Journal, depositStatus \in {"HELD", "DISPUTED"},
         depositStatus' = "RESOLVING", amount' = amount,
         \A o \in OpIds : ops'[o].status # "NONE" =>
           /\ o[2] = 0
           /\ \/ o[1] = "preHandoverRefund" /\ booking' = "CANCELLED" /\ disputeStatus' = "NONE"
              \/ o[1] = "autoRefund" /\ booking' = "COMPLETED" /\ disputeStatus' = "NONE"
              \/ /\ o[1] \in {"resolveRefund", "resolveRelease"}
                 /\ booking' = "COMPLETED" /\ disputeStatus' = "RESOLVED"
           /\ ops'[o].amount = PartOf(o)' /\ PartOf(o)' > 0
  PROVE  Journal'
BY DEF Journal, Live, Deciding

\* Every command and every worker step leaves a journal of one settlement.
LEMMA StepJournal ==
  TypeOK /\ Statuses /\ Journal /\ Verdict /\ [Next]_vars => Journal'
<1> SUFFICES ASSUME TypeOK, Statuses, Journal, Verdict, [Next]_vars
             PROVE  Journal'
  OBVIOUS
<1> USE DEF bookingVars, depositVars
<1>a. /\ amount \in Nat
      /\ depositStatus \in DepositStatuses /\ booking \in BookingStatuses
  BY Rows DEF TypeOK
<1>b. \A o \in OpIds : ops[o] \in Operation
  BY DEF TypeOK
<1>c. depositStatus \notin Deciding => \A o \in OpIds : ops[o].status = "NONE"
  BY NothingLive
<1>1. CASE Checkout
  <2>1. depositStatus \notin Deciding
    BY <1>1 DEF Checkout, CheckoutCall, CheckoutCommit, CheckoutAbort, Statuses, Deciding
  <2>2. ops' = ops
    BY <1>1 DEF Checkout, CheckoutCall, CheckoutCommit, CheckoutAbort
  <2>3. QED
    BY <1>c, <2>1, <2>2, JournalEmpty
<1>2. ASSUME CancelConfirmed PROVE Journal'
  <2>1. depositStatus \notin Deciding /\ amount' = amount
    BY <1>2 DEF CancelConfirmed, Deciding
  <2>2. CASE depositStatus # "HELD"
    BY <1>2, <1>c, <2>1, <2>2, JournalEmpty DEF CancelConfirmed
  <2>3. CASE depositStatus = "HELD"
    <3>1. disputeStatus' = "NONE" /\ depositStatus' = "RESOLVING" /\ booking' = "CANCELLED"
      BY <1>2, <2>3 DEF CancelConfirmed, Statuses, Deciding, disputeVars, TypeOK
    <3>2. amount > 0
      BY <1>a, <2>3 DEF Statuses
    <3>3. Split' = [refund |-> amount, release |-> 0]
      BY <2>1, <3>1 DEF Split
    <3>4. \A o \in OpIds : ops'[o].status # "NONE" =>
            o = <<"preHandoverRefund", 0>> /\ ops'[o].amount = amount
      BY <1>2, <1>c, <2>1, <2>3 DEF CancelConfirmed, TypeOK, Scheduled
    <3>5. \A o \in OpIds : ops'[o].status # "NONE" =>
            /\ o[2] = 0 /\ o[1] = "preHandoverRefund"
            /\ ops'[o].amount = PartOf(o)' /\ PartOf(o)' > 0
      BY <3>2, <3>3, <3>4 DEF PartOf, IsRefund, RefundLegs
    <3>6. QED
      BY <2>1, <2>3, <3>1, <3>5, JournalOpened
  <2>4. QED
    BY <2>2, <2>3
<1>3. ASSUME NEW stage \in Stages, CreateAct(stage) PROVE Journal'
  BY <1>3, JournalKept DEF CreateAct
<1>4. ASSUME ConfirmHandover \/ ConfirmReturn \/ OpenDispute PROVE Journal'
  <2>1. depositStatus \notin Deciding /\ ops' = ops
    BY <1>4, <1>a DEF ConfirmHandover, ConfirmReturn, OpenDispute, Statuses, Deciding
  <2>2. QED
    BY <1>c, <2>1, JournalEmpty
<1>5. ASSUME NEW refund \in 0 .. amount, ResolveDispute(refund) PROVE Journal'
  <2>1. /\ depositStatus = "DISPUTED" /\ depositStatus' = "RESOLVING" /\ amount' = amount
        /\ booking' = "COMPLETED" /\ disputeStatus' = "RESOLVED"
    BY <1>5 DEF ResolveDispute
  <2>2. Split' = [refund |-> refund, release |-> amount - refund]
    BY <1>5, <2>1 DEF Split, ResolveDispute
  <2>3. \A o \in OpIds : ops[o].status = "NONE"
    BY <1>c, <2>1 DEF Deciding
  <2>4. \A o \in OpIds : ops'[o].status # "NONE" =>
          \/ o = <<"resolveRefund", 0>> /\ refund # 0 /\ ops'[o].amount = refund
          \/ o = <<"resolveRelease", 0>> /\ amount - refund # 0 /\ ops'[o].amount = amount - refund
    BY <1>5, <2>3 DEF ResolveDispute, Resolution, TypeOK, Scheduled
  <2>5. \A o \in OpIds : ops'[o].status # "NONE" =>
          /\ o[2] = 0 /\ o[1] \in {"resolveRefund", "resolveRelease"}
          /\ ops'[o].amount = PartOf(o)' /\ PartOf(o)' > 0
    BY <1>a, <2>2, <2>4 DEF PartOf, IsRefund, RefundLegs
  <2>6. QED
    BY <2>1, <2>5, JournalOpened
<1>6. ASSUME DeadlineRefund PROVE Journal'
  <2>1. /\ depositStatus = "HELD" /\ depositStatus' = "RESOLVING" /\ amount' = amount
        /\ booking' = "COMPLETED" /\ disputeStatus' = "NONE"
    BY <1>6 DEF DeadlineRefund, disputeVars
  <2>2. Split' = [refund |-> amount, release |-> 0] /\ amount > 0
    BY <1>a, <2>1 DEF Split, Statuses
  <2>3. \A o \in OpIds : ops[o].status = "NONE"
    BY <1>c, <2>1 DEF Deciding
  <2>4. \A o \in OpIds : ops'[o].status # "NONE" =>
          o = <<"autoRefund", 0>> /\ ops'[o].amount = amount
    BY <1>6, <2>3 DEF DeadlineRefund, TypeOK, Scheduled
  <2>5. \A o \in OpIds : ops'[o].status # "NONE" =>
          /\ o[2] = 0 /\ o[1] = "autoRefund"
          /\ ops'[o].amount = PartOf(o)' /\ PartOf(o)' > 0
    BY <2>2, <2>4 DEF PartOf, IsRefund, RefundLegs
  <2>6. QED
    BY <2>1, <2>5, JournalOpened
<1>7. ASSUME NEW o \in OpIds, RetryFailed(o) PROVE Journal'
  <2> DEFINE r == RetryOf(o)
  <2>1. r \in OpIds /\ r[1] = o[1] /\ r[2] = o[2] + 1
    BY <1>7, OpParts, SafeDealAssumption DEF RetryFailed, RetryOf
  <2>2. /\ UNCHANGED <<amount, booking, depositStatus, disputeStatus, decision>>
        /\ ops[o].status = "FAILED" /\ ops[r].status = "NONE"
        /\ ops' = [ops EXCEPT ![r] = Scheduled(ops[o].amount)]
    BY <1>7 DEF RetryFailed, MayRetry, disputeVars
  <2> HIDE DEF r
  <2>3. /\ ops'[r].status = "PENDING" /\ ops'[r].amount = ops[o].amount
        /\ \A p \in OpIds : p # r => ops'[p] = ops[p]
    BY <2>1, <2>2 DEF TypeOK, Scheduled
  <2>4. Split' = Split
    BY <2>2 DEF Split, NoDecision
  <2>5. \A p \in OpIds : PartOf(p)' = PartOf(p)
    BY <2>4 DEF PartOf, IsRefund, RefundLegs
  <2>6. PartOf(r) = PartOf(o)
    BY <2>1 DEF PartOf, IsRefund
  <2>7. ASSUME NEW p \in OpIds, ops'[p].status # "NONE"
        PROVE  /\ depositStatus' \in Deciding
               /\ \/ p[1] = "preHandoverRefund" /\ booking' = "CANCELLED" /\ disputeStatus' = "NONE"
                  \/ p[1] = "autoRefund" /\ booking' = "COMPLETED" /\ disputeStatus' = "NONE"
                  \/ /\ p[1] \in {"resolveRefund", "resolveRelease"}
                     /\ booking' = "COMPLETED" /\ disputeStatus' = "RESOLVED"
               /\ ops'[p].amount = PartOf(p)' /\ PartOf(p)' > 0
               /\ \A k \in 0 .. MaxRetries :
                    k < p[2] => ops'[<<p[1], k>>].status = "FAILED"
    <3>1. CASE p = r
      <4>1. ASSUME NEW k \in 0 .. MaxRetries, k < r[2]
            PROVE  ops'[<<r[1], k>>].status = "FAILED"
        <5>1. o[1] \in Legs /\ o[2] \in 0 .. MaxRetries /\ o = <<o[1], o[2]>>
          BY OpParts
        <5>2. <<r[1], k>> \in OpIds /\ <<r[1], k>> # r
          BY <2>1, <4>1, <5>1, OpParts
        <5>3. k < o[2] \/ k = o[2]
          BY <2>1, <4>1, <5>1, SafeDealAssumption
        <5>4. ops[<<r[1], k>>].status = "FAILED"
          BY <2>1, <2>2, <5>1, <5>3 DEF Journal, Live
        <5>5. QED
          BY <2>3, <5>2, <5>4
      <4>2. QED
        BY <2>1, <2>2, <2>3, <2>5, <2>6, <3>1, <4>1 DEF Journal, Live
    <3>2. CASE p # r
      <4>1. ops'[p] = ops[p] /\ Live(p)
        BY <2>3, <2>7, <3>2 DEF Live
      <4>2. ASSUME NEW k \in 0 .. MaxRetries, k < p[2]
            PROVE  ops'[<<p[1], k>>].status = "FAILED"
        <5>1. <<p[1], k>> \in OpIds /\ ops[<<p[1], k>>].status = "FAILED"
          BY <4>1, <4>2, OpParts DEF Journal
        <5>2. QED
          BY <2>2, <2>3, <5>1
      <4>3. QED
        BY <2>2, <2>5, <4>1, <4>2 DEF Journal
    <3>3. QED
      BY <3>1, <3>2
  <2>8. QED
    BY <2>7 DEF Journal, Live, Deciding
<1>8. ASSUME NEW w \in Workers, Process(w) \/ Crash(w) PROVE Journal'
  <2>1. /\ UNCHANGED <<amount, booking, disputeVars>>
        /\ depositStatus \in Deciding => depositStatus' \in Deciding
    BY <1>8, ProcessStatuses DEF Deciding
  <2>2. \A o \in OpIds : /\ ops'[o].amount = ops[o].amount
                         /\ ops'[o].status = "NONE" <=> ops[o].status = "NONE"
                         /\ ops[o].status = "FAILED" => ops'[o].status = "FAILED"
    BY <1>8, WorkerRows
  <2>3. QED
    BY <2>1, <2>2, JournalKept
<1>9. CASE Tick
  BY <1>9, JournalKept DEF Tick
<1>10. CASE UNCHANGED vars
  BY <1>10, JournalKept DEF vars, disputeVars
<1>11. QED
  BY <1>1, <1>2, <1>3, <1>4, <1>5, <1>6, <1>7, <1>8, <1>9, <1>10
     DEF Next, Lifecycle, Settlement

-----------------------------------------------------------------------------
(* What the journal, the runs and the provider know of an operation agrees. *)

\* What is not a worker's step.
Command == Checkout \/ Lifecycle \/ Settlement \/ Tick \/ UNCHANGED vars

\* Commands schedule operations that do not exist yet, and touch no other.
LEMMA CommandRows ==
  ASSUME TypeOK, Statuses, Journal, Command
  PROVE  /\ worker' = worker /\ verdict' = verdict
         /\ \A o \in OpIds : \/ ops'[o] = ops[o]
                             \/ ops[o].status = "NONE" /\ ops'[o].status = "PENDING"
<1> DEFINE Schedules ==
      \A o \in OpIds : \/ ops'[o] = ops[o]
                       \/ ops[o].status = "NONE" /\ ops'[o].status = "PENDING"
<1> USE DEF externalVars
<1>1. /\ worker' = worker /\ verdict' = verdict
  BY DEF Command, Checkout, CheckoutCall, CheckoutCommit, CheckoutAbort, Lifecycle,
         CancelConfirmed, CreateAct, ConfirmHandover, ConfirmReturn, Settlement, OpenDispute,
         ResolveDispute, DeadlineRefund, RetryFailed, Tick, vars
<1>2. CASE ops' = ops
  BY <1>1, <1>2
<1>3. CASE CancelConfirmed
  <2>1. \A o \in OpIds : ops[o].status = "NONE"
    BY <1>3, NothingLive DEF CancelConfirmed, Deciding
  <2>2. QED
    BY <1>1, <1>3, <2>1 DEF CancelConfirmed, TypeOK, Scheduled
<1>4. ASSUME NEW refund \in 0 .. amount, ResolveDispute(refund) PROVE Schedules
  <2>1. \A o \in OpIds : ops[o].status = "NONE"
    BY <1>4, NothingLive DEF ResolveDispute, Deciding
  <2>2. QED
    BY <1>1, <1>4, <2>1 DEF ResolveDispute, Resolution, TypeOK, Scheduled
<1>5. CASE DeadlineRefund
  BY <1>1, <1>5 DEF DeadlineRefund, TypeOK, Scheduled
<1>6. ASSUME NEW o \in OpIds, RetryFailed(o) PROVE Schedules
  BY <1>1, <1>6 DEF RetryFailed, TypeOK, Scheduled
<1>7. QED
  BY <1>1, <1>2, <1>3, <1>4, <1>5, <1>6
     DEF Command, Checkout, CheckoutCall, CheckoutCommit, CheckoutAbort, Lifecycle,
         CreateAct, ConfirmHandover, ConfirmReturn, Settlement, OpenDispute, Tick, vars

\* Whatever happens is a command, a step of time, or the step of one run.
LEMMA Steps ==
  ASSUME [Next]_vars
  PROVE  Command \/ \E w \in Workers : Process(w) \/ Crash(w)
BY DEF Command, Next

\* Every step keeps journal, runs and provider in agreement.
LEMMA StepVerdict ==
  TypeOK /\ Statuses /\ Journal /\ Verdict /\ [Next]_vars => Verdict'
<1> SUFFICES ASSUME TypeOK, Statuses, Journal, Verdict, [Next]_vars
             PROVE  Verdict'
  OBVIOUS
<1>1. CASE Command
  BY <1>1, CommandRows DEF Verdict, Live, InFlight, TypeOK
<1>2. ASSUME NEW w \in Workers, Process(w) \/ Crash(w) PROVE Verdict'
  <2>1. \A o \in OpIds :
          \/ ops'[o] = ops[o]
          \/ /\ ops[o].status = "PENDING"
             /\ \/ ops'[o].status = "PENDING"
                \/ ops'[o].status = "SUCCEEDED" /\ verdict[o] = "SUCCEEDED"
                \/ ops'[o].status = "FAILED" /\ verdict[o] = "DECLINED"
    BY <1>2, WorkerRows
  <2>2. \A o \in OpIds : /\ verdict[o] # "NONE" => verdict'[o] = verdict[o]
                         /\ verdict'[o] # "NONE" => Live(o)
    <3>1. CASE CallProvider(w)
      <4>1. worker[w].op \in OpIds /\ Live(worker[w].op)
        BY <3>1 DEF CallProvider, TypeOK, Verdict, InFlight
      <4>2. QED
        BY <3>1, <4>1 DEF CallProvider, TypeOK, Verdict
    <3>2. CASE verdict' = verdict
      BY <3>2 DEF Verdict
    <3>3. QED
      BY <1>2, <3>1, <3>2 DEF Process, Crash, Scan, Claim, SkipOperation, ApplyOutcome, externalVars
  <2>3. \A o \in OpIds :
          /\ verdict'[o] # "NONE" => Live(o)'
          /\ ops'[o].status = "SUCCEEDED" => verdict'[o] = "SUCCEEDED"
          /\ ops'[o].status = "FAILED" => verdict'[o] = "DECLINED"
    BY <2>1, <2>2 DEF Verdict, Live
  <2>4. ASSUME NEW v \in Workers
        PROVE  /\ InFlight(v)' => Live(worker[v].op)'
               /\ worker'[v].phase = "called" =>
                    worker'[v].outcome \in {"TIMEOUT", verdict'[worker'[v].op]} \ {"NONE"}
    <3> DEFINE Agrees ==
          /\ InFlight(v)' => Live(worker[v].op)'
          /\ worker'[v].phase = "called" =>
               worker'[v].outcome \in {"TIMEOUT", verdict'[worker'[v].op]} \ {"NONE"}
    <3>1. CASE worker'[v] = worker[v]
      <4>1. InFlight(v) => worker[v].op \in OpIds
        BY DEF TypeOK
      <4>2. QED
        BY <2>1, <2>2, <3>1, <4>1 DEF Verdict, InFlight, Live
    <3>2. CASE v = w
      <4>1. ASSUME worker'[w].phase \in {"idle", "scanned"} PROVE Agrees
        BY <3>2, <4>1 DEF InFlight
      <4>2. ASSUME NEW o \in OpIds, Claim(w, o) PROVE Agrees
        <5>1. worker'[w].phase = "claimed" /\ worker'[w].op = o
          BY <4>2 DEF Claim, TypeOK, Run
        <5>2. ops'[o].status = "PENDING"
          BY <4>2, ClaimedRows
        <5>3. QED
          BY <3>2, <5>1, <5>2 DEF InFlight, Live
      <4>3. CASE CallProvider(w)
        <5>1. worker[w].op \in OpIds /\ Live(worker[w].op)
          BY <4>3 DEF CallProvider, TypeOK, Verdict, InFlight
        <5>2. PICK answer \in {verdict'[worker[w].op], "TIMEOUT"} :
                /\ answer # "NONE"
                /\ worker' = [worker EXCEPT ![w].phase = "called", ![w].outcome = answer]
          BY <4>3 DEF CallProvider
        <5>3. worker'[w].op = worker[w].op /\ worker'[w].outcome = answer
          BY <5>2 DEF TypeOK, Run
        <5>4. ops' = ops
          BY <4>3 DEF CallProvider
        <5>5. QED
          BY <3>2, <5>1, <5>2, <5>3, <5>4 DEF Live
      <4>4. QED
        <5>1. CASE Scan(w) \/ (\E o \in OpIds : SkipOperation(w, o)) \/ ApplyOutcome(w)
          <6>1. PICK now \in Nat, batch \in SUBSET OpIds :
                  worker' = [worker EXCEPT ![w] = Proceed(now, batch)]
            BY <5>1, Rows DEF Scan, SkipOperation, ApplyOutcome
          <6>2. worker'[w] = Proceed(now, batch)
            BY <6>1 DEF TypeOK
          <6>3. QED
            BY <4>1, <6>2, RunTypes
        <5>2. CASE Crash(w)
          BY <4>1, <5>2 DEF Crash, IdleWorker, TypeOK
        <5>3. QED
          BY <1>2, <4>2, <4>3, <5>1, <5>2 DEF Process
    <3>3. QED
      BY <1>2, <3>1, <3>2
         DEF Process, Crash, Scan, Claim, SkipOperation, CallProvider, ApplyOutcome, TypeOK
  <2>5. QED
    BY <2>3, <2>4 DEF Verdict
<1>3. QED
  BY <1>1, <1>2, Steps

-----------------------------------------------------------------------------
(* The lease fences off every run but the last to claim an operation. *)

\* A run in flight is described by its operation, its token and its clock.
SameFlight(w) ==
  /\ InFlight(w)
  /\ worker'[w].op = worker[w].op /\ worker'[w].token = worker[w].token
  /\ worker'[w].now = worker[w].now

\* Only a claim brings a run into flight.
LEMMA Flights ==
  ASSUME TypeOK, NEW u \in Workers, Process(u) \/ Crash(u)
  PROVE  /\ \A v \in Workers \ {u} : worker'[v] = worker[v]
         /\ ApplyOutcome(u) => ~InFlight(u)'
         /\ (\A o \in OpIds : ~Claim(u, o)) => (InFlight(u)' => SameFlight(u))
<1>1. \A v \in Workers \ {u} : worker'[v] = worker[v]
  BY DEF Process, Crash, Scan, Claim, SkipOperation, CallProvider, ApplyOutcome, TypeOK
<1>2. CASE Scan(u) \/ (\E o \in OpIds : SkipOperation(u, o)) \/ ApplyOutcome(u)
  <2>1. PICK now \in Nat, batch \in SUBSET OpIds :
          worker' = [worker EXCEPT ![u] = Proceed(now, batch)]
    BY <1>2, Rows DEF Scan, SkipOperation, ApplyOutcome
  <2>2. worker'[u] = Proceed(now, batch)
    BY <2>1 DEF TypeOK
  <2>3. ~InFlight(u)'
    BY <2>2, RunTypes DEF InFlight
  <2>4. QED
    BY <1>1, <2>3
<1>3. CASE Crash(u)
  <2>1. worker'[u].phase = "idle"
    BY <1>3 DEF Crash, IdleWorker, TypeOK
  <2>2. ~InFlight(u)'
    BY <2>1 DEF InFlight
  <2>3. QED
    BY <1>1, <2>2
<1>4. CASE CallProvider(u)
  <2>1. SameFlight(u)
    BY <1>4 DEF CallProvider, SameFlight, InFlight, TypeOK, Run
  <2>2. ~ApplyOutcome(u)
    BY <1>4 DEF CallProvider, ApplyOutcome
  <2>3. QED
    BY <1>1, <2>1, <2>2
<1>5. ASSUME NEW o \in OpIds, Claim(u, o) PROVE ~ApplyOutcome(u)
  BY <1>5 DEF Claim, ApplyOutcome
<1>6. QED
  BY <1>1, <1>2, <1>3, <1>4, <1>5 DEF Process

\* A run that may claim an operation is later than every run in flight with it.
LEMMA ClaimIsLater ==
  ASSUME TypeOK, Fence, NEW u \in Workers, NEW o \in OpIds, Claim(u, o),
         NEW v \in Workers, InFlight(v), worker[v].op = o
  PROVE  worker[v].token <= worker[u].now /\ worker[v].token < worker[u].now + Lease
<1>1. /\ ops[o].status = "PENDING" /\ ops[o].next <= worker[u].now
      /\ ops[o].lease <= worker[u].now
  BY DEF Claim, Claimable
<1>2. /\ ops[o].lease \in Nat \cup {NoTime} /\ ops[o].next \in Nat \cup {NoTime}
      /\ worker[u].now \in Nat /\ worker[v].now \in Nat /\ Lease \in Nat \ {0}
  BY Rows, SafeDealAssumption
<1>3. /\ worker[v].token = worker[v].now + Lease
      /\ worker[v].token <= ops[o].next \/ worker[v].token <= ops[o].lease
  BY <1>1 DEF Fence
<1>4. QED
  BY <1>1, <1>2, <1>3 DEF NoTime

\* Every step keeps the claims of an operation in the order of their clocks.
LEMMA StepFence ==
  TypeOK /\ Statuses /\ Journal /\ Verdict /\ Fence /\ [Next]_vars => Fence'
<1> SUFFICES ASSUME TypeOK, Statuses, Journal, Verdict, Fence, [Next]_vars
             PROVE  Fence'
  OBVIOUS
<1>a. \A w \in Workers : InFlight(w) => worker[w].op \in OpIds /\ Live(worker[w].op)
  BY DEF TypeOK, Verdict
<1>1. CASE Command
  <2>1. worker' = worker
    BY <1>1, CommandRows
  <2>2. \A o \in OpIds : Live(o) => ops'[o] = ops[o]
    BY <1>1, CommandRows DEF Live
  <2>3. \A w \in Workers : InFlight(w) => ops'[worker[w].op] = ops[worker[w].op]
    BY <1>a, <2>2
  <2>4. QED
    BY <2>1, <2>3 DEF Fence, InFlight, HoldsLease
<1>2. ASSUME NEW u \in Workers, Process(u) \/ Crash(u) PROVE Fence'
  <2> DEFINE Fenced(w) ==
        /\ worker'[w].token = worker'[w].now + Lease
        /\ ops'[worker'[w].op].lease = NoTime => worker'[w].token <= ops'[worker'[w].op].next
        /\ ops'[worker'[w].op].lease # NoTime => worker'[w].token <= ops'[worker'[w].op].lease
        /\ \A v \in Workers \ {w} :
             InFlight(v)' /\ worker'[v].op = worker'[w].op /\ HoldsLease(v)' =>
               worker'[w].token <= worker'[v].now
  <2> SUFFICES ASSUME NEW w \in Workers, InFlight(w)', ops'[worker'[w].op].status = "PENDING"
               PROVE  Fenced(w)
    BY DEF Fence
  <2>1. \A v \in Workers \ {u} : worker'[v] = worker[v]
    BY <1>2, Flights
  <2>2. CASE ApplyOutcome(u)
    <3>1. /\ worker[u].op \in OpIds /\ Recorded(u) /\ worker[u].now \in Nat
          /\ InFlight(u) /\ ~InFlight(u)'
      BY <1>2, <2>2, OutcomeRecorded, Rows, Flights DEF ApplyOutcome, InFlight
    <3>2. w # u /\ worker'[w] = worker[w] /\ InFlight(w) /\ worker[w].op \in OpIds
      BY <1>a, <2>1, <3>1 DEF InFlight
    <3>3. \A v \in Workers : InFlight(v)' => v # u /\ worker'[v] = worker[v] /\ InFlight(v)
      BY <2>1, <3>1 DEF InFlight
    <3>4. CASE ops'[worker[w].op] = ops[worker[w].op]
      BY <3>2, <3>3, <3>4 DEF Fence, HoldsLease
    <3>5. ASSUME worker[w].op = worker[u].op, ops[worker[u].op].status = "PENDING",
                 ops[worker[u].op].lease = worker[u].token,
                 Postponed(worker[u].op, worker[u].now)
          PROVE  Fenced(w)
      <4> DEFINE o == worker[u].op
      <4>1. ops'[o].lease = NoTime /\ ops'[o].next = worker[u].now + RetryDelay
        BY <3>1, <3>5, PostponedRows
      <4>2. worker[w].token <= worker[u].now /\ worker[w].token = worker[w].now + Lease
        BY <3>1, <3>2, <3>5 DEF Fence, HoldsLease
      <4>3. \A v \in Workers \ {w} : InFlight(v)' /\ worker'[v].op = o => ~HoldsLease(v)'
        <5>1. SUFFICES ASSUME NEW v \in Workers, InFlight(v)', worker'[v].op = o
                       PROVE  worker'[v].token # NoTime
          BY <4>1 DEF HoldsLease
        <5>2. worker'[v] = worker[v] /\ InFlight(v) /\ worker[v].now \in Nat
          BY <3>3, <5>1, Rows
        <5>3. worker[v].token = worker[v].now + Lease
          BY <3>5, <5>1, <5>2 DEF Fence
        <5>4. QED
          BY <5>2, <5>3, SafeDealAssumption DEF NoTime
      <4>4. worker[w].now \in Nat /\ Lease \in Nat /\ RetryDelay \in Nat
        BY Rows, SafeDealAssumption
      <4>5. worker[w].token <= worker[u].now + RetryDelay
        BY <3>1, <4>2, <4>4
      <4>6. QED
        BY <3>2, <3>5, <4>1, <4>2, <4>3, <4>5
    <3>6. CASE worker[w].op # worker[u].op
      BY <3>1, <3>2, <3>4, <3>6, PostponedRows, EndedRows DEF Recorded, Paid, OpStatuses
    <3>7. CASE worker[w].op = worker[u].op
      <4>1. ~Ended(worker[u].op, "FAILED") /\ ~Ended(worker[u].op, "SUCCEEDED")
        BY <3>1, <3>2, <3>7, EndedRows DEF OpStatuses
      <4>2. QED
        BY <3>1, <3>4, <3>5, <3>7, <4>1 DEF Recorded, Paid
    <3>8. QED
      BY <3>6, <3>7
  <2>3. ASSUME NEW o \in OpIds, Claim(u, o) PROVE Fenced(w)
    <3>1. /\ ops'[o].lease = worker[u].now + Lease
          /\ \A p \in OpIds : p # o => ops'[p] = ops[p]
      BY <2>3, ClaimedRows
    <3>2. /\ worker'[u].op = o /\ worker'[u].token = worker[u].now + Lease
          /\ worker'[u].now = worker[u].now
      BY <2>3 DEF Claim, TypeOK, Run
    <3>3. worker[u].now \in Nat /\ Lease \in Nat \ {0}
      BY Rows, SafeDealAssumption
    <3>4. \A v \in Workers \ {u} :
            InFlight(v)' => /\ worker'[v] = worker[v] /\ InFlight(v) /\ worker[v].op \in OpIds
                            /\ worker[v].now \in Nat
      BY <1>a, <2>1, Rows DEF InFlight
    <3>5. \A v \in Workers \ {u} : InFlight(v)' /\ worker'[v].op = o =>
            /\ worker'[v].token <= worker[u].now
            /\ worker'[v].token < worker[u].now + Lease
            /\ worker'[v].token = worker'[v].now + Lease
      <4>1. ops[o].status = "PENDING"
        BY <2>3, ClaimedRows
      <4>2. QED
        BY <2>3, <3>4, <4>1, ClaimIsLater DEF Fence
    <3>6. \A v \in Workers \ {u} : InFlight(v)' /\ worker'[v].op = o => ~HoldsLease(v)'
      <4>1. SUFFICES ASSUME NEW v \in Workers \ {u}, InFlight(v)', worker'[v].op = o
                     PROVE  worker'[v].token # worker[u].now + Lease
        BY <3>1 DEF HoldsLease
      <4>2. worker'[v].token < worker[u].now + Lease /\ worker'[v].token = worker[v].now + Lease
        BY <3>4, <3>5, <4>1
      <4>3. worker[v].now \in Nat
        BY Rows
      <4>4. QED
        BY <3>3, <4>2, <4>3
    <3>7. CASE w = u
      BY <3>1, <3>2, <3>3, <3>6, <3>7 DEF NoTime
    <3>8. CASE w # u /\ worker'[w].op = o
      <4>1. worker'[w].token <= worker[u].now /\ worker'[w].token = worker'[w].now + Lease
        BY <3>5, <3>8
      <4>2. worker'[w].now \in Nat
        BY <3>4, <3>8
      <4>3. worker'[w].token <= worker[u].now + Lease /\ worker[u].now + Lease # NoTime
        BY <3>3, <4>1, <4>2 DEF NoTime
      <4>4. \A v \in Workers \ {w} :
              InFlight(v)' /\ worker'[v].op = worker'[w].op /\ HoldsLease(v)' =>
                worker'[w].token <= worker'[v].now
        BY <3>2, <3>6, <3>8, <4>1
      <4>5. QED
        BY <3>1, <3>8, <4>1, <4>3, <4>4
    <3>9. CASE w # u /\ worker'[w].op # o
      <4>1. /\ worker'[w] = worker[w] /\ InFlight(w) /\ worker[w].op \in OpIds
            /\ ops'[worker[w].op] = ops[worker[w].op]
        BY <3>1, <3>4, <3>9
      <4>2. \A v \in Workers \ {w} : InFlight(v)' /\ worker'[v].op = worker'[w].op =>
              worker'[v] = worker[v] /\ InFlight(v)
        BY <3>2, <3>4, <3>9
      <4>3. QED
        BY <4>1, <4>2 DEF Fence, HoldsLease
    <3>10. QED
      BY <3>7, <3>8, <3>9
  <2>4. CASE ~ApplyOutcome(u) /\ \A o \in OpIds : ~Claim(u, o)
    <3>1. ops' = ops
      BY <1>2, <2>4 DEF Process, Crash, Scan, SkipOperation, CallProvider
    <3>2. \A v \in Workers : InFlight(v)' => SameFlight(v)
      BY <1>2, <2>1, <2>4, Flights DEF SameFlight, InFlight
    <3>3. QED
      BY <3>1, <3>2 DEF Fence, HoldsLease, SameFlight
  <2>5. QED
    BY <2>2, <2>3, <2>4
<1>3. QED
  BY <1>1, <1>2, Steps

-----------------------------------------------------------------------------
(* The deposit's amounts are those of the executed operations. *)

\* AmountsMatchJournal, operation by operation.
Sums(journal, back, out) ==
  /\ \A o \in OpIds : journal[o].status = "SUCCEEDED" =>
       journal[o].amount = IF IsRefund(o) THEN back ELSE out
  /\ back = 0 \/ \E o \in OpIds : journal[o].status = "SUCCEEDED" /\ IsRefund(o)
  /\ out = 0 \/ \E o \in OpIds : journal[o].status = "SUCCEEDED" /\ ~IsRefund(o)
  /\ \A o1, o2 \in OpIds :
       (journal[o1].status = "SUCCEEDED" /\ journal[o2].status = "SUCCEEDED"
          /\ (IsRefund(o1) <=> IsRefund(o2))) => o1 = o2

\* AmountsMatchJournal read operation by operation, before and after a step.
LEMMA MatchIsSums ==
  /\ AmountsMatchJournal <=> Sums(ops, refunded, released)
  /\ AmountsMatchJournal' <=> Sums(ops', refunded', released')
<1>1. /\ Succeeded(TRUE) = {o \in OpIds : ops[o].status = "SUCCEEDED" /\ IsRefund(o)}
      /\ Succeeded(FALSE) = {o \in OpIds : ops[o].status = "SUCCEEDED" /\ ~IsRefund(o)}
      /\ Succeeded(TRUE)' = {o \in OpIds : ops'[o].status = "SUCCEEDED" /\ IsRefund(o)}
      /\ Succeeded(FALSE)' = {o \in OpIds : ops'[o].status = "SUCCEEDED" /\ ~IsRefund(o)}
  BY DEF Succeeded, IsRefund
<1>2. /\ (\A r \in BOOLEAN : \A o1, o2 \in Succeeded(r) : o1 = o2) <=>
           /\ \A o1, o2 \in Succeeded(TRUE) : o1 = o2
           /\ \A o1, o2 \in Succeeded(FALSE) : o1 = o2
      /\ (\A r \in BOOLEAN : \A o1, o2 \in Succeeded(r) : o1 = o2)' <=>
           /\ \A o1, o2 \in Succeeded(TRUE)' : o1 = o2
           /\ \A o1, o2 \in Succeeded(FALSE)' : o1 = o2
  OBVIOUS
<1>3. QED
  BY <1>1, <1>2 DEF AmountsMatchJournal, Sums

\* A command moves no money, and leaves a deposit that is being settled alone.
LEMMA CommandMoney ==
  ASSUME TypeOK, Command
  PROVE  /\ UNCHANGED <<amount, refunded, released>>
         /\ \/ depositStatus' = depositStatus
            \/ depositStatus \in Untouched /\ depositStatus' # "RESOLVED"
BY DEF Command, Checkout, CheckoutCall, CheckoutCommit, CheckoutAbort, Lifecycle,
       CancelConfirmed, CreateAct, ConfirmHandover, ConfirmReturn, Settlement, OpenDispute,
       ResolveDispute, DeadlineRefund, RetryFailed, Tick, vars, depositVars, Untouched

\* An execution adds the amount of the operation, which nobody has executed before.
LEMMA PaidSums ==
  ASSUME TypeOK, Journal, Sums(ops, refunded, released), NEW o \in OpIds, Paid(o)
  PROVE  Sums(ops', refunded', released')
<1>1. /\ ops'[o].status = "SUCCEEDED" /\ ops'[o].amount = ops[o].amount
      /\ \A p \in OpIds : p # o => ops'[p] = ops[p]
      /\ ops[o].status = "PENDING"
  BY EndedRows DEF Paid, OpStatuses
<1>2. \A p \in OpIds : ops[p].status = "SUCCEEDED" => (IsRefund(p) <=> ~IsRefund(o))
  <2>1. SUFFICES ASSUME NEW p \in OpIds, ops[p].status = "SUCCEEDED",
                        IsRefund(p) = IsRefund(o)
                 PROVE  FALSE
    BY DEF IsRefund
  <2>2. Live(p) /\ Live(o) /\ ops[p].status # "FAILED" /\ ops[o].status # "FAILED"
    BY <1>1, <2>1 DEF Live
  <2>3. p = o
    BY <2>1, <2>2, OneUnfailed
  <2>4. QED
    BY <1>1, <2>1, <2>3
<1>3. refunded \in Nat /\ released \in Nat /\ ops[o].amount \in Nat
  BY Rows
<1>4. CASE IsRefund(o)
  <2>1. refunded = 0
    BY <1>2, <1>4 DEF Sums
  <2>2. refunded' = ops[o].amount /\ released' = released
    BY <1>3, <1>4, <2>1 DEF Paid
  <2>3. QED
    BY <1>1, <1>2, <1>4, <2>2 DEF Sums
<1>5. CASE ~IsRefund(o)
  <2>1. released = 0
    BY <1>2, <1>5 DEF Sums
  <2>2. released' = ops[o].amount /\ refunded' = refunded
    BY <1>3, <1>5, <2>1 DEF Paid
  <2>3. QED
    BY <1>1, <1>2, <1>5, <2>2 DEF Sums
<1>6. QED
  BY <1>4, <1>5

\* When the whole deposit has been paid out, no leg of the decision is missing.
LEMMA PaidInFull ==
  ASSUME TypeOK, Statuses, Journal, Sums(ops, refunded, released),
         NEW o \in OpIds, Paid(o), refunded' + released' = amount
  PROVE  LegsPaid(ops')
<1>1. Sums(ops', refunded', released')
  BY PaidSums
<1>2. \A p \in OpIds : ops'[p].status = "SUCCEEDED" =>
        Live(p) /\ ops'[p].amount = ops[p].amount
  BY EndedRows DEF Paid, OpStatuses, Live
<1>3. SUFFICES ASSUME disputeStatus = "RESOLVED" PROVE LegsPaid(ops')
  BY DEF LegsPaid
<1>4. \A p \in OpIds : ops'[p].status = "SUCCEEDED" =>
        ops'[p].amount = IF IsRefund(p) THEN decision.refund ELSE decision.release
  BY <1>2, <1>3 DEF Journal, PartOf, Split
<1>5. /\ amount \in Nat /\ decision.refund \in Nat /\ decision.release \in Nat
      /\ decision.refund + decision.release = amount
  BY <1>3, Rows DEF Statuses
<1>6. /\ refunded' = 0 \/ refunded' = decision.refund
      /\ released' = 0 \/ released' = decision.release
  BY <1>1, <1>4 DEF Sums
<1>7. /\ decision.refund > 0 => refunded' # 0
      /\ decision.release > 0 => released' # 0
  BY <1>5, <1>6
<1>8. QED
  BY <1>1, <1>3, <1>4, <1>7 DEF Sums, LegsPaid

\* Every step keeps the amounts of the deposit equal to what has been executed.
LEMMA StepLedger ==
  TypeOK /\ Statuses /\ Journal /\ Verdict /\ Ledger /\ [Next]_vars => Ledger'
<1> SUFFICES ASSUME TypeOK, Statuses, Journal, Verdict, Ledger, [Next]_vars
             PROVE  Ledger'
  OBVIOUS
<1>a. amount \in Nat /\ refunded \in Nat /\ released \in Nat /\ Sums(ops, refunded, released)
  BY Rows, MatchIsSums DEF Ledger
<1>1. CASE Command
  <2>1. /\ UNCHANGED <<amount, refunded, released>>
        /\ \/ depositStatus' = depositStatus
           \/ depositStatus \in Untouched /\ depositStatus' # "RESOLVED"
    BY <1>1, CommandMoney
  <2>2. Sums(ops', refunded', released')
    <3>1. \A o \in OpIds : \/ ops'[o] = ops[o]
                           \/ ops[o].status = "NONE" /\ ops'[o].status = "PENDING"
      BY <1>1, CommandRows
    <3>2. QED
      BY <1>a, <2>1, <3>1 DEF Sums
  <2>3. AmountsMatchJournal'
    BY <2>2, MatchIsSums
  <2>4. QED
    BY <1>a, <2>1, <2>3 DEF Ledger, SettledExactly, Untouched
<1>2. ASSUME NEW w \in Workers, Process(w) \/ Crash(w) PROVE Ledger'
  <2>1. UNCHANGED amount
    BY <1>2, ProcessStatuses
  <2>2. ASSUME NEW o \in OpIds, Paid(o) PROVE Ledger'
    <3>1. AmountsMatchJournal'
      BY <1>a, <2>2, PaidSums, MatchIsSums
    <3>2. refunded' + released' = amount => LegsPaid(ops')
      BY <1>a, <2>2, PaidInFull
    <3>3. /\ refunded' + released' <= amount /\ depositStatus = "RESOLVING"
          /\ depositStatus' = IF refunded' + released' = amount THEN "RESOLVED" ELSE "RESOLVING"
      BY <2>2, <3>2 DEF Paid
    <3>4. amount > 0
      BY <1>a, <3>3 DEF Statuses
    <3>5. QED
      BY <2>1, <3>1, <3>3, <3>4 DEF Ledger, SettledExactly, Untouched
  <2>3. ASSUME UNCHANGED <<depositStatus, refunded, released>>,
               \A o \in OpIds : /\ ops'[o].amount = ops[o].amount
                                /\ ops'[o].status = "SUCCEEDED" <=> ops[o].status = "SUCCEEDED"
        PROVE  Ledger'
    <3>1. Sums(ops', refunded', released')
      BY <1>a, <2>3 DEF Sums
    <3>2. QED
      BY <2>1, <2>3, <3>1, MatchIsSums DEF Ledger, SettledExactly
  <2>4. CASE ApplyOutcome(w)
    <3>1. worker[w].op \in OpIds /\ Recorded(w) /\ worker[w].now \in Nat
      BY <2>4, OutcomeRecorded, Rows
    <3>2. QED
      BY <2>2, <2>3, <3>1, EndedRows, PostponedRows DEF Recorded, OpStatuses
  <2>5. ASSUME NEW o \in OpIds, Claim(w, o) PROVE Ledger'
    BY <2>3, <2>5, ClaimedRows DEF Claim, depositVars
  <2>6. CASE ops' = ops /\ UNCHANGED depositVars
    BY <2>3, <2>6 DEF depositVars
  <2>7. QED
    BY <1>2, <2>4, <2>5, <2>6 DEF Process, Crash, Scan, SkipOperation, CallProvider
<1>3. QED
  BY <1>1, <1>2, Steps

-----------------------------------------------------------------------------
(* Safety. *)

\* A booking that has just been confirmed is accounted for.
LEMMA InitAccounted == Init => Accounted
<1> SUFFICES ASSUME Init PROVE Accounted
  OBVIOUS
<1>1. TypeOK /\ amount \in Nat
  BY InitTypes, SafeDealAssumption DEF Init
<1>2. \A o \in OpIds : ops[o].status = "NONE" /\ verdict[o] = "NONE"
  BY DEF Init, Absent
<1>3. \A w \in Workers : worker[w].phase = "idle"
  BY DEF Init, IdleWorker
<1>4. Statuses
  BY <1>1 DEF Init, Statuses, LockFree, Deciding
<1>5. Journal
  BY <1>2 DEF Journal, Live
<1>6. Verdict /\ Fence
  BY <1>2, <1>3 DEF Verdict, Fence, InFlight, Live
<1>7. Sums(ops, refunded, released)
  BY <1>2 DEF Sums, Init
<1>8. Ledger
  BY <1>1, <1>7, MatchIsSums DEF Ledger, SettledExactly, Init
<1>9. QED
  BY <1>1, <1>4, <1>5, <1>6, <1>8 DEF Accounted

\* Every step keeps everything accounted for.
LEMMA StepAccounted == Accounted /\ [Next]_vars => Accounted'
BY StepTypes, StepStatuses, StepJournal, StepVerdict, StepFence, StepLedger DEF Accounted

\* The statuses, the journal, the provider's memory, the runs in flight and the amounts
\* of the deposit agree at every moment, between any two transactions of the code
\* (every command of the safe deal, and processOne with its lease).
THEOREM AlwaysAccounted == Spec => []Accounted
BY InitAccounted, StepAccounted, PTL DEF Spec

\* The accumulated amounts are those of the executed operations, each counted once
\* (applyOutcome).
THEOREM AmountsAreJournalled == Spec => []AmountsMatchJournal
<1>1. Accounted => AmountsMatchJournal
  BY DEF Accounted, Ledger
<1>2. QED
  BY <1>1, AlwaysAccounted, PTL

\* A deposit is never overdrawn, and RESOLVED exactly when it is paid out in full
\* (applyOutcome's total).
THEOREM SettlementIsExact == Spec => []SettledExactly
<1>1. Accounted => SettledExactly
  BY DEF Accounted, Ledger
<1>2. QED
  BY <1>1, AlwaysAccounted, PTL

\* What is paid out is what was decided (resolveDispute, processDue, cancelPending).
THEOREM DecisionsAreExecuted == Spec => []ResolvedAsDecided
<1>1. ASSUME Accounted PROVE ResolvedAsDecided
  <2>1. SUFFICES ASSUME depositStatus = "RESOLVED"
                 PROVE  refunded = Split.refund /\ released = Split.release
    BY DEF ResolvedAsDecided, Split
  <2>2. /\ refunded \in Nat /\ released \in Nat /\ amount \in Nat
        /\ Split.refund \in Nat /\ Split.release \in Nat
        /\ Split.refund + Split.release = amount
    BY <1>1, <2>1, Rows, SplitAddsUp DEF Accounted, Deciding
  <2>3. refunded + released = amount
    BY <1>1, <2>1 DEF Accounted, Ledger, SettledExactly
  <2>4. Sums(ops, refunded, released)
    BY <1>1, MatchIsSums DEF Accounted, Ledger
  <2>5. \A o \in OpIds : ops[o].status = "SUCCEEDED" => ops[o].amount = PartOf(o)
    BY <1>1 DEF Accounted, Journal, Live
  <2>6. refunded \in {0, Split.refund} /\ released \in {0, Split.release}
    BY <2>4, <2>5 DEF Sums, PartOf
  <2>7. QED
    BY <2>2, <2>3, <2>6
<1>2. QED
  BY <1>1, AlwaysAccounted, PTL

\* The provider moves each part of the deposit at most once, and never more than the
\* deposit, whatever crashes, lost answers, lost leases and retries do
\* (the idempotency keys of processOne and retryFailedOperation).
THEOREM EachPartIsPaidOnce == Spec => []PaidOnce
<1>1. ASSUME Accounted PROVE PaidOnce
  <2>1. \A r \in BOOLEAN : \A o \in Executed(r) :
          o \in OpIds /\ verdict[o] = "SUCCEEDED" /\ IsRefund(o) = r
    BY DEF Executed
  <2>2. \A o \in OpIds : verdict[o] = "SUCCEEDED" => Live(o) /\ ops[o].status # "FAILED"
    BY <1>1 DEF Accounted, Verdict
  <2>3. ASSUME NEW r \in BOOLEAN, NEW o1 \in Executed(r), NEW o2 \in Executed(r) PROVE o1 = o2
    <3>1. /\ o1 \in OpIds /\ o2 \in OpIds /\ IsRefund(o1) = IsRefund(o2)
          /\ Live(o1) /\ ops[o1].status # "FAILED"
          /\ Live(o2) /\ ops[o2].status # "FAILED"
      BY <2>1, <2>2, <2>3
    <3>2. TypeOK /\ Journal
      BY <1>1 DEF Accounted
    <3>3. QED
      BY <3>1, <3>2, OneUnfailed
  <2>4. ASSUME NEW o1 \in Executed(TRUE), NEW o2 \in Executed(FALSE)
        PROVE  ops[o1].amount + ops[o2].amount <= amount
    <3>1. /\ o1 \in OpIds /\ Live(o1) /\ IsRefund(o1)
          /\ o2 \in OpIds /\ Live(o2) /\ ~IsRefund(o2)
      BY <2>1, <2>2, <2>4
    <3>2. /\ depositStatus \in Deciding
          /\ ops[o1].amount = Split.refund /\ ops[o2].amount = Split.release
      BY <1>1, <3>1 DEF Accounted, Journal, PartOf
    <3>3. /\ Split.refund + Split.release = amount /\ amount \in Nat
      BY <1>1, <3>2, Rows, SplitAddsUp DEF Accounted
    <3>4. QED
      BY <3>2, <3>3
  <2>5. QED
    BY <1>1, <2>3, <2>4 DEF PaidOnce, Accounted, Verdict
<1>2. QED
  BY <1>1, AlwaysAccounted, PTL

\* Two runs never both hold the current lease of an operation (processOne's token).
THEOREM LeaseIsAFence == Spec => []LeaseExclusive
<1>1. ASSUME Accounted PROVE LeaseExclusive
  <2>1. SUFFICES ASSUME NEW w1 \in Workers, NEW w2 \in Workers, w1 # w2,
                        InFlight(w1), InFlight(w2), worker[w1].op = worker[w2].op,
                        HoldsLease(w1), HoldsLease(w2)
                 PROVE  FALSE
    BY DEF LeaseExclusive
  <2>2. /\ worker[w1].token <= worker[w2].now /\ worker[w2].token = worker[w2].now + Lease
        /\ worker[w1].token = worker[w2].token /\ worker[w1].token = worker[w1].now + Lease
    BY <1>1, <2>1 DEF Accounted, Fence, HoldsLease
  <2>3. worker[w1].now \in Nat /\ worker[w2].now \in Nat /\ Lease \in Nat \ {0}
    BY <1>1, Rows, SafeDealAssumption DEF Accounted
  <2>4. QED
    BY <2>2, <2>3
<1>2. QED
  BY <1>1, AlwaysAccounted, PTL

\* While the item is out the rental is paid and the whole deposit is there
\* (confirmHandover against cancellation and checkout).
THEOREM ItemIsSecured == Spec => []ItemOutIsSecured
<1>1. ASSUME Accounted PROVE ItemOutIsSecured
  <2>1. TypeOK /\ Statuses /\ Journal /\ Ledger
    BY <1>1 DEF Accounted
  <2>2. depositStatus \in Untouched =>
          refunded = 0 /\ released = 0 /\ \A o \in OpIds : ops[o].status = "NONE"
    BY <2>1, NothingLive DEF Ledger, Untouched, Deciding
  <2>3. QED
    BY <2>1, <2>2 DEF ItemOutIsSecured, Statuses, Untouched
<1>2. QED
  BY <1>1, AlwaysAccounted, PTL

\* Dispute, deadline refund and cancellation exclude one another for good
\* (openDispute, processDue, cancelPending).
THEOREM SettlementPathIsUnique == Spec => []OneSettlementPath
<1>1. ASSUME Accounted PROVE OneSettlementPath
  <2> DEFINE used == {o[1] : o \in {p \in OpIds : ops[p].status # "NONE"}}
  <2>1. \A l \in used : \E o \in OpIds : l = o[1] /\ Live(o)
    BY DEF Live
  <2>2. \A l \in used :
          \/ l = "preHandoverRefund" /\ booking = "CANCELLED" /\ disputeStatus = "NONE"
          \/ l = "autoRefund" /\ booking = "COMPLETED" /\ disputeStatus = "NONE"
          \/ /\ l \in {"resolveRefund", "resolveRelease"}
             /\ booking = "COMPLETED" /\ disputeStatus = "RESOLVED"
    BY <1>1, <2>1 DEF Accounted, Journal
  <2>3. disputeStatus = "OPEN" <=> depositStatus = "DISPUTED"
    BY <1>1 DEF Accounted, Statuses
  <2> HIDE DEF used
  <2>4. \/ used = {}
        \/ used = {"preHandoverRefund"} /\ booking = "CANCELLED"
        \/ used = {"autoRefund"} /\ disputeStatus = "NONE"
        \/ used \subseteq {"resolveRefund", "resolveRelease"} /\ disputeStatus = "RESOLVED"
    BY <2>2
  <2>5. QED
    BY <2>3, <2>4 DEF OneSettlementPath, used
<1>2. QED
  BY <1>1, AlwaysAccounted, PTL

-----------------------------------------------------------------------------
(* What a step may never do. *)

FinalStep ==
  /\ \A o \in OpIds : ops[o].status \in {"SUCCEEDED", "FAILED"} => ops'[o] = ops[o]
  /\ refunded' >= refunded /\ released' >= released
  /\ booking \in {"COMPLETED", "CANCELLED"} => booking' = booking

\* No step takes back a result.
LEMMA StepFinal == Accounted /\ [Next]_vars => FinalStep
<1> SUFFICES ASSUME Accounted, [Next]_vars PROVE FinalStep
  OBVIOUS
<1>a. /\ TypeOK /\ Statuses /\ Journal /\ Verdict
      /\ refunded \in Nat /\ released \in Nat
  BY Rows DEF Accounted
<1>1. CASE Command
  <2>1. UNCHANGED <<refunded, released>>
    BY <1>a, <1>1, CommandMoney
  <2>2. \A o \in OpIds : ops[o].status \in {"SUCCEEDED", "FAILED"} => ops'[o] = ops[o]
    BY <1>a, <1>1, CommandRows
  <2>3. booking \in {"COMPLETED", "CANCELLED"} => booking' = booking
    BY <1>1 DEF Command, Checkout, CheckoutCall, CheckoutCommit, CheckoutAbort, Lifecycle,
         CancelConfirmed, CreateAct, ConfirmHandover, ConfirmReturn, Settlement, OpenDispute,
         ResolveDispute, DeadlineRefund, RetryFailed, Tick, vars, bookingVars
  <2>4. QED
    BY <1>a, <2>1, <2>2, <2>3 DEF FinalStep
<1>2. ASSUME NEW w \in Workers, Process(w) \/ Crash(w) PROVE FinalStep
  <2>1. booking' = booking
    BY <1>a, <1>2, ProcessStatuses DEF bookingVars
  <2>2. \A o \in OpIds : ops[o].status \in {"SUCCEEDED", "FAILED"} => ops'[o] = ops[o]
    BY <1>a, <1>2, WorkerRows
  <2>3. refunded' >= refunded /\ released' >= released
    <3>1. CASE ApplyOutcome(w)
      <4>1. worker[w].op \in OpIds /\ Recorded(w) /\ ops[worker[w].op].amount \in Nat
        BY <1>a, <3>1, OutcomeRecorded, Rows
      <4>2. QED
        BY <1>a, <4>1 DEF Recorded, Paid
    <3>2. CASE UNCHANGED depositVars
      BY <1>a, <3>2 DEF depositVars
    <3>3. QED
      BY <1>2, <3>1, <3>2 DEF Process, Crash, Scan, Claim, SkipOperation, CallProvider
  <2>4. QED
    BY <2>1, <2>2, <2>3 DEF FinalStep
<1>3. QED
  BY <1>1, <1>2, Steps

\* Results are final: a decided operation, an amount paid out and the end of a booking
\* are never taken back (applyOutcome and every command).
THEOREM FinalResults == Spec => ResultsAreFinal
<1>1. Accounted /\ [Next]_vars => [FinalStep]_vars
  BY StepFinal
<1>2. QED
  BY <1>1, AlwaysAccounted, PTL DEF Spec, ResultsAreFinal, FinalStep

WindowStep ==
  (ops[<<"autoRefund", 0>>].status = "NONE" /\ ops'[<<"autoRefund", 0>>].status # "NONE")
    => acts["RETURN"] = "CONFIRMED" /\ windowEnds <= clock

\* No step schedules an automatic refund inside the dispute window.
LEMMA StepWindow == Accounted /\ [Next]_vars => WindowStep
<1> SUFFICES ASSUME Accounted, [Next]_vars,
                    ops[<<"autoRefund", 0>>].status = "NONE",
                    ops'[<<"autoRefund", 0>>].status # "NONE"
             PROVE  acts["RETURN"] = "CONFIRMED" /\ windowEnds <= clock
  BY DEF WindowStep
<1> DEFINE auto == <<"autoRefund", 0>>
<1>a. TypeOK /\ Statuses /\ Journal /\ Verdict
  BY DEF Accounted
<1>b. auto \in OpIds
  BY SafeDealAssumption DEF OpIds, Legs, RefundLegs
<1>1. CASE Command
  <2>1. CASE DeadlineRefund
    BY <1>a, <2>1 DEF DeadlineRefund, Statuses
  <2>2. CASE CancelConfirmed
    <3>1. ops'[auto] = ops[auto]
      BY <1>a, <1>b, <2>2 DEF CancelConfirmed, TypeOK
    <3>2. QED
      BY <3>1
  <2>3. ASSUME NEW refund \in 0 .. amount, ResolveDispute(refund) PROVE FALSE
    <3>1. ops'[auto] = ops[auto]
      BY <1>a, <1>b, <2>3 DEF ResolveDispute, Resolution, TypeOK
    <3>2. QED
      BY <3>1
  <2>4. ASSUME NEW o \in OpIds, RetryFailed(o) PROVE FALSE
    <3>1. RetryOf(o) # auto
      <4>1. o[2] \in 0 .. MaxRetries
        BY OpParts
      <4>2. o[2] + 1 # 0
        BY <4>1, SafeDealAssumption
      <4>3. QED
        BY <4>2 DEF RetryOf
    <3>2. ops'[auto] = ops[auto]
      BY <1>a, <1>b, <2>4, <3>1 DEF RetryFailed, TypeOK
    <3>3. QED
      BY <3>2
  <2>5. CASE ops' = ops
    BY <2>5
  <2>6. QED
    BY <1>1, <2>1, <2>2, <2>3, <2>4, <2>5
       DEF Command, Checkout, CheckoutCall, CheckoutCommit, CheckoutAbort, Lifecycle,
           CreateAct, ConfirmHandover, ConfirmReturn, Settlement, OpenDispute, Tick, vars
<1>2. ASSUME NEW w \in Workers, Process(w) \/ Crash(w) PROVE FALSE
  BY <1>a, <1>b, <1>2, WorkerRows
<1>3. QED
  BY <1>1, <1>2, Steps

\* No automatic refund is scheduled before the dispute window has closed (processDue).
THEOREM WindowIsHonoured == Spec => WindowHonoured
<1>1. Accounted /\ [Next]_vars => [WindowStep]_vars
  BY StepWindow
<1>2. QED
  BY <1>1, AlwaysAccounted, PTL DEF Spec, WindowHonoured, WindowStep

-----------------------------------------------------------------------------
(* The safe deal implements DepositEscrow. *)

EscrowStep == [Escrow!EscrowNext]_(Escrow!escrowVars)

\* A step that touches neither the deposit nor its split.
LEMMA EscrowStutters ==
  ASSUME UNCHANGED <<amount, depositStatus, Split, refunded, released>>
  PROVE  EscrowStep
BY DEF EscrowStep, Escrow!escrowVars

\* The split changes only with a decision.
LEMMA SplitKept ==
  ASSUME UNCHANGED <<amount, disputeStatus, decision>>,
         depositStatus \in Deciding <=> depositStatus' \in Deciding
  PROVE  Split' = Split
BY DEF Split, NoDecision, Deciding

\* A command makes one move of the escrow, or none.
LEMMA CommandEscrow ==
  ASSUME TypeOK, Statuses, Command
  PROVE  EscrowStep
<1> USE DEF depositVars, disputeVars
<1>a. /\ amount \in Nat /\ depositStatus \in DepositStatuses
      /\ UNCHANGED <<amount, refunded, released>>
  BY Rows, CommandMoney DEF TypeOK
<1>1. CASE CheckoutCommit
  <2>1. Split' = Split
    BY <1>1, SplitKept DEF CheckoutCommit, Deciding
  <2>2. CASE depositStatus = "NONE"
    BY <1>a, <1>1, <2>1, <2>2, EscrowStutters DEF CheckoutCommit
  <2>3. CASE depositStatus = "PENDING"
    <3>1. Escrow!Hold
      BY <1>a, <1>1, <2>1, <2>3 DEF CheckoutCommit, Escrow!Hold, Escrow!Move
    <3>2. QED
      BY <3>1 DEF EscrowStep, Escrow!EscrowNext
  <2>4. QED
    BY <1>1, <2>2, <2>3 DEF CheckoutCommit
<1>2. CASE CancelConfirmed
  <2>1. CASE depositStatus = "NONE"
    <3>1. depositStatus' = depositStatus
      BY <1>2, <2>1 DEF CancelConfirmed
    <3>2. Split' = Split
      BY <1>a, <1>2, <3>1, SplitKept DEF CancelConfirmed
    <3>3. QED
      BY <1>a, <3>1, <3>2, EscrowStutters
  <2>2. CASE depositStatus = "PENDING"
    <3>1. Split' = Split
      BY <1>2, <2>2, SplitKept DEF CancelConfirmed, Deciding
    <3>2. Escrow!Void
      BY <1>a, <1>2, <2>2, <3>1 DEF CancelConfirmed, Escrow!Void, Escrow!Move
    <3>3. QED
      BY <3>2 DEF EscrowStep, Escrow!EscrowNext
  <2>3. CASE depositStatus = "HELD"
    <3>1. depositStatus' = "RESOLVING" /\ disputeStatus' # "RESOLVED"
      BY <1>2, <2>3 DEF CancelConfirmed, Statuses, Deciding
    <3>2. Split' = [refund |-> amount, release |-> 0]
      BY <1>a, <3>1 DEF Split
    <3>3. Escrow!Decide
      BY <1>a, <2>3, <3>1, <3>2 DEF Escrow!Decide, Escrow!Move, Escrow!FullRefund
    <3>4. QED
      BY <3>3 DEF EscrowStep, Escrow!EscrowNext
  <2>4. QED
    BY <1>2, <2>1, <2>2, <2>3 DEF CancelConfirmed
<1>3. CASE OpenDispute
  <2>1. Split' = Split
    BY <1>3 DEF OpenDispute, Split, Deciding
  <2>2. Escrow!Freeze
    BY <1>a, <1>3, <2>1 DEF OpenDispute, Escrow!Freeze, Escrow!Move
  <2>3. QED
    BY <2>2 DEF EscrowStep, Escrow!EscrowNext
<1>4. ASSUME NEW refund \in 0 .. amount, ResolveDispute(refund) PROVE EscrowStep
  <2>1. Split' = [refund |-> refund, release |-> amount - refund]
    BY <1>4 DEF ResolveDispute, Split
  <2>2. Split' \in Escrow!Splits
    BY <1>a, <2>1 DEF Escrow!Splits
  <2>3. Escrow!Decide
    BY <1>a, <1>4, <2>2 DEF ResolveDispute, Escrow!Decide, Escrow!Move
  <2>4. QED
    BY <2>3 DEF EscrowStep, Escrow!EscrowNext
<1>5. CASE DeadlineRefund
  <2>1. Split' = [refund |-> amount, release |-> 0]
    BY <1>a, <1>5 DEF DeadlineRefund, Split
  <2>2. Escrow!Decide
    BY <1>a, <1>5, <2>1 DEF DeadlineRefund, Escrow!Decide, Escrow!Move, Escrow!FullRefund
  <2>3. QED
    BY <2>2 DEF EscrowStep, Escrow!EscrowNext
<1>6. CASE UNCHANGED <<amount, depositVars, disputeVars>>
  <2>1. Split' = Split
    BY <1>6, SplitKept
  <2>2. QED
    BY <1>6, <2>1, EscrowStutters
<1>7. CASE ConfirmReturn
  <2>1. Split' = Split
    BY <1>7, SplitKept DEF ConfirmReturn
  <2>2. QED
    BY <1>a, <1>7, <2>1, EscrowStutters DEF ConfirmReturn
<1>8. QED
  BY <1>1, <1>2, <1>3, <1>4, <1>5, <1>6, <1>7
     DEF Command, Checkout, CheckoutCall, CheckoutAbort, Lifecycle, CreateAct,
         ConfirmHandover, Settlement, RetryFailed, Tick, vars

\* An execution pays one party its whole part of the split.
LEMMA PaidEscrow ==
  ASSUME Accounted, NEW o \in OpIds, Paid(o), UNCHANGED <<amount, disputeStatus, decision>>
  PROVE  EscrowStep
<1>a. TypeOK /\ Statuses /\ Journal /\ Sums(ops, refunded, released)
  BY MatchIsSums DEF Accounted, Ledger
<1>1. Live(o) /\ ops[o].amount = PartOf(o) /\ PartOf(o) > 0 /\ ops[o].status # "FAILED"
  BY <1>a DEF Paid, Live, Journal
<1>2. Split' = Split
  BY <1>a, SplitKept DEF Paid, Deciding
<1>3. depositStatus' = IF refunded' + released' = amount THEN "RESOLVED" ELSE "RESOLVING"
  BY <1>a, PaidInFull DEF Paid
<1>4. \A p \in OpIds : ops[p].status = "SUCCEEDED" => (IsRefund(p) <=> ~IsRefund(o))
  <2>1. SUFFICES ASSUME NEW p \in OpIds, ops[p].status = "SUCCEEDED",
                        IsRefund(p) = IsRefund(o)
                 PROVE  FALSE
    BY DEF IsRefund
  <2>2. p = o
    BY <1>a, <1>1, <2>1, OneUnfailed DEF Live
  <2>3. QED
    BY <2>1, <2>2 DEF Paid
<1>5. refunded \in Nat /\ released \in Nat /\ ops[o].amount \in Nat
  BY <1>a, Rows
<1>6. CASE IsRefund(o)
  <2>1. refunded = 0
    BY <1>a, <1>4, <1>6 DEF Sums
  <2>2. /\ refunded' = Split.refund /\ released' = released /\ Split.refund > 0
    BY <1>1, <1>5, <1>6, <2>1 DEF Paid, PartOf
  <2>3. Escrow!Pay
    BY <1>2, <1>3, <2>1, <2>2 DEF Escrow!Pay, Paid
  <2>4. QED
    BY <2>3 DEF EscrowStep, Escrow!EscrowNext
<1>7. CASE ~IsRefund(o)
  <2>1. released = 0
    BY <1>a, <1>4, <1>7 DEF Sums
  <2>2. /\ released' = Split.release /\ refunded' = refunded /\ Split.release > 0
    BY <1>1, <1>5, <1>7, <2>1 DEF Paid, PartOf
  <2>3. Escrow!Pay
    BY <1>2, <1>3, <2>1, <2>2 DEF Escrow!Pay, Paid
  <2>4. QED
    BY <2>3 DEF EscrowStep, Escrow!EscrowNext
<1>8. QED
  BY <1>6, <1>7

\* Every step makes one move of the escrow, or none.
LEMMA StepEscrow == Accounted /\ [Next]_vars => EscrowStep
<1> SUFFICES ASSUME Accounted, [Next]_vars PROVE EscrowStep
  OBVIOUS
<1>a. TypeOK /\ Statuses /\ Verdict
  BY DEF Accounted
<1>1. CASE Command
  BY <1>a, <1>1, CommandEscrow
<1>2. ASSUME NEW w \in Workers, Process(w) \/ Crash(w) PROVE EscrowStep
  <2>1. UNCHANGED <<amount, disputeStatus, decision>>
    BY <1>a, <1>2, ProcessStatuses DEF disputeVars
  <2>2. CASE UNCHANGED <<depositStatus, refunded, released>>
    <3>1. Split' = Split
      BY <2>1, <2>2, SplitKept
    <3>2. QED
      BY <2>1, <2>2, <3>1, EscrowStutters
  <2>3. ASSUME NEW o \in OpIds, Paid(o) PROVE EscrowStep
    BY <2>1, <2>3, PaidEscrow
  <2>4. CASE ApplyOutcome(w)
    <3>1. worker[w].op \in OpIds /\ Recorded(w)
      BY <1>a, <2>4, OutcomeRecorded
    <3>2. QED
      BY <2>2, <2>3, <3>1 DEF Recorded
  <2>5. QED
    BY <1>2, <2>2, <2>4
       DEF Process, Crash, Scan, Claim, SkipOperation, CallProvider, depositVars
<1>3. QED
  BY <1>1, <1>2, Steps

\* The safe deal is a deposit escrow: every command and every worker step makes one
\* legal move of deposit-state.ts with the decided amounts, or none.
THEOREM SafeDealImplementsEscrow == Spec => ImplementsEscrow
<1>1. Init => Escrow!EscrowInit
  BY SafeDealAssumption DEF Init, Escrow!EscrowInit, Split, NoDecision
<1>2. Accounted /\ [Next]_vars => [Escrow!EscrowNext]_(Escrow!escrowVars)
  BY StepEscrow DEF EscrowStep
<1>3. QED
  BY <1>1, <1>2, AlwaysAccounted, PTL DEF Spec, ImplementsEscrow, Escrow!EscrowSpec

=============================================================================
