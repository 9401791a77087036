--------------------------- MODULE BookingCalendar ---------------------------
(***************************************************************************)
(* The request phase of bookings and the calendar of items: concurrent     *)
(* create, confirm and cancel commands, the expiry of unanswered requests, *)
(* the owner's unavailable periods, and the blocking of one user by        *)
(* another, which cancels the live requests between the two.               *)
(*                                                                         *)
(* Every command is one READ COMMITTED transaction.  What the code relies  *)
(* on is the order of its pg_advisory_xact_lock calls, so a transaction is *)
(* cut where it waits for a lock and between its reads and its writes; the *)
(* reads that follow a lock belong to the step that takes it.  Row locks   *)
(* need no state: an UPDATE that waits for another transaction's row sees  *)
(* the committed row, as if all of its writes happened at its commit.      *)
(*                                                                         *)
(* The commands after confirmation (checkout, acts, completion) all hold   *)
(* the booking's lock from beginning to end; they are single actions here, *)
(* seen as far as the calendar goes, and modelled in full in SafeDeal.     *)
(***************************************************************************)
EXTENDS Integers, FiniteSets, Sequences

CONSTANTS
  Sessions,            \* concurrent database transactions
  Users, Items,
  Owner,               \* Item.ownerId
  Bookings,            \* ids, in the order of ORDER BY id
  Request,             \* what each booking's create asks for: borrower, item, days, deposit
  Periods,             \* intervals an owner may enter: item and days
  Blockers,            \* bound: <<blocker, blocked>> pairs that are tried
  MaxActivePending,    \* BOOKING_MAX_ACTIVE_PENDING
  MaxCompetingPending, \* BOOKING_MAX_COMPETING_PENDING
  Ttl,                 \* BOOKING_PENDING_TTL_MS, in clock units
  MaxWait,             \* bound: the age a transaction may reach (Prisma's timeout)
  MaxClock             \* bound: the last instant of a behaviour

Interval == [item : Items, first : Nat, last : Nat]

ASSUME CalendarAssumption ==
  /\ Owner \in [Items -> Users]
  /\ Bookings \subseteq Nat \ {0}
  /\ Request \in [Bookings -> [borrower : Users, item : Items,
                               first : Nat, last : Nat, deposit : BOOLEAN]]
  /\ \A b \in Bookings : Request[b].borrower # Owner[Request[b].item]
  /\ Periods \subseteq Interval
  /\ Blockers \subseteq {p \in Users \X Users : p[1] # p[2]}
  /\ MaxActivePending \in Nat /\ MaxCompetingPending \in Nat
  /\ Ttl \in Nat \ {0} /\ MaxWait \in Nat \ {0} /\ MaxClock \in Nat

Borrower(b) == Request[b].borrower
Lender(b) == Owner[Request[b].item]
Item(b) == Request[b].item

\* Both bounds of an interval are days of it.
Overlap(p, q) == p.item = q.item /\ p.first <= q.last /\ q.first <= p.last

NoTime == -1
NoBooking == 0
NoPair == <<"none", "none">>

Statuses == {"NONE", "PENDING", "CONFIRMED", "ACTIVE", "RETURNED", "COMPLETED", "CANCELLED"}
Reserving == {"CONFIRMED", "ACTIVE", "RETURNED"}    \* a hard reservation of the item
Reasons == {"NONE", "BORROWER_CANCELLED", "LENDER_DECLINED",
            "COMPETING_REQUEST_CONFIRMED", "PENDING_TIMEOUT", "PARTICIPANT_BLOCKED"}
DepositStatuses == {"NONE", "PENDING", "HELD", "RESOLVING", "CANCELLED"}
Events == {"CREATED", "CONFIRMED", "COMPETING_CANCELLED", "CANCELLED",
           "PENDING_TIMEOUT", "HANDOVER_CONFIRMED", "RETURN_CONFIRMED", "COMPLETED"}

\* Advisory lock keys: hashtext of an id, hashtextextended of a sorted pair.
UserLock(u) == <<"user", u>>
ItemLock(i) == <<"item", i>>
BookingLock(b) == <<"booking", b>>
PairLock(pair) == <<"pair", {pair[1], pair[2]}>>
Locks == {UserLock(u) : u \in Users} \cup {ItemLock(i) : i \in Items}
           \cup {BookingLock(b) : b \in Bookings} \cup {PairLock(p) : p \in Users \X Users}

\* A transaction: its command, the lock keys it holds, the instant it has read, the
\* bookings it has read and will write, and whether its reads are complete.
Transaction ==
  [command : {"none", "create", "confirm", "cancel", "block"},
   booking : Bookings \cup {NoBooking}, pair : Blockers \cup {NoPair},
   now : Nat, held : SUBSET Locks, seen : SUBSET Bookings, ready : BOOLEAN,
   reason : Reasons, old : Statuses]

VARIABLES
  clock,      \* server time
  status,     \* Booking.status, "NONE" before the row exists
  expiresAt,  \* Booking.expiresAt
  reason,     \* Booking.cancellationReason
  deposit,    \* BookingDeposit.status, "NONE" when there is no row
  history,    \* BookingTransitionHistory per booking: <<oldStatus, newStatus>>
  outbox,     \* NotificationOutboxEvent deduplication keys: <<booking, event>>
  periods,    \* ItemUnavailablePeriod
  blocks,     \* UserBlock
  tx          \* the open transaction of each session

bookingVars == <<status, expiresAt, reason, deposit, history, outbox>>
vars == <<clock, status, expiresAt, reason, deposit, history, outbox, periods, blocks, tx>>

Idle == [command |-> "none", booking |-> NoBooking, pair |-> NoPair, now |-> 0,
         held |-> {}, seen |-> {}, ready |-> FALSE, reason |-> "NONE", old |-> "NONE"]

TypeOK ==
  /\ clock \in 0 .. MaxClock
  /\ status \in [Bookings -> Statuses]
  /\ expiresAt \in [Bookings -> Nat \cup {NoTime}]
  /\ reason \in [Bookings -> Reasons]
  /\ deposit \in [Bookings -> DepositStatuses]
  /\ history \in [Bookings -> Seq(Statuses \X Statuses)]
  /\ outbox \subseteq Bookings \X Events
  /\ periods \subseteq Periods
  /\ blocks \subseteq Blockers
  /\ tx \in [Sessions -> Transaction]

Init ==
  /\ clock = 0
  /\ status = [b \in Bookings |-> "NONE"]
  /\ expiresAt = [b \in Bookings |-> NoTime]
  /\ reason = [b \in Bookings |-> "NONE"]
  /\ deposit = [b \in Bookings |-> "NONE"]
  /\ history = [b \in Bookings |-> <<>>]
  /\ outbox = {}
  /\ periods = {}
  /\ blocks = {}
  /\ tx = [s \in Sessions |-> Idle]

-----------------------------------------------------------------------------
(***************************************************************************)
(* Reads and writes the commands share                                     *)
(***************************************************************************)

LivePending(now) == {b \in Bookings : status[b] = "PENDING" /\ expiresAt[b] > now}
Reserved == {b \in Bookings : status[b] \in Reserving}

CalendarConflict(b) == \E p \in periods : Overlap(p, Request[b])
ReservedConflict(b) == \E c \in Reserved \ {b} : Overlap(Request[c], Request[b])

\* Live requests for overlapping days of the same item.
Competitors(b, now) == {c \in LivePending(now) \ {b} : Overlap(Request[c], Request[b])}

\* The bookings of S that are still PENDING become CANCELLED (updateMany).
CancelPendingOf(S, why) ==
  LET hit == {b \in S : status[b] = "PENDING"} IN
  /\ status' = [b \in Bookings |-> IF b \in hit THEN "CANCELLED" ELSE status[b]]
  /\ reason' = [b \in Bookings |-> IF b \in hit THEN why ELSE reason[b]]
  /\ expiresAt' = [b \in Bookings |-> IF b \in hit THEN NoTime ELSE expiresAt[b]]

\* One more record <<old, new>> in the history of every booking of S.
Recorded(S, old, new) ==
  [b \in Bookings |-> IF b \in S THEN Append(history[b], <<old, new>>) ELSE history[b]]

\* PENDING deposits of S become CANCELLED.
DepositsCancelled(S) ==
  [b \in Bookings |-> IF b \in S /\ deposit[b] = "PENDING" THEN "CANCELLED" ELSE deposit[b]]

-----------------------------------------------------------------------------
(***************************************************************************)
(* Advisory locks, held until the end of the transaction                   *)
(***************************************************************************)

\* Mutant of Free: the borrower's lock is not taken.
FreeOrUser(k) == k[1] = "user" \/ \A s \in Sessions : k \notin tx[s].held

Free(k) == \A s \in Sessions : k \notin tx[s].held

\* Candidates of a block whose locks are still to be taken.
Unlocked(s) == {b \in tx[s].seen : BookingLock(b) \notin tx[s].held}

\* Mutant of NextLock: confirm also takes the locks of the competitors it will cancel.
NextLockWithRivals(s) ==
  LET b == tx[s].booking
      rivals == {c \in Competitors(b, tx[s].now) : BookingLock(c) \notin tx[s].held}
  IN
  CASE tx[s].command = "create" /\ tx[s].held = {} -> UserLock(Borrower(b))
    [] tx[s].command = "confirm" /\ tx[s].held = {} -> BookingLock(b)
    [] tx[s].command = "confirm" /\ tx[s].held # {} /\ rivals # {} ->
         BookingLock(CHOOSE c \in rivals : \A d \in rivals : c <= d)
    [] tx[s].command = "confirm" /\ tx[s].held # {} /\ rivals = {} -> ItemLock(Item(b))
    [] tx[s].command = "create" /\ tx[s].held # {} -> ItemLock(Item(b))
    [] tx[s].command = "block" ->
         BookingLock(CHOOSE c \in Unlocked(s) : \A d \in Unlocked(s) : c <= d)

\* The lock a transaction asks for next: create goes from borrower to item, confirm from
\* booking to item, blockUser through its candidates in the order of their ids.
NextLock(s) ==
  LET b == tx[s].booking IN
  CASE tx[s].command = "create" /\ tx[s].held = {} -> UserLock(Borrower(b))
    [] tx[s].command = "confirm" /\ tx[s].held = {} -> BookingLock(b)
    [] tx[s].command \in {"create", "confirm"} /\ tx[s].held # {} -> ItemLock(Item(b))
    [] tx[s].command = "block" ->
         BookingLock(CHOOSE c \in Unlocked(s) : \A d \in Unlocked(s) : c <= d)

\* Transactions that wait for a lock, or could.
Waiting(s) ==
  \/ tx[s].command = "create"
  \/ tx[s].command = "confirm" /\ ~tx[s].ready
  \/ tx[s].command = "block" /\ Unlocked(s) # {}

-----------------------------------------------------------------------------
(***************************************************************************)
(* create: the borrower's lock, then the item's                            *)
(***************************************************************************)

\* The request has been parsed and has read its clock; it waits for the first lock.
BeginCreate(s, b) ==
  /\ tx[s] = Idle
  /\ tx' = [tx EXCEPT ![s] = [Idle EXCEPT !.command = "create", !.booking = b, !.now = clock]]
  /\ UNCHANGED <<clock, bookingVars, periods, blocks>>

\* Under the borrower's lock: a repeated request returns the stored booking, a
\* borrower with too many live requests is refused.
CountPending(s) ==
  LET b == tx[s].booking
      mine == {c \in LivePending(tx[s].now) : Borrower(c) = Borrower(b)}
  IN
  /\ tx[s].command = "create" /\ tx[s].held = {}
  /\ Free(NextLock(s))
  /\ tx' = [tx EXCEPT ![s] =
       IF status[b] = "NONE" /\ Cardinality(mine) < MaxActivePending
         THEN [@ EXCEPT !.held = {NextLock(s)}]
         ELSE Idle]
  /\ UNCHANGED <<clock, bookingVars, periods, blocks>>

\* Mutant of Bookable: reservations are not looked at again under the item's lock.
BookableOverReservation(b, now) ==
  /\ <<Borrower(b), Lender(b)>> \notin blocks /\ <<Lender(b), Borrower(b)>> \notin blocks
  /\ ~CalendarConflict(b)
  /\ Cardinality(Competitors(b, now)) < MaxCompetingPending

\* What create requires under the item's lock.
Bookable(b, now) ==
  /\ <<Borrower(b), Lender(b)>> \notin blocks /\ <<Lender(b), Borrower(b)>> \notin blocks
  /\ ~CalendarConflict(b)
  /\ ~ReservedConflict(b)
  /\ Cardinality(Competitors(b, now)) < MaxCompetingPending

InsertBooking(s) ==
  LET b == tx[s].booking IN
  /\ tx[s].command = "create" /\ tx[s].held # {}
  /\ Free(NextLock(s))
  /\ IF Bookable(b, tx[s].now)
       THEN /\ status' = [status EXCEPT ![b] = "PENDING"]
            /\ expiresAt' = [expiresAt EXCEPT ![b] = tx[s].now + Ttl]
            /\ deposit' = [deposit EXCEPT ![b] = IF Request[b].deposit THEN "PENDING" ELSE "NONE"]
            /\ history' = Recorded({b}, "NONE", "PENDING")
            /\ outbox' = outbox \cup {<<b, "CREATED">>}
            /\ UNCHANGED reason
       ELSE UNCHANGED bookingVars
  /\ tx' = [tx EXCEPT ![s] = Idle]
  /\ UNCHANGED <<clock, periods, blocks>>

-----------------------------------------------------------------------------
(***************************************************************************)
(* confirm: the booking's lock, then the item's                            *)
(***************************************************************************)

BeginConfirm(s, b) ==
  /\ tx[s] = Idle
  /\ status[b] # "NONE"
  /\ tx' = [tx EXCEPT ![s] = [Idle EXCEPT !.command = "confirm", !.booking = b, !.now = clock]]
  /\ UNCHANGED <<clock, bookingVars, periods, blocks>>

LockConfirmed(s) ==
  /\ tx[s].command = "confirm" /\ tx[s].held = {}
  /\ Free(NextLock(s))
  /\ tx' = [tx EXCEPT ![s].held = {NextLock(s)}]
  /\ UNCHANGED <<clock, bookingVars, periods, blocks>>

\* Mutant of Confirmable: closed days are not looked at again under the item's lock.
ConfirmableOnClosedDays(b, now) ==
  /\ status[b] = "PENDING" /\ expiresAt[b] > now
  /\ ~ReservedConflict(b)

\* What confirm requires once it holds both locks; its clock is the one it read
\* before the first.
Confirmable(b, now) ==
  /\ status[b] = "PENDING" /\ expiresAt[b] > now
  /\ ~CalendarConflict(b)
  /\ ~ReservedConflict(b)

\* Under the item's lock the request is checked again and its competitors are read.
CheckConfirm(s) ==
  LET b == tx[s].booking IN
  /\ tx[s].command = "confirm" /\ tx[s].held # {} /\ ~tx[s].ready
  /\ Free(NextLock(s))
  /\ tx' = [tx EXCEPT ![s] =
       IF Confirmable(b, tx[s].now)
         THEN [@ EXCEPT !.held = tx[s].held \cup {NextLock(s)}, !.ready = TRUE,
                        !.seen = Competitors(b, tx[s].now)]
         ELSE Idle]
  /\ UNCHANGED <<clock, bookingVars, periods, blocks>>

\* The chosen request is confirmed; the competitors that were read are cancelled if
\* they are still PENDING, and recorded and announced in any case.
CommitConfirm(s) ==
  LET b == tx[s].booking
      rivals == tx[s].seen
      hit == {c \in rivals : status[c] = "PENDING"}
  IN
  /\ tx[s].command = "confirm" /\ tx[s].ready
  /\ status' = [c \in Bookings |->
       IF c = b THEN "CONFIRMED" ELSE IF c \in hit THEN "CANCELLED" ELSE status[c]]
  /\ reason' = [c \in Bookings |->
       IF c = b THEN "NONE" ELSE IF c \in hit THEN "COMPETING_REQUEST_CONFIRMED" ELSE reason[c]]
  /\ expiresAt' = [c \in Bookings |-> IF c \in hit \cup {b} THEN NoTime ELSE expiresAt[c]]
  /\ deposit' = DepositsCancelled(rivals)
  /\ history' = [c \in Bookings |->
       CASE c = b -> Append(history[c], <<"PENDING", "CONFIRMED">>)
         [] c \in rivals -> Append(history[c], <<"PENDING", "CANCELLED">>)
         [] OTHER -> history[c]]
  /\ outbox' = outbox \cup {<<b, "CONFIRMED">>} \cup (rivals \X {"COMPETING_CANCELLED"})
  /\ tx' = [tx EXCEPT ![s] = Idle]
  /\ UNCHANGED <<clock, periods, blocks>>

-----------------------------------------------------------------------------
(***************************************************************************)
(* cancel: the booking's lock                                              *)
(***************************************************************************)

\* A live request, or a confirmed safe deal whose item has not been handed over.
Cancellable(b) ==
  \/ status[b] = "PENDING" /\ expiresAt[b] > clock
  \/ status[b] = "CONFIRMED" /\ deposit[b] \in {"NONE", "PENDING", "HELD"}

\* The booking is read under its lock; a command that may not cancel ends here, as
\* does the repetition of a cancellation by the same side.
ReadCancelled(s, b, why) ==
  /\ tx[s] = Idle
  /\ Free(BookingLock(b))
  /\ Cancellable(b)
  /\ tx' = [tx EXCEPT ![s] =
       [Idle EXCEPT !.command = "cancel", !.booking = b, !.now = clock, !.ready = TRUE,
                    !.held = {BookingLock(b)}, !.reason = why, !.old = status[b]]]
  /\ UNCHANGED <<clock, bookingVars, periods, blocks>>

\* The update names the booking by its id alone: whatever its status has become
\* since it was read, it is CANCELLED for this reason now.
CommitCancel(s) ==
  LET b == tx[s].booking IN
  /\ tx[s].command = "cancel"
  /\ <<b, "CANCELLED">> \notin outbox
  /\ status' = [status EXCEPT ![b] = "CANCELLED"]
  /\ reason' = [reason EXCEPT ![b] = tx[s].reason]
  /\ expiresAt' = [expiresAt EXCEPT ![b] = NoTime]
  /\ deposit' = [deposit EXCEPT ![b] = CASE @ = "PENDING" -> "CANCELLED"
                                         [] @ = "HELD" -> "RESOLVING"
                                         [] OTHER -> @]
  /\ history' = Recorded({b}, tx[s].old, "CANCELLED")
  /\ outbox' = outbox \cup {<<b, "CANCELLED">>}
  /\ tx' = [tx EXCEPT ![s] = Idle]
  /\ UNCHANGED <<clock, periods, blocks>>

-----------------------------------------------------------------------------
(***************************************************************************)
(* blockUser: the pair's lock, then its live requests in the order of ids  *)
(***************************************************************************)

Between(b, pair) == {Borrower(b), Lender(b)} = {pair[1], pair[2]}

\* The UserBlock row is written here and visible to others from the commit on.
BeginBlock(s, pair) ==
  /\ tx[s] = Idle
  /\ Free(PairLock(pair))
  /\ tx' = [tx EXCEPT ![s] =
       [Idle EXCEPT !.command = "block", !.pair = pair, !.now = clock,
                    !.held = {PairLock(pair)},
                    !.seen = {b \in LivePending(clock) : Between(b, pair)}]]
  /\ UNCHANGED <<clock, bookingVars, periods, blocks>>

LockCandidate(s) ==
  /\ tx[s].command = "block" /\ Unlocked(s) # {}
  /\ Free(NextLock(s))
  /\ tx' = [tx EXCEPT ![s].held = @ \cup {NextLock(s)}]
  /\ UNCHANGED <<clock, bookingVars, periods, blocks>>

\* Mutant of ReadCandidates: the candidates read before the locks are kept.
ReadCandidatesOnce(s) ==
  /\ tx[s].command = "block" /\ ~tx[s].ready
  /\ Unlocked(s) = {}
  /\ tx' = [tx EXCEPT ![s].ready = TRUE]
  /\ UNCHANGED <<clock, bookingVars, periods, blocks>>

\* With all locks in hand the candidates that are still live are read again.
ReadCandidates(s) ==
  /\ tx[s].command = "block" /\ ~tx[s].ready
  /\ Unlocked(s) = {}
  /\ tx' = [tx EXCEPT ![s].ready = TRUE, ![s].seen = @ \cap LivePending(tx[s].now)]
  /\ UNCHANGED <<clock, bookingVars, periods, blocks>>

\* The deposits of the cancelled requests are left as they are.
CommitBlock(s) ==
  LET S == tx[s].seen IN
  /\ tx[s].command = "block" /\ tx[s].ready
  /\ (S \X {"CANCELLED"}) \cap outbox = {}
  /\ blocks' = blocks \cup {tx[s].pair}
  /\ CancelPendingOf(S, "PARTICIPANT_BLOCKED")
  /\ history' = Recorded(S, "PENDING", "CANCELLED")
  /\ outbox' = outbox \cup (S \X {"CANCELLED"})
  /\ tx' = [tx EXCEPT ![s] = Idle]
  /\ UNCHANGED <<clock, deposit, periods>>

\* A transaction that dies, times out or meets a unique key rolls back.
Abort(s) ==
  /\ tx[s] # Idle
  /\ tx' = [tx EXCEPT ![s] = Idle]
  /\ UNCHANGED <<clock, bookingVars, periods, blocks>>

\* unblockUser takes no lock and restores nothing.
Unblock(pair) ==
  /\ pair \in blocks
  /\ blocks' = blocks \ {pair}
  /\ UNCHANGED <<clock, bookingVars, periods, tx>>

-----------------------------------------------------------------------------
(***************************************************************************)
(* Commands that are atomic under the one lock they take                   *)
(***************************************************************************)

\* Mutants of Expire: the request is recorded as timed out without looking whether it is
\* still PENDING; the last instant of its time is left out.
ExpireUnguarded(b) ==
  /\ Free(BookingLock(b))
  /\ status[b] # "NONE" /\ expiresAt[b] <= clock /\ <<b, "PENDING_TIMEOUT">> \notin outbox
  /\ CancelPendingOf({b}, "PENDING_TIMEOUT")
  /\ deposit' = DepositsCancelled({b})
  /\ history' = Recorded({b}, "PENDING", "CANCELLED")
  /\ outbox' = outbox \cup {<<b, "PENDING_TIMEOUT">>}
  /\ UNCHANGED <<clock, periods, blocks, tx>>
ExpireLate(b) ==
  /\ Free(BookingLock(b))
  /\ status[b] = "PENDING" /\ expiresAt[b] < clock
  /\ CancelPendingOf({b}, "PENDING_TIMEOUT")
  /\ deposit' = DepositsCancelled({b})
  /\ history' = Recorded({b}, "PENDING", "CANCELLED")
  /\ outbox' = outbox \cup {<<b, "PENDING_TIMEOUT">>}
  /\ UNCHANGED <<clock, periods, blocks, tx>>

\* BookingExpiryService: a guarded update under the booking's lock.  The clock of
\* the scan may be older than this one, which only admits fewer bookings.
Expire(b) ==
  /\ Free(BookingLock(b))
  /\ status[b] = "PENDING" /\ expiresAt[b] <= clock
  /\ CancelPendingOf({b}, "PENDING_TIMEOUT")
  /\ deposit' = DepositsCancelled({b})
  /\ history' = Recorded({b}, "PENDING", "CANCELLED")
  /\ outbox' = outbox \cup {<<b, "PENDING_TIMEOUT">>}
  /\ UNCHANGED <<clock, periods, blocks, tx>>

\* Mutant of ClosePeriod: the item's lock is not taken.
ClosePeriodUnlocked(p) ==
  /\ ~\E b \in Reserved : Overlap(Request[b], p)
  /\ ~\E q \in periods : Overlap(q, p)
  /\ periods' = periods \cup {p}
  /\ UNCHANGED <<clock, bookingVars, blocks, tx>>

\* The owner closes days under the item's lock; PENDING requests do not prevent it.
ClosePeriod(p) ==
  /\ Free(ItemLock(p.item))
  /\ ~\E b \in Reserved : Overlap(Request[b], p)
  /\ ~\E q \in periods : Overlap(q, p)
  /\ periods' = periods \cup {p}
  /\ UNCHANGED <<clock, bookingVars, blocks, tx>>

OpenPeriod(p) ==
  /\ Free(ItemLock(p.item))
  /\ p \in periods
  /\ periods' = periods \ {p}
  /\ UNCHANGED <<clock, bookingVars, blocks, tx>>

\* A transition of the commands that follow confirmation, under the booking's lock.
Advance(b, from, to, event) ==
  /\ Free(BookingLock(b))
  /\ status[b] = from
  /\ <<b, event>> \notin outbox
  /\ status' = [status EXCEPT ![b] = to]
  /\ history' = Recorded({b}, from, to)
  /\ outbox' = outbox \cup {<<b, event>>}
  /\ UNCHANGED <<clock, expiresAt, reason, periods, blocks, tx>>

\* Checkout holds the deposit of a confirmed booking.
HoldDeposit(b) ==
  /\ Free(BookingLock(b))
  /\ status[b] = "CONFIRMED"
  /\ deposit[b] = "PENDING"
  /\ deposit' = [deposit EXCEPT ![b] = "HELD"]
  /\ UNCHANGED <<clock, status, expiresAt, reason, history, outbox, periods, blocks, tx>>

Handover(b) ==
  /\ deposit[b] \in {"NONE", "HELD"}
  /\ Advance(b, "CONFIRMED", "ACTIVE", "HANDOVER_CONFIRMED")
  /\ UNCHANGED deposit

\* The return of a booking with a deposit opens its dispute window.
Return(b) ==
  /\ deposit[b] # "NONE"
  /\ Advance(b, "ACTIVE", "RETURNED", "RETURN_CONFIRMED")
  /\ UNCHANGED deposit

\* The return of a booking without a deposit completes it in the same transaction.
ReturnAndComplete(b) ==
  /\ Free(BookingLock(b))
  /\ status[b] = "ACTIVE" /\ deposit[b] = "NONE"
  /\ status' = [status EXCEPT ![b] = "COMPLETED"]
  /\ history' = [history EXCEPT ![b] = @ \o <<<<"ACTIVE", "RETURNED">>, <<"RETURNED", "COMPLETED">>>>]
  /\ outbox' = outbox \cup {<<b, "RETURN_CONFIRMED">>, <<b, "COMPLETED">>}
  /\ UNCHANGED <<clock, expiresAt, reason, deposit, periods, blocks, tx>>

\* The dispute window closes or the dispute is decided.
Complete(b) ==
  /\ Advance(b, "RETURNED", "COMPLETED", "COMPLETED")
  /\ deposit' = [deposit EXCEPT ![b] = "RESOLVING"]

\* A transaction older than MaxWait has been rolled back by its timeout.
Tick ==
  /\ clock < MaxClock
  /\ \A s \in Sessions : tx[s] # Idle => clock - tx[s].now < MaxWait
  /\ clock' = clock + 1
  /\ UNCHANGED <<bookingVars, periods, blocks, tx>>

-----------------------------------------------------------------------------
Create(s) == (\E b \in Bookings : BeginCreate(s, b)) \/ CountPending(s) \/ InsertBooking(s)

Confirm(s) ==
  (\E b \in Bookings : BeginConfirm(s, b)) \/ LockConfirmed(s) \/ CheckConfirm(s) \/ CommitConfirm(s)

Cancel(s) ==
  \/ \E b \in Bookings, why \in {"BORROWER_CANCELLED", "LENDER_DECLINED"} : ReadCancelled(s, b, why)
  \/ CommitCancel(s)

Block(s) ==
  (\E p \in Blockers : BeginBlock(s, p)) \/ LockCandidate(s) \/ ReadCandidates(s) \/ CommitBlock(s)

Rental(b) == HoldDeposit(b) \/ Handover(b) \/ Return(b) \/ ReturnAndComplete(b) \/ Complete(b)

Next ==
  \/ \E s \in Sessions : Create(s) \/ Confirm(s) \/ Cancel(s) \/ Block(s) \/ Abort(s)
  \/ \E p \in Blockers : Unblock(p)
  \/ \E b \in Bookings : Expire(b) \/ Rental(b)
  \/ \E p \in Periods : ClosePeriod(p) \/ OpenPeriod(p)
  \/ Tick

Spec == Init /\ [][Next]_vars

\* The next step of a transaction that has begun.
Step(s) ==
  \/ CountPending(s) \/ InsertBooking(s)
  \/ LockConfirmed(s) \/ CheckConfirm(s) \/ CommitConfirm(s)
  \/ CommitCancel(s)
  \/ LockCandidate(s) \/ ReadCandidates(s) \/ CommitBlock(s)
  \/ Abort(s)

\* A transaction goes on or is rolled back.  Advisory locks are granted in the order
\* in which they were asked for, so the cleanup that asks every minute gets its turn
\* however often others take the lock.
Fairness ==
  /\ \A s \in Sessions : WF_vars(Step(s))
  /\ \A b \in Bookings : SF_vars(Expire(b))

FairSpec == Spec /\ Fairness

-----------------------------------------------------------------------------
(***************************************************************************)
(* Safety                                                                  *)
(***************************************************************************)

\* One item, one renter: hard reservations of an item never share a day, whatever
\* requests are confirmed at the same time (confirm's re-check under the item's lock).
NoDoubleBooking ==
  \A b, c \in Reserved : b # c => ~Overlap(Request[b], Request[c])

\* The owner's calendar and the reservations of an item never share a day: confirm
\* and the calendar exclude each other by the item's lock alone.
CalendarRespected ==
  \A p \in periods : \A b \in Reserved : ~Overlap(p, Request[b])

\* The days of an item have one user at a time, a renter or the owner.
CalendarIsSound == NoDoubleBooking /\ CalendarRespected

\* A request that has lost is not left waiting: no live request overlaps a reservation,
\* although requests are created and expire while another one is being confirmed.
NoLiveLoser ==
  \A b \in LivePending(clock) : \A c \in Reserved : ~Overlap(Request[b], Request[c])

\* The caps hold however many creates run at once: live requests of one borrower, and
\* live requests for one day of one item (create counts under two different locks).
RequestLimits ==
  /\ \A u \in Users :
       Cardinality({b \in LivePending(clock) : Borrower(b) = u}) <= MaxActivePending
  /\ \A c \in Bookings : \A day \in Request[c].first .. Request[c].last :
       Cardinality({b \in LivePending(clock) :
                      Overlap(Request[b], [item |-> Item(c), first |-> day, last |-> day])})
         <= MaxCompetingPending

\* The history explains the status: its last record is how the booking came to be what
\* it is, although competitors are recorded from a list read earlier (confirm).
HistoryExplainsStatus ==
  \A b \in Bookings :
    IF history[b] = <<>> THEN status[b] = "NONE"
    ELSE history[b][Len(history[b])][2] = status[b]

\* Participants are never told both that a request was confirmed and that it lost to
\* another one or timed out, and a waiting request has announced nothing but itself
\* (outbox rows of confirm, cancelPending, expirePending and blockUser).
NoContradictoryNotices ==
  \A b \in Bookings :
    /\ <<b, "CONFIRMED">> \in outbox =>
         <<b, "COMPETING_CANCELLED">> \notin outbox /\ <<b, "PENDING_TIMEOUT">> \notin outbox
    /\ status[b] = "PENDING" => \A e \in Events : <<b, e>> \in outbox => e = "CREATED"

\* Whoever loses to a reservation loses the request at once and is told only that.
LosersAreTold == NoLiveLoser /\ NoContradictoryNotices

\* A cancellation is never lost to the unique key of the outbox: cancelPending and
\* blockUser announce under the same key, and a second row would roll them back.
NoOutboxCollision ==
  \A s \in Sessions :
    /\ tx[s].command = "cancel" => <<tx[s].booking, "CANCELLED">> \notin outbox
    /\ tx[s].command = "block" /\ tx[s].ready => (tx[s].seen \X {"CANCELLED"}) \cap outbox = {}

\* Transactions never wait for each other in a circle: in any set of transactions one
\* waits for a lock that none of the set holds (lock order of create, confirm, blockUser).
NoWaitCycle ==
  \A S \in SUBSET Sessions :
    (S # {} /\ \A s \in S : Waiting(s)) =>
      \E s \in S : \A r \in S : NextLock(s) \notin tx[r].held

\* The transitions workflow-contract.ts allows, the two of a return without deposit in one.
Moves == {<<"NONE", "PENDING">>, <<"PENDING", "CONFIRMED">>, <<"PENDING", "CANCELLED">>,
          <<"CONFIRMED", "ACTIVE">>, <<"CONFIRMED", "CANCELLED">>, <<"ACTIVE", "RETURNED">>,
          <<"RETURNED", "COMPLETED">>, <<"ACTIVE", "COMPLETED">>}

\* Every step makes legal moves only and reserves for at most one booking, although
\* cancelPending and confirm write a status without looking at the current one; a request
\* leaves PENDING for CONFIRMED only while it could not have been expired at the time its
\* transaction began.
LegalMoves ==
  [][/\ \A b \in Bookings : status'[b] # status[b] => <<status[b], status'[b]>> \in Moves
     /\ \A b \in Bookings : (status[b] = "PENDING" /\ status'[b] = "CONFIRMED") =>
          expiresAt[b] > clock - MaxWait]_vars

(***************************************************************************)
(* Liveness                                                                *)
(***************************************************************************)

\* No request waits for ever: once its time is up it is decided or expired, whatever
\* transactions keep taking its lock (expirePending).
ExpiredIsDecided ==
  \A b \in Bookings :
    (status[b] = "PENDING" /\ expiresAt[b] <= clock) ~> status[b] # "PENDING"

(***************************************************************************)
(* Refinement                                                              *)
(***************************************************************************)

Schedule == INSTANCE ItemSchedule WITH
  Slots <- [b \in Bookings |-> [item |-> Item(b), first |-> Request[b].first,
                                 last |-> Request[b].last]],
  Claims <- Bookings, reserved <- Reserved, closed <- periods

\* Concurrent transactions on an item look like single claims and releases of its days
\* made one after another.
ImplementsSchedule == Schedule!ScheduleSpec
=============================================================================
