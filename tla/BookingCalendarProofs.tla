------------------------ MODULE BookingCalendarProofs ------------------------
(***************************************************************************)
(* Theorems about BookingCalendar, for every number of concurrent          *)
(* transactions, every set of users, items and requests, every cap and     *)
(* every time to live: the types, one renter per day, the owner's          *)
(* calendar, the legality of every transition, the caps on live requests,  *)
(* what is recorded and announced, and the absence of deadlock.            *)
(***************************************************************************)
EXTENDS BookingCalendar, FiniteSetTheorems, SequenceTheorems, WellFoundedInduction, TLAPS

-----------------------------------------------------------------------------
(***************************************************************************)
(* Types                                                                   *)
(***************************************************************************)

\* A set of numbers has a least one.
LEMMA LeastNumber ==
  ASSUME NEW S \in SUBSET Nat, S # {}
  PROVE  \E m \in S : \A k \in S : m <= k
<1> DEFINE R == {p \in Nat \X Nat : p[1] < p[2]}
<1>1. IsWellFoundedOn(R, Nat)
  BY NatLessThanWellFounded DEF OpToRel
<1>2. \E m \in S : \A k \in S : <<k, m>> \notin R
  <2> HIDE DEF R
  <2> QED BY <1>1, WFMin, Zenon
<1>3. \A k, m \in S : <<k, m>> \notin R => m <= k
  OBVIOUS
<1> QED BY <1>2, <1>3

\* What a transaction works on: create, confirm and cancel on a booking, blockUser on
\* a pair of users.
Targets ==
  \A s \in Sessions :
    /\ tx[s].command \in {"create", "confirm", "cancel"} => tx[s].booking \in Bookings
    /\ tx[s].command = "block" => tx[s].pair \in Blockers

\* Requests and locks are what their names say.
LEMMA RequestTypes ==
  \A b \in Bookings :
    /\ b \in Nat /\ b # NoBooking
    /\ Borrower(b) \in Users /\ Item(b) \in Items /\ Lender(b) \in Users
    /\ {UserLock(Borrower(b)), ItemLock(Item(b)), BookingLock(b)} \subseteq Locks
<1> SUFFICES ASSUME NEW b \in Bookings
             PROVE  /\ b \in Nat /\ b # NoBooking
                    /\ Borrower(b) \in Users /\ Item(b) \in Items /\ Lender(b) \in Users
                    /\ {UserLock(Borrower(b)), ItemLock(Item(b)), BookingLock(b)} \subseteq Locks
  OBVIOUS
<1>1. b \in Nat /\ b # NoBooking
  BY CalendarAssumption DEF NoBooking
<1>2. Borrower(b) \in Users /\ Item(b) \in Items /\ Lender(b) \in Users
  BY CalendarAssumption DEF Borrower, Item, Lender
<1>3. {UserLock(Borrower(b)), ItemLock(Item(b)), BookingLock(b)} \subseteq Locks
  BY <1>2, Zenon DEF Locks
<1> QED BY <1>1, <1>2, <1>3, Zenon

\* The lock a waiting transaction asks for.
LEMMA NextLocks ==
  ASSUME tx \in [Sessions -> Transaction], Targets, NEW s \in Sessions
  PROVE  LET b == tx[s].booking IN
         /\ tx[s].command = "create" /\ tx[s].held = {} => NextLock(s) = UserLock(Borrower(b))
         /\ tx[s].command = "confirm" /\ tx[s].held = {} => NextLock(s) = BookingLock(b)
         /\ tx[s].command \in {"create", "confirm"} /\ tx[s].held # {}
              => NextLock(s) = ItemLock(Item(b))
         /\ tx[s].command = "block" /\ Unlocked(s) # {}
              => \E c \in Unlocked(s) : NextLock(s) = BookingLock(c)
<1>1. tx[s].command = "create" /\ tx[s].held = {} => NextLock(s) = UserLock(Borrower(tx[s].booking))
  BY DEF NextLock
<1>2. tx[s].command = "confirm" /\ tx[s].held = {} => NextLock(s) = BookingLock(tx[s].booking)
  BY DEF NextLock
<1>3. tx[s].command \in {"create", "confirm"} /\ tx[s].held # {}
        => NextLock(s) = ItemLock(Item(tx[s].booking))
  BY DEF NextLock
<1>4. ASSUME tx[s].command = "block", Unlocked(s) # {}
      PROVE  \E c \in Unlocked(s) : NextLock(s) = BookingLock(c)
  <2>1. Unlocked(s) \subseteq Nat
    BY RequestTypes DEF Unlocked, Transaction
  <2>2. PICK m \in Unlocked(s) : \A d \in Unlocked(s) : m <= d
    BY <1>4, <2>1, LeastNumber
  <2>3. NextLock(s) = BookingLock(CHOOSE c \in Unlocked(s) : \A d \in Unlocked(s) : c <= d)
    BY <1>4 DEF NextLock
  <2>4. (CHOOSE c \in Unlocked(s) : \A d \in Unlocked(s) : c <= d) \in Unlocked(s)
    BY <2>2, Zenon
  <2> QED BY <2>3, <2>4, Zenon
<1> QED BY <1>1, <1>2, <1>3, <1>4

\* A transaction that begins, goes on or ends is well typed.
LEMMA TransactionTypes ==
  /\ Idle \in Transaction
  /\ \A b \in Bookings, now \in Nat, c \in {"create", "confirm"} :
       [Idle EXCEPT !.command = c, !.booking = b, !.now = now] \in Transaction
  /\ \A b \in Bookings, now \in Nat, h \in SUBSET Locks, why \in Reasons, old \in Statuses :
       [Idle EXCEPT !.command = "cancel", !.booking = b, !.now = now, !.ready = TRUE,
                    !.held = h, !.reason = why, !.old = old] \in Transaction
  /\ \A p \in Blockers, now \in Nat, h \in SUBSET Locks, S \in SUBSET Bookings :
       [Idle EXCEPT !.command = "block", !.pair = p, !.now = now, !.held = h,
                    !.seen = S] \in Transaction
  /\ \A t \in Transaction, h \in SUBSET Locks, S \in SUBSET Bookings :
       /\ [t EXCEPT !.held = h] \in Transaction
       /\ [t EXCEPT !.held = h, !.ready = TRUE, !.seen = S] \in Transaction
       /\ [t EXCEPT !.ready = TRUE, !.seen = S] \in Transaction
<1>1. Idle \in Transaction
  BY DEF Idle, Transaction, Reasons, Statuses
<1>2. \A b \in Bookings, now \in Nat, c \in {"create", "confirm"} :
        [Idle EXCEPT !.command = c, !.booking = b, !.now = now] \in Transaction
  BY DEF Idle, Transaction, Reasons, Statuses
<1>3. \A b \in Bookings, now \in Nat, h \in SUBSET Locks, why \in Reasons, old \in Statuses :
        [Idle EXCEPT !.command = "cancel", !.booking = b, !.now = now, !.ready = TRUE,
                     !.held = h, !.reason = why, !.old = old] \in Transaction
  BY ZenonT(60) DEF Idle, Transaction
<1>4. \A p \in Blockers, now \in Nat, h \in SUBSET Locks, S \in SUBSET Bookings :
        [Idle EXCEPT !.command = "block", !.pair = p, !.now = now, !.held = h,
                     !.seen = S] \in Transaction
  BY DEF Idle, Transaction, Reasons, Statuses
<1>5. \A t \in Transaction, h \in SUBSET Locks, S \in SUBSET Bookings :
        /\ [t EXCEPT !.held = h] \in Transaction
        /\ [t EXCEPT !.held = h, !.ready = TRUE, !.seen = S] \in Transaction
        /\ [t EXCEPT !.ready = TRUE, !.seen = S] \in Transaction
  BY DEF Transaction
<1> QED BY <1>1, <1>2, <1>3, <1>4, <1>5

Shape == TypeOK /\ Targets

\* The first state, with no booking yet and no session at work, is well formed.
LEMMA InitShape == Init => Shape
<1> USE CalendarAssumption
<1> SUFFICES ASSUME Init PROVE Shape
  OBVIOUS
<1>1. tx \in [Sessions -> Transaction] /\ Targets
  BY TransactionTypes DEF Init, Targets, Idle
<1>2. /\ status \in [Bookings -> Statuses]
      /\ expiresAt \in [Bookings -> Nat \cup {NoTime}]
      /\ reason \in [Bookings -> Reasons]
      /\ deposit \in [Bookings -> DepositStatuses]
      /\ history \in [Bookings -> Seq(Statuses \X Statuses)]
  BY DEF Init, Statuses, Reasons, DepositStatuses
<1>3. /\ clock \in 0 .. MaxClock
      /\ outbox \subseteq Bookings \X Events
      /\ periods \subseteq Periods
      /\ blocks \subseteq Blockers
  BY DEF Init
<1> QED BY <1>1, <1>2, <1>3 DEF Shape, TypeOK

\* What a command appends to the history is a pair of statuses.
LEMMA HistoryTypes ==
  ASSUME history \in [Bookings -> Seq(Statuses \X Statuses)]
  PROVE  \A S \in SUBSET Bookings, old \in Statuses, new \in Statuses :
           Recorded(S, old, new) \in [Bookings -> Seq(Statuses \X Statuses)]
BY DEF Recorded

\* The writes commands share keep the types.
LEMMA WriteTypes ==
  ASSUME TypeOK, NEW S \in SUBSET Bookings, NEW why \in Reasons
  PROVE  /\ CancelPendingOf(S, why) =>
              /\ status' \in [Bookings -> Statuses]
              /\ reason' \in [Bookings -> Reasons]
              /\ expiresAt' \in [Bookings -> Nat \cup {NoTime}]
         /\ DepositsCancelled(S) \in [Bookings -> DepositStatuses]
BY DEF TypeOK, CancelPendingOf, DepositsCancelled, Statuses, DepositStatuses

\* A step that only changes one transaction keeps the types if the transaction does.
LEMMA SessionStep ==
  ASSUME Shape, NEW s \in Sessions, NEW t \in Transaction,
         tx' = [tx EXCEPT ![s] = t],
         t.command \in {"create", "confirm", "cancel"} => t.booking \in Bookings,
         t.command = "block" => t.pair \in Blockers
  PROVE  tx' \in [Sessions -> Transaction] /\ Targets'
BY DEF Shape, TypeOK, Targets

\* A transaction that ends.
LEMMA EndStep ==
  ASSUME Shape, NEW s \in Sessions, tx' = [tx EXCEPT ![s] = Idle]
  PROVE  tx' \in [Sessions -> Transaction] /\ Targets'
<1>1. Idle \in Transaction /\ Idle.command = "none"
  BY TransactionTypes DEF Idle
<1> QED BY <1>1, SessionStep

\* What the running transaction holds and has read, and what it would ask for.
LEMMA RunningTypes ==
  ASSUME Shape, NEW s \in Sessions
  PROVE  /\ tx[s] \in Transaction
         /\ tx[s].held \in SUBSET Locks /\ tx[s].seen \in SUBSET Bookings /\ tx[s].now \in Nat
         /\ tx[s].command \in {"create", "confirm"} => NextLock(s) \in Locks
         /\ tx[s].command = "block" /\ Unlocked(s) # {} => NextLock(s) \in Locks
<1>1. tx[s] \in Transaction /\ Targets /\ tx \in [Sessions -> Transaction]
  BY DEF Shape, TypeOK
<1>2. tx[s].held \in SUBSET Locks /\ tx[s].seen \in SUBSET Bookings /\ tx[s].now \in Nat
  BY <1>1 DEF Transaction
<1>3. ASSUME tx[s].command \in {"create", "confirm"} PROVE NextLock(s) \in Locks
  <2>1. tx[s].booking \in Bookings
    BY <1>1, <1>3 DEF Targets
  <2>2. \/ NextLock(s) = UserLock(Borrower(tx[s].booking))
        \/ NextLock(s) = BookingLock(tx[s].booking)
        \/ NextLock(s) = ItemLock(Item(tx[s].booking))
    BY <1>1, <1>3, NextLocks
  <2> QED BY <2>1, <2>2, RequestTypes
<1>4. ASSUME tx[s].command = "block", Unlocked(s) # {} PROVE NextLock(s) \in Locks
  <2>1. PICK c \in Unlocked(s) : NextLock(s) = BookingLock(c)
    BY <1>1, <1>4, NextLocks
  <2>2. c \in Bookings
    BY <1>2 DEF Unlocked
  <2> QED BY <2>1, <2>2, RequestTypes
<1> QED BY <1>1, <1>2, <1>3, <1>4

\* The variables of bookings and calendars keep their types.
RowTypes ==
  /\ clock \in 0 .. MaxClock
  /\ status \in [Bookings -> Statuses]
  /\ expiresAt \in [Bookings -> Nat \cup {NoTime}]
  /\ reason \in [Bookings -> Reasons]
  /\ deposit \in [Bookings -> DepositStatuses]
  /\ history \in [Bookings -> Seq(Statuses \X Statuses)]
  /\ outbox \subseteq Bookings \X Events
  /\ periods \subseteq Periods
  /\ blocks \subseteq Blockers

\* Every transaction step keeps the types of the rows it writes.
LEMMA StepRows == Shape /\ [Next]_vars => RowTypes'
<1> SUFFICES ASSUME Shape, [Next]_vars PROVE RowTypes'
  OBVIOUS
<1> USE DEF RowTypes, bookingVars
<1>1. RowTypes /\ TypeOK
  BY DEF Shape, TypeOK
<1>2. ASSUME UNCHANGED <<clock, bookingVars, periods, blocks>> PROVE RowTypes'
  BY <1>1, <1>2
<1>3. clock \in Nat
  BY <1>1
<1> USE <1>1, <1>3
<1>4. ASSUME NEW s \in Sessions, Create(s) PROVE RowTypes'
  <2>1. ASSUME NEW b \in Bookings, BeginCreate(s, b) PROVE RowTypes'
    BY <1>2, <2>1 DEF BeginCreate
  <2>2. ASSUME CountPending(s) PROVE RowTypes'
    BY <1>2, <2>2 DEF CountPending
  <2>3. ASSUME InsertBooking(s) PROVE RowTypes'
    <3>1. tx[s].booking \in Bookings /\ tx[s].now \in Nat
      BY <2>3, RunningTypes DEF InsertBooking, Shape, Targets
    <3>2. CASE ~Bookable(tx[s].booking, tx[s].now)
      BY <1>2, <2>3, <3>2 DEF InsertBooking
    <3>3. CASE Bookable(tx[s].booking, tx[s].now)
      <4>1. status' \in [Bookings -> Statuses] /\ deposit' \in [Bookings -> DepositStatuses]
        BY <2>3, <3>1, <3>3 DEF InsertBooking, Statuses, DepositStatuses
      <4>2. expiresAt' \in [Bookings -> Nat \cup {NoTime}]
        <5>1. tx[s].now + Ttl \in Nat
          BY <3>1, CalendarAssumption
        <5>2. expiresAt' = [expiresAt EXCEPT ![tx[s].booking] = tx[s].now + Ttl]
          BY <2>3, <3>3 DEF InsertBooking
        <5> QED BY <5>1, <5>2
      <4>3. history' \in [Bookings -> Seq(Statuses \X Statuses)]
        <5>1. history' = Recorded({tx[s].booking}, "NONE", "PENDING")
          BY <2>3, <3>3 DEF InsertBooking
        <5>2. {tx[s].booking} \in SUBSET Bookings
          BY <3>1
        <5>3. "NONE" \in Statuses /\ "PENDING" \in Statuses
          BY DEF Statuses
        <5> QED BY <5>1, <5>2, <5>3, HistoryTypes, Zenon
      <4>4. outbox' \subseteq Bookings \X Events
        BY <2>3, <3>1, <3>3 DEF InsertBooking, Events
      <4>5. UNCHANGED <<clock, reason, periods, blocks>>
        BY <2>3, <3>3 DEF InsertBooking
      <4> QED BY <4>1, <4>2, <4>3, <4>4, <4>5
    <3> QED BY <3>2, <3>3
  <2> QED BY <1>4, <2>1, <2>2, <2>3 DEF Create
<1>5. ASSUME NEW s \in Sessions, Confirm(s) PROVE RowTypes'
  <2>1. ASSUME NEW b \in Bookings, BeginConfirm(s, b) PROVE RowTypes'
    BY <1>2, <2>1 DEF BeginConfirm
  <2>2. ASSUME LockConfirmed(s) PROVE RowTypes'
    BY <1>2, <2>2 DEF LockConfirmed
  <2>3. ASSUME CheckConfirm(s) PROVE RowTypes'
    BY <1>2, <2>3 DEF CheckConfirm
  <2>4. ASSUME CommitConfirm(s) PROVE RowTypes'
    <3>1. tx[s].booking \in Bookings /\ tx[s].seen \in SUBSET Bookings
      BY <2>4, RunningTypes DEF CommitConfirm, Shape, Targets
    <3>2. status' \in [Bookings -> Statuses] /\ reason' \in [Bookings -> Reasons]
      BY <2>4 DEF CommitConfirm, Statuses, Reasons
    <3>3. /\ expiresAt' \in [Bookings -> Nat \cup {NoTime}]
          /\ deposit' \in [Bookings -> DepositStatuses]
      BY <2>4, <3>1, WriteTypes DEF CommitConfirm, Reasons
    <3>4. history' \in [Bookings -> Seq(Statuses \X Statuses)]
      <4> DEFINE h(c) == CASE c = tx[s].booking -> Append(history[c], <<"PENDING", "CONFIRMED">>)
                           [] c \in tx[s].seen -> Append(history[c], <<"PENDING", "CANCELLED">>)
                           [] OTHER -> history[c]
      <4>1. <<"PENDING", "CONFIRMED">> \in Statuses \X Statuses
              /\ <<"PENDING", "CANCELLED">> \in Statuses \X Statuses
        BY DEF Statuses
      <4>2. \A c \in Bookings : history[c] \in Seq(Statuses \X Statuses)
        OBVIOUS
      <4>3. ASSUME NEW c \in Bookings PROVE h(c) \in Seq(Statuses \X Statuses)
        <5>1. \A e \in Statuses \X Statuses : Append(history[c], e) \in Seq(Statuses \X Statuses)
          BY <4>2
        <5> QED BY <4>1, <4>2, <5>1
      <4>4. history' = [c \in Bookings |-> h(c)]
        BY <2>4, Zenon DEF CommitConfirm
      <4> QED BY <4>3, <4>4, Zenon
    <3>5. outbox' \subseteq Bookings \X Events
      BY <2>4, <3>1 DEF CommitConfirm, Events
    <3>6. UNCHANGED <<clock, periods, blocks>>
      BY <2>4 DEF CommitConfirm
    <3> QED BY <3>2, <3>3, <3>4, <3>5, <3>6
  <2> QED BY <1>5, <2>1, <2>2, <2>3, <2>4 DEF Confirm
<1>6. ASSUME NEW s \in Sessions, Cancel(s) PROVE RowTypes'
  <2>1. ASSUME NEW b \in Bookings, NEW why \in {"BORROWER_CANCELLED", "LENDER_DECLINED"},
               ReadCancelled(s, b, why)
        PROVE  RowTypes'
    BY <1>2, <2>1 DEF ReadCancelled
  <2>2. ASSUME CommitCancel(s) PROVE RowTypes'
    <3>1. tx[s].booking \in Bookings /\ tx[s].reason \in Reasons /\ tx[s].old \in Statuses
      BY <2>2, RunningTypes DEF CommitCancel, Shape, Targets, Transaction
    <3>2. /\ status' \in [Bookings -> Statuses] /\ reason' \in [Bookings -> Reasons]
          /\ expiresAt' \in [Bookings -> Nat \cup {NoTime}]
      BY <2>2, <3>1 DEF CommitCancel, Statuses
    <3>3. deposit' \in [Bookings -> DepositStatuses]
      BY <2>2, <3>1 DEF CommitCancel, DepositStatuses
    <3>4. history' \in [Bookings -> Seq(Statuses \X Statuses)]
      <4>1. history' = Recorded({tx[s].booking}, tx[s].old, "CANCELLED")
        BY <2>2 DEF CommitCancel
      <4>2. {tx[s].booking} \in SUBSET Bookings
        BY <3>1
      <4>3. "CANCELLED" \in Statuses
        BY DEF Statuses
      <4> QED BY <3>1, <4>1, <4>2, <4>3, HistoryTypes, Zenon
    <3>5. outbox' \subseteq Bookings \X Events
      BY <2>2, <3>1 DEF CommitCancel, Events
    <3>6. UNCHANGED <<clock, periods, blocks>>
      BY <2>2 DEF CommitCancel
    <3> QED BY <3>2, <3>3, <3>4, <3>5, <3>6
  <2> QED BY <1>6, <2>1, <2>2 DEF Cancel
<1>7. ASSUME NEW s \in Sessions, Block(s) PROVE RowTypes'
  <2>1. ASSUME NEW p \in Blockers, BeginBlock(s, p) PROVE RowTypes'
    BY <1>2, <2>1 DEF BeginBlock
  <2>2. ASSUME LockCandidate(s) PROVE RowTypes'
    BY <1>2, <2>2 DEF LockCandidate
  <2>3. ASSUME ReadCandidates(s) PROVE RowTypes'
    BY <1>2, <2>3 DEF ReadCandidates
  <2>4. ASSUME CommitBlock(s) PROVE RowTypes'
    <3>1. tx[s].pair \in Blockers /\ tx[s].seen \in SUBSET Bookings
      BY <2>4, RunningTypes DEF CommitBlock, Shape, Targets
    <3>2. /\ status' \in [Bookings -> Statuses] /\ reason' \in [Bookings -> Reasons]
          /\ expiresAt' \in [Bookings -> Nat \cup {NoTime}]
      <4>1. CancelPendingOf(tx[s].seen, "PARTICIPANT_BLOCKED")
        BY <2>4 DEF CommitBlock
      <4> QED BY <3>1, <4>1, WriteTypes DEF Reasons
    <3>3. history' \in [Bookings -> Seq(Statuses \X Statuses)]
      <4>1. history' = Recorded(tx[s].seen, "PENDING", "CANCELLED")
        BY <2>4 DEF CommitBlock
      <4>2. "PENDING" \in Statuses /\ "CANCELLED" \in Statuses
        BY DEF Statuses
      <4> QED BY <3>1, <4>1, <4>2, HistoryTypes, Zenon
    <3>4. outbox' \subseteq Bookings \X Events
      BY <2>4, <3>1 DEF CommitBlock, Events
    <3>5. blocks' \subseteq Blockers /\ UNCHANGED <<clock, deposit, periods>>
      BY <2>4, <3>1 DEF CommitBlock
    <3> QED BY <3>2, <3>3, <3>4, <3>5
  <2> QED BY <1>7, <2>1, <2>2, <2>3, <2>4 DEF Block
<1>8. ASSUME NEW s \in Sessions, Abort(s) PROVE RowTypes'
  BY <1>2, <1>8 DEF Abort
<1>9. ASSUME NEW p \in Blockers, Unblock(p) PROVE RowTypes'
  BY <1>9 DEF Unblock
<1>10. ASSUME NEW b \in Bookings, Expire(b) PROVE RowTypes'
  <2>1. /\ status' \in [Bookings -> Statuses] /\ reason' \in [Bookings -> Reasons]
        /\ expiresAt' \in [Bookings -> Nat \cup {NoTime}]
    <3>1. CancelPendingOf({b}, "PENDING_TIMEOUT")
      BY <1>10 DEF Expire
    <3> QED BY <3>1, WriteTypes DEF Reasons
  <2>2. deposit' \in [Bookings -> DepositStatuses]
    BY <1>10, WriteTypes DEF Expire, Reasons
  <2>3. history' \in [Bookings -> Seq(Statuses \X Statuses)]
    <3>1. history' = Recorded({b}, "PENDING", "CANCELLED")
      BY <1>10 DEF Expire
    <3>2. {b} \in SUBSET Bookings
      OBVIOUS
    <3>3. "PENDING" \in Statuses /\ "CANCELLED" \in Statuses
      BY DEF Statuses
    <3> QED BY <3>1, <3>2, <3>3, HistoryTypes, Zenon
  <2>4. outbox' \subseteq Bookings \X Events /\ UNCHANGED <<clock, periods, blocks>>
    BY <1>10 DEF Expire, Events
  <2> QED BY <2>1, <2>2, <2>3, <2>4
<1>11. ASSUME NEW b \in Bookings, Rental(b) PROVE RowTypes'
  <2>1. ASSUME NEW from \in Statuses, NEW to \in Statuses, NEW event \in Events,
               Advance(b, from, to, event)
        PROVE  /\ status' \in [Bookings -> Statuses]
               /\ history' \in [Bookings -> Seq(Statuses \X Statuses)]
               /\ outbox' \subseteq Bookings \X Events
               /\ UNCHANGED <<clock, expiresAt, reason, periods, blocks>>
    <3>1. history' = Recorded({b}, from, to)
      BY <2>1 DEF Advance
    <3>2. history' \in [Bookings -> Seq(Statuses \X Statuses)]
      <4>1. {b} \in SUBSET Bookings
        OBVIOUS
      <4> QED BY <3>1, <4>1, HistoryTypes, Zenon
    <3>3. status' \in [Bookings -> Statuses] /\ outbox' \subseteq Bookings \X Events
      BY <2>1 DEF Advance
    <3>4. UNCHANGED <<clock, expiresAt, reason, periods, blocks>>
      BY <2>1 DEF Advance
    <3> QED BY <3>2, <3>3, <3>4, Zenon
  <2>2. ASSUME HoldDeposit(b) PROVE RowTypes'
    BY <2>2 DEF HoldDeposit, DepositStatuses
  <2>3. ASSUME Handover(b) PROVE RowTypes'
    BY <2>1, <2>3 DEF Handover, Statuses, Events
  <2>4. ASSUME Return(b) PROVE RowTypes'
    BY <2>1, <2>4 DEF Return, Statuses, Events
  <2>5. ASSUME ReturnAndComplete(b) PROVE RowTypes'
    <3>1. history' \in [Bookings -> Seq(Statuses \X Statuses)]
      <4>1. <<<<"ACTIVE", "RETURNED">>, <<"RETURNED", "COMPLETED">>>> \in Seq(Statuses \X Statuses)
        BY DEF Statuses
      <4>2. \A h \in Seq(Statuses \X Statuses) :
              h \o <<<<"ACTIVE", "RETURNED">>, <<"RETURNED", "COMPLETED">>>> \in Seq(Statuses \X Statuses)
        BY <4>1
      <4>3. history' = [history EXCEPT ![b] =
                          @ \o <<<<"ACTIVE", "RETURNED">>, <<"RETURNED", "COMPLETED">>>>]
        BY <2>5 DEF ReturnAndComplete
      <4> QED BY <4>2, <4>3
    <3>2. status' \in [Bookings -> Statuses] /\ outbox' \subseteq Bookings \X Events
      BY <2>5 DEF ReturnAndComplete, Statuses, Events
    <3>3. UNCHANGED <<clock, expiresAt, reason, deposit, periods, blocks>>
      BY <2>5 DEF ReturnAndComplete
    <3> QED BY <3>1, <3>2, <3>3
  <2>6. ASSUME Complete(b) PROVE RowTypes'
    <3>1. deposit' \in [Bookings -> DepositStatuses]
      BY <2>6 DEF Complete, DepositStatuses
    <3>2. Advance(b, "RETURNED", "COMPLETED", "COMPLETED")
      BY <2>6 DEF Complete
    <3>3. "RETURNED" \in Statuses /\ "COMPLETED" \in Statuses /\ "COMPLETED" \in Events
      BY DEF Statuses, Events
    <3> QED BY <2>1, <3>1, <3>2, <3>3
  <2> QED BY <1>11, <2>2, <2>3, <2>4, <2>5, <2>6 DEF Rental
<1>12. ASSUME NEW p \in Periods, ClosePeriod(p) \/ OpenPeriod(p) PROVE RowTypes'
  BY <1>12 DEF ClosePeriod, OpenPeriod
<1>13. ASSUME Tick PROVE RowTypes'
  BY <1>13, CalendarAssumption DEF Tick
<1>14. ASSUME UNCHANGED vars PROVE RowTypes'
  BY <1>2, <1>14 DEF vars
<1> QED BY <1>4, <1>5, <1>6, <1>7, <1>8, <1>9, <1>10, <1>11, <1>12, <1>13, <1>14 DEF Next

\* The transactions keep their types.
LEMMA StepSessions == Shape /\ [Next]_vars => tx' \in [Sessions -> Transaction] /\ Targets'
<1> DEFINE Sound == tx' \in [Sessions -> Transaction] /\ Targets'
<1> SUFFICES ASSUME Shape, [Next]_vars PROVE Sound
  OBVIOUS
<1>1. tx \in [Sessions -> Transaction] /\ Targets /\ clock \in Nat
  BY DEF Shape, TypeOK
<1>2. ASSUME UNCHANGED tx PROVE Sound
  BY <1>1, <1>2 DEF Targets
<1>3. ASSUME NEW s \in Sessions, tx' = [tx EXCEPT ![s] = Idle] PROVE Sound
  BY <1>3, EndStep
<1> HIDE DEF Sound
<1>4. ASSUME NEW s \in Sessions, NEW h \in SUBSET Locks, NEW S \in SUBSET Bookings, NEW t,
             tx' = [tx EXCEPT ![s] = t],
             \/ t = [tx[s] EXCEPT !.held = h]
             \/ t = [tx[s] EXCEPT !.held = h, !.ready = TRUE, !.seen = S]
             \/ t = [tx[s] EXCEPT !.ready = TRUE, !.seen = S]
      PROVE  Sound
  <2>1. tx[s] \in Transaction
    BY <1>1
  <2>2. /\ [tx[s] EXCEPT !.held = h] \in Transaction
        /\ [tx[s] EXCEPT !.held = h, !.ready = TRUE, !.seen = S] \in Transaction
        /\ [tx[s] EXCEPT !.ready = TRUE, !.seen = S] \in Transaction
    BY <2>1, TransactionTypes, Zenon
  <2>3. t \in Transaction
    BY <1>4, <2>2, Zenon
  <2>4. t.command = tx[s].command /\ t.booking = tx[s].booking /\ t.pair = tx[s].pair
    BY <1>4, <2>1 DEF Transaction
  <2> QED BY <1>1, <1>4, <2>3, <2>4, SessionStep DEF Sound, Targets
<1>5. ASSUME NEW s \in Sessions, Create(s) PROVE Sound
  <2>1. ASSUME NEW b \in Bookings, BeginCreate(s, b) PROVE Sound
    <3> DEFINE t == [Idle EXCEPT !.command = "create", !.booking = b, !.now = clock]
    <3>1. t \in Transaction
      BY <1>1, TransactionTypes
    <3>2. t.command = "create" /\ t.booking = b
      BY DEF Idle
    <3>3. tx' = [tx EXCEPT ![s] = t]
      BY <2>1 DEF BeginCreate
    <3> QED BY <3>1, <3>2, <3>3, SessionStep DEF Sound
  <2>2. ASSUME CountPending(s) PROVE Sound
    <3>1. {NextLock(s)} \in SUBSET Locks
      BY <2>2, RunningTypes DEF CountPending
    <3>2. CASE tx' = [tx EXCEPT ![s] = Idle]
      BY <1>3, <3>2
    <3>3. CASE tx' = [tx EXCEPT ![s] = [tx[s] EXCEPT !.held = {NextLock(s)}]]
      BY <1>4, <3>1, <3>3
    <3> QED BY <1>1, <2>2, <3>2, <3>3 DEF CountPending
  <2>3. ASSUME InsertBooking(s) PROVE Sound
    BY <1>3, <2>3 DEF InsertBooking
  <2> QED BY <1>5, <2>1, <2>2, <2>3 DEF Create
<1>6. ASSUME NEW s \in Sessions, Confirm(s) PROVE Sound
  <2>1. ASSUME NEW b \in Bookings, BeginConfirm(s, b) PROVE Sound
    <3> DEFINE t == [Idle EXCEPT !.command = "confirm", !.booking = b, !.now = clock]
    <3>1. t \in Transaction
      BY <1>1, TransactionTypes
    <3>2. t.command = "confirm" /\ t.booking = b
      BY DEF Idle
    <3>3. tx' = [tx EXCEPT ![s] = t]
      BY <2>1 DEF BeginConfirm
    <3> QED BY <3>1, <3>2, <3>3, SessionStep DEF Sound
  <2>2. ASSUME LockConfirmed(s) PROVE Sound
    <3>1. {NextLock(s)} \in SUBSET Locks
      BY <2>2, RunningTypes DEF LockConfirmed
    <3>2. tx' = [tx EXCEPT ![s] = [tx[s] EXCEPT !.held = {NextLock(s)}]]
      BY <1>1, <2>2 DEF LockConfirmed
    <3> QED BY <1>4, <3>1, <3>2
  <2>3. ASSUME CheckConfirm(s) PROVE Sound
    <3> DEFINE h == tx[s].held \cup {NextLock(s)}
               S == Competitors(tx[s].booking, tx[s].now)
    <3>1. h \in SUBSET Locks
      BY <2>3, RunningTypes DEF CheckConfirm
    <3>2. S \in SUBSET Bookings
      BY DEF Competitors, LivePending
    <3> DEFINE t == [tx[s] EXCEPT !.held = h, !.ready = TRUE, !.seen = S]
    <3>3. tx' = [tx EXCEPT ![s] = t] \/ tx' = [tx EXCEPT ![s] = Idle]
      BY <1>1, <2>3 DEF CheckConfirm
    <3>4. ASSUME tx' = [tx EXCEPT ![s] = t] PROVE Sound
      <4> HIDE DEF h, S
      <4> QED BY <1>4, <3>1, <3>2, <3>4
    <3> HIDE DEF t
    <3> QED BY <1>3, <3>3, <3>4, Zenon
  <2>4. ASSUME CommitConfirm(s) PROVE Sound
    BY <1>3, <2>4 DEF CommitConfirm
  <2> QED BY <1>6, <2>1, <2>2, <2>3, <2>4 DEF Confirm
<1>7. ASSUME NEW s \in Sessions, Cancel(s) PROVE Sound
  <2>1. ASSUME NEW b \in Bookings, NEW why \in {"BORROWER_CANCELLED", "LENDER_DECLINED"},
               ReadCancelled(s, b, why)
        PROVE  Sound
    <3> DEFINE t == [Idle EXCEPT !.command = "cancel", !.booking = b, !.now = clock,
                                 !.ready = TRUE, !.held = {BookingLock(b)}, !.reason = why,
                                 !.old = status[b]]
    <3>1. /\ {BookingLock(b)} \in SUBSET Locks /\ why \in Reasons /\ status[b] \in Statuses
      BY RequestTypes DEF Shape, TypeOK, Reasons
    <3>2. t \in Transaction
      BY <1>1, <3>1, TransactionTypes
    <3>3. t.command = "cancel" /\ t.booking = b
      BY DEF Idle
    <3>4. tx' = [tx EXCEPT ![s] = t]
      BY <2>1 DEF ReadCancelled
    <3> QED BY <3>2, <3>3, <3>4, SessionStep DEF Sound
  <2>2. ASSUME CommitCancel(s) PROVE Sound
    BY <1>3, <2>2 DEF CommitCancel
  <2> QED BY <1>7, <2>1, <2>2 DEF Cancel
<1>8. ASSUME NEW s \in Sessions, Block(s) PROVE Sound
  <2>1. ASSUME NEW p \in Blockers, BeginBlock(s, p) PROVE Sound
    <3> DEFINE S == {b \in LivePending(clock) : Between(b, p)}
               t == [Idle EXCEPT !.command = "block", !.pair = p, !.now = clock,
                                 !.held = {PairLock(p)}, !.seen = S]
    <3>1. S \in SUBSET Bookings
      BY DEF LivePending
    <3>2. {PairLock(p)} \in SUBSET Locks
      <4>1. p \in Users \X Users
        BY CalendarAssumption
      <4> QED BY <4>1, Zenon DEF Locks
    <3>3. t \in Transaction /\ t.command = "block" /\ t.pair = p
      <4> HIDE DEF S
      <4>1. t \in Transaction
        BY <1>1, <3>1, <3>2, TransactionTypes
      <4>2. t.command = "block" /\ t.pair = p
        BY DEF Idle
      <4> QED BY <4>1, <4>2
    <3>4. tx' = [tx EXCEPT ![s] = t]
      BY <2>1 DEF BeginBlock
    <3> QED BY <3>3, <3>4, SessionStep DEF Sound
  <2>2. ASSUME LockCandidate(s) PROVE Sound
    <3> DEFINE h == tx[s].held \cup {NextLock(s)}
    <3>1. h \in SUBSET Locks
      BY <2>2, RunningTypes DEF LockCandidate
    <3>2. tx' = [tx EXCEPT ![s] = [tx[s] EXCEPT !.held = h]]
      BY <1>1, <2>2 DEF LockCandidate
    <3> HIDE DEF h
    <3> QED BY <1>4, <3>1, <3>2
  <2>3. ASSUME ReadCandidates(s) PROVE Sound
    <3> DEFINE S == tx[s].seen \cap LivePending(tx[s].now)
    <3>1. S \in SUBSET Bookings /\ tx[s].held \in SUBSET Locks
      BY RunningTypes
    <3>2. tx' = [tx EXCEPT ![s] = [tx[s] EXCEPT !.ready = TRUE, !.seen = S]]
      BY <1>1, <2>3 DEF ReadCandidates
    <3> HIDE DEF S
    <3> QED BY <1>4, <3>1, <3>2
  <2>4. ASSUME CommitBlock(s) PROVE Sound
    BY <1>3, <2>4 DEF CommitBlock
  <2> QED BY <1>8, <2>1, <2>2, <2>3, <2>4 DEF Block
<1>9. ASSUME NEW s \in Sessions, Abort(s) PROVE Sound
  BY <1>3, <1>9 DEF Abort
<1>10. ASSUME NEW p \in Blockers, Unblock(p) PROVE Sound
  BY <1>2, <1>10 DEF Unblock
<1>11. ASSUME NEW b \in Bookings, Expire(b) \/ Rental(b) PROVE Sound
  BY <1>2, <1>11
     DEF Expire, Rental, HoldDeposit, Handover, Return, ReturnAndComplete, Complete, Advance
<1>12. ASSUME NEW p \in Periods, ClosePeriod(p) \/ OpenPeriod(p) PROVE Sound
  BY <1>2, <1>12 DEF ClosePeriod, OpenPeriod
<1>13. ASSUME Tick \/ UNCHANGED vars PROVE Sound
  BY <1>2, <1>13 DEF Tick, vars
<1> QED BY <1>5, <1>6, <1>7, <1>8, <1>9, <1>10, <1>11, <1>12, <1>13 DEF Next

\* Every transaction step keeps rows and sessions well formed.
LEMMA StepShape == Shape /\ [Next]_vars => Shape'
BY StepRows, StepSessions DEF Shape, TypeOK, RowTypes

\* Every variable keeps its type under all commands of bookings, calendar and blocks
\* (BookingService, BookingExpiryService, BookingAvailabilityService, blockUser).
THEOREM TypeCorrect == Spec => []TypeOK
<1>1. Shape => TypeOK
  BY DEF Shape
<1> QED BY <1>1, InitShape, StepShape, PTL DEF Spec

-----------------------------------------------------------------------------
(***************************************************************************)
(* What a transaction relies on between its reads and its writes           *)
(***************************************************************************)

Exclusive == \A r, s \in Sessions : r # s => tx[r].held \cap tx[s].held = {}

\* The locks a transaction holds keep true what it has read and will write by.
Relied(s) ==
  LET b == tx[s].booking IN
  /\ tx[s].command = "create" /\ tx[s].held # {} =>
       UserLock(Borrower(b)) \in tx[s].held /\ status[b] = "NONE"
  /\ tx[s].command = "confirm" /\ tx[s].held # {} => BookingLock(b) \in tx[s].held
  /\ tx[s].command = "confirm" /\ tx[s].ready =>
       /\ {BookingLock(b), ItemLock(Item(b))} \subseteq tx[s].held
       /\ Confirmable(b, tx[s].now)
       /\ \A c \in tx[s].seen : c # b /\ Item(c) = Item(b)
  /\ tx[s].command = "cancel" =>
       BookingLock(b) \in tx[s].held /\ status[b] \in {"PENDING", "CONFIRMED", "CANCELLED"}
  /\ tx[s].command = "block" /\ tx[s].ready =>
       \A c \in tx[s].seen : BookingLock(c) \in tx[s].held

\* No transaction is older than its timeout.
Recent == \A s \in Sessions : tx[s] # Idle => tx[s].now <= clock /\ clock - tx[s].now <= MaxWait

Guarded ==
  /\ Shape
  /\ Exclusive
  /\ \A s \in Sessions : Relied(s)
  /\ Recent
  /\ NoDoubleBooking
  /\ CalendarRespected

\* A transaction that takes only free locks leaves the locks exclusive.
LEMMA ExclusiveKept ==
  ASSUME Shape, Exclusive, NEW s \in Sessions, NEW t,
         tx' = [tx EXCEPT ![s] = t],
         \A k \in t.held : k \in tx[s].held \/ Free(k)
  PROVE  Exclusive'
<1>1. tx \in [Sessions -> Transaction]
  BY DEF Shape, TypeOK
<1>2. tx'[s] = t /\ \A r \in Sessions \ {s} : tx'[r] = tx[r]
  BY <1>1
<1>3. \A r \in Sessions \ {s} : tx[r].held \cap t.held = {}
  BY DEF Exclusive, Free
<1>4. ASSUME NEW q \in Sessions, NEW r \in Sessions, q # r
      PROVE  tx'[q].held \cap tx'[r].held = {}
  <2>1. CASE q # s /\ r # s
    BY <1>2, <1>4, <2>1 DEF Exclusive
  <2>2. CASE q = s
    BY <1>2, <1>3, <1>4, <2>2
  <2>3. CASE r = s
    BY <1>2, <1>3, <1>4, <2>3
  <2> QED BY <2>1, <2>2, <2>3
<1> QED BY <1>4 DEF Exclusive

\* A transaction that has ended relies on nothing.
LEMMA IdleRelies ==
  ASSUME NEW s \in Sessions, tx'[s] = Idle
  PROVE  Relied(s)'
BY DEF Relied, Idle

\* What others must leave alone for a transaction to go on relying on what it has read.
LEMMA Undisturbed ==
  ASSUME NEW r \in Sessions, Relied(r), tx'[r] = tx[r],
         tx[r].command = "create" /\ tx[r].held # {} =>
           status'[tx[r].booking] = status[tx[r].booking],
         tx[r].command = "confirm" /\ tx[r].ready =>
           LET b == tx[r].booking IN
           /\ status'[b] = status[b] /\ expiresAt'[b] = expiresAt[b]
           /\ \A c \in Reserved' : c \in Reserved \/ Item(c) # Item(b)
           /\ \A p \in periods' : p \in periods \/ p.item # Item(b),
         tx[r].command = "cancel" =>
           status'[tx[r].booking] \in {status[tx[r].booking], "CANCELLED"}
  PROVE  Relied(r)'
<1> DEFINE b == tx[r].booking
<1>1. ASSUME tx[r].command = "confirm", tx[r].ready
      PROVE  /\ {BookingLock(b), ItemLock(Item(b))} \subseteq tx[r].held
             /\ Confirmable(b, tx[r].now)'
             /\ \A c \in tx[r].seen : c # b /\ Item(c) = Item(b)
  <2>1. Confirmable(b, tx[r].now)
    BY <1>1 DEF Relied
  <2>2. ~CalendarConflict(b)'
    BY <1>1, <2>1 DEF Confirmable, CalendarConflict, Overlap, Item
  <2>3. ~ReservedConflict(b)'
    BY <1>1, <2>1 DEF Confirmable, ReservedConflict, Overlap, Item
  <2>4. (status[b] = "PENDING" /\ expiresAt[b] > tx[r].now)'
    BY <1>1, <2>1 DEF Confirmable
  <2> QED BY <1>1, <2>2, <2>3, <2>4 DEF Confirmable, Relied
<1>2. tx[r].command = "create" /\ tx[r].held # {} =>
        UserLock(Borrower(b)) \in tx[r].held /\ status'[b] = "NONE"
  BY DEF Relied
<1>3. tx[r].command = "cancel" =>
        BookingLock(b) \in tx[r].held /\ status'[b] \in {"PENDING", "CONFIRMED", "CANCELLED"}
  BY DEF Relied
<1> QED BY <1>1, <1>2, <1>3 DEF Relied

\* A step that writes bookings whose locks the transaction does not hold, and reserves
\* for no further booking, does not disturb it.
LEMMA LockedWrite ==
  ASSUME NEW r \in Sessions, Relied(r), tx'[r] = tx[r], NEW W \in SUBSET Bookings,
         tx[r].command \in {"create", "confirm", "cancel"} => tx[r].booking \in Bookings,
         \A c \in Bookings \ W : status'[c] = status[c] /\ expiresAt'[c] = expiresAt[c],
         \A c \in W : BookingLock(c) \notin tx[r].held /\ status[c] # "NONE",
         Reserved' \subseteq Reserved, periods' \subseteq periods
  PROVE  Relied(r)'
BY Undisturbed DEF Relied

\* Transactions that begin now, or go on, are as recent as before.
LEMMA RecentKept ==
  ASSUME Shape, Recent, clock' = clock, NEW s \in Sessions, NEW t,
         tx' = [tx EXCEPT ![s] = t],
         t = Idle \/ t.now = clock \/ (t.now = tx[s].now /\ tx[s] # Idle)
  PROVE  Recent'
<1>1. tx \in [Sessions -> Transaction] /\ clock \in Nat /\ 0 <= MaxWait
  BY CalendarAssumption DEF Shape, TypeOK
<1>2. tx'[s] = t /\ \A r \in Sessions \ {s} : tx'[r] = tx[r]
  BY <1>1
<1> QED BY <1>1, <1>2 DEF Recent

\* The calendar stays in order when days are only released and opened.
LEMMA ScheduleKept ==
  ASSUME NoDoubleBooking, CalendarRespected, Reserved' \subseteq Reserved,
         periods' \subseteq periods
  PROVE  NoDoubleBooking' /\ CalendarRespected'
BY DEF NoDoubleBooking, CalendarRespected

Kept ==
  /\ Exclusive' /\ Recent'
  /\ \A r \in Sessions : Relied(r)'
  /\ NoDoubleBooking' /\ CalendarRespected'

\* A step that changes one transaction only.
LEMMA SessionKept ==
  ASSUME Guarded, NEW s \in Sessions, NEW t,
         tx' = [tx EXCEPT ![s] = t],
         UNCHANGED <<clock, bookingVars, periods>>,
         \A k \in t.held : k \in tx[s].held \/ Free(k),
         t = Idle \/ t.now = clock \/ (t.now = tx[s].now /\ tx[s] # Idle),
         Relied(s)'
  PROVE  Kept
<1>1. Exclusive'
  BY ExclusiveKept DEF Guarded
<1>2. Recent'
  BY RecentKept DEF Guarded
<1>3. Reserved' = Reserved
  BY DEF Reserved, bookingVars
<1>4. NoDoubleBooking' /\ CalendarRespected'
  BY <1>3, ScheduleKept DEF Guarded
<1>5. ASSUME NEW r \in Sessions, r # s PROVE Relied(r)'
  <2>1. tx'[r] = tx[r]
    BY <1>5 DEF Guarded, Shape, TypeOK
  <2> QED BY <1>3, <2>1, Undisturbed DEF Guarded, bookingVars
<1> QED BY <1>1, <1>2, <1>4, <1>5 DEF Kept

\* A transaction that ends without writing.
LEMMA RollbackKept ==
  ASSUME Guarded, NEW s \in Sessions, tx' = [tx EXCEPT ![s] = Idle],
         UNCHANGED <<clock, bookingVars, periods>>
  PROVE  Kept
<1>1. tx'[s] = Idle
  BY DEF Guarded, Shape, TypeOK
<1>2. Relied(s)'
  BY <1>1, IdleRelies
<1>3. \A k \in Idle.held : k \in tx[s].held \/ Free(k)
  BY DEF Idle
<1> QED BY <1>2, <1>3, SessionKept, Zenon

\* A transaction that writes and ends: what is left to show is what the others rely
\* on, and the calendar.
LEMMA CommitKept ==
  ASSUME Guarded, NEW s \in Sessions, tx' = [tx EXCEPT ![s] = Idle], clock' = clock,
         \A r \in Sessions \ {s} : tx'[r] = tx[r] => Relied(r)',
         NoDoubleBooking', CalendarRespected'
  PROVE  Kept
<1>1. tx'[s] = Idle /\ \A r \in Sessions \ {s} : tx'[r] = tx[r]
  BY DEF Guarded, Shape, TypeOK
<1>2. Relied(s)'
  BY <1>1, IdleRelies
<1>3. Idle.held = {}
  BY DEF Idle
<1>4. Exclusive' /\ Recent'
  BY <1>3, ExclusiveKept, RecentKept DEF Guarded
<1> QED BY <1>1, <1>2, <1>4 DEF Kept

\* A command that holds the lock of the one booking it writes from beginning to end.
LEMMA SingleWriteKept ==
  ASSUME Guarded, NEW b \in Bookings, Free(BookingLock(b)), UNCHANGED <<clock, tx, periods>>,
         status[b] # "NONE",
         \A c \in Bookings \ {b} : status'[c] = status[c] /\ expiresAt'[c] = expiresAt[c],
         Reserved' \subseteq Reserved
  PROVE  Kept
<1>1. Exclusive' /\ Recent'
  BY DEF Guarded, Exclusive, Recent
<1>2. NoDoubleBooking' /\ CalendarRespected'
  BY ScheduleKept DEF Guarded
<1>3. ASSUME NEW r \in Sessions PROVE Relied(r)'
  <2>1. Relied(r) /\ tx'[r] = tx[r] /\ BookingLock(b) \notin tx[r].held
    BY DEF Guarded, Free
  <2>2. tx[r].command \in {"create", "confirm", "cancel"} => tx[r].booking \in Bookings
    BY DEF Guarded, Shape, Targets
  <2> DEFINE W == {b}
  <2>3. \A c \in W : BookingLock(c) \notin tx[r].held /\ status[c] # "NONE"
    BY <2>1
  <2>4. /\ W \in SUBSET Bookings /\ periods' \subseteq periods
        /\ \A c \in Bookings \ W : status'[c] = status[c] /\ expiresAt'[c] = expiresAt[c]
    OBVIOUS
  <2> HIDE DEF W
  <2> QED BY <2>1, <2>2, <2>3, <2>4, LockedWrite
<1> QED BY <1>1, <1>2, <1>3 DEF Kept

\* The first state is guarded.
LEMMA InitGuarded == Init => Guarded
<1> SUFFICES ASSUME Init PROVE Guarded
  OBVIOUS
<1>1. Exclusive /\ Recent /\ \A s \in Sessions : Relied(s)
  BY DEF Init, Exclusive, Recent, Relied, Idle
<1>2. NoDoubleBooking /\ CalendarRespected
  BY DEF Init, NoDoubleBooking, CalendarRespected, Reserved, Reserving
<1> QED BY <1>1, <1>2, InitShape DEF Guarded

\* Facts about the running transaction that every step below needs.
LEMMA Running ==
  ASSUME Guarded, NEW s \in Sessions
  PROVE  /\ tx \in [Sessions -> Transaction] /\ tx[s] \in Transaction
         /\ tx[s].command \in {"create", "confirm", "cancel"} => tx[s].booking \in Bookings
         /\ tx[s].seen \subseteq Bookings
         /\ tx[s].command # "none" => tx[s] # Idle
         /\ Relied(s)
<1>1. Shape /\ Relied(s)
  BY DEF Guarded
<1>2. tx[s].command # "none" => tx[s] # Idle
  BY DEF Idle
<1>3. tx \in [Sessions -> Transaction] /\ Targets
  BY <1>1 DEF Shape, TypeOK
<1> QED BY <1>1, <1>2, <1>3, RunningTypes DEF Targets

\* What a commit leaves alone: the rows the other transactions rely on.
LEMMA InsertKept ==
  ASSUME Guarded, NEW s \in Sessions, InsertBooking(s)
  PROVE  Kept
<1> DEFINE b == tx[s].booking
<1>1. tx' = [tx EXCEPT ![s] = Idle] /\ UNCHANGED <<clock, periods, blocks>>
  BY DEF InsertBooking
<1>2. CASE UNCHANGED bookingVars
  BY <1>1, <1>2, RollbackKept
<1>3. ASSUME Bookable(b, tx[s].now) PROVE Kept
  <2>1. /\ status' = [status EXCEPT ![b] = "PENDING"]
        /\ expiresAt' = [expiresAt EXCEPT ![b] = tx[s].now + Ttl]
    BY <1>3 DEF InsertBooking
  <2>2. b \in Bookings /\ status[b] = "NONE" /\ UserLock(Borrower(b)) \in tx[s].held
    BY Running DEF InsertBooking, Relied
  <2>3. /\ status \in [Bookings -> Statuses]
        /\ expiresAt \in [Bookings -> Nat \cup {NoTime}]
    BY DEF Guarded, Shape, TypeOK
  <2>4. \A c \in Bookings \ {b} : status'[c] = status[c] /\ expiresAt'[c] = expiresAt[c]
    BY <2>1, <2>3
  <2>5. Reserved' \subseteq Reserved
    BY <2>1, <2>3, <2>4 DEF Reserved, Reserving
  <2>6. ASSUME NEW r \in Sessions \ {s}, tx'[r] = tx[r] PROVE Relied(r)'
    <3>1. Relied(r) /\ (tx[r].command \in {"create", "confirm", "cancel"} => tx[r].booking \in Bookings)
      BY Running
    <3>2. tx[r].command = "create" /\ tx[r].held # {} => tx[r].booking # b
      BY <2>2, <2>6, <3>1 DEF Relied, Guarded, Exclusive
    <3>3. /\ tx[r].command = "cancel" => tx[r].booking # b
          /\ tx[r].command = "confirm" /\ tx[r].ready => tx[r].booking # b
      BY <2>2, <3>1 DEF Relied, Confirmable
    <3>4. tx[r].command \in {"create", "confirm", "cancel"} /\ tx[r].booking # b =>
            /\ status'[tx[r].booking] = status[tx[r].booking]
            /\ expiresAt'[tx[r].booking] = expiresAt[tx[r].booking]
      BY <2>4, <3>1
    <3>5. tx[r].command = "create" /\ tx[r].held # {} =>
            status'[tx[r].booking] = status[tx[r].booking]
      BY <3>2, <3>4
    <3>6. tx[r].command = "cancel" =>
            status'[tx[r].booking] \in {status[tx[r].booking], "CANCELLED"}
      BY <3>3, <3>4
    <3>7. ASSUME tx[r].command = "confirm", tx[r].ready
          PROVE  /\ status'[tx[r].booking] = status[tx[r].booking]
                 /\ expiresAt'[tx[r].booking] = expiresAt[tx[r].booking]
                 /\ Reserved' \subseteq Reserved /\ periods' = periods
      BY <1>1, <2>5, <3>3, <3>4, <3>7
    <3> QED BY <2>6, <3>1, <3>5, <3>6, <3>7, Undisturbed
  <2>7. NoDoubleBooking' /\ CalendarRespected'
    BY <1>1, <2>5, ScheduleKept DEF Guarded
  <2> QED BY <1>1, <2>6, <2>7, CommitKept
<1> QED BY <1>2, <1>3 DEF InsertBooking

\* The heart of the matter: a confirmation reserves days that nobody else has been
\* promised since they were checked, because it has held the item's lock all along.
LEMMA ConfirmKept ==
  ASSUME Guarded, NEW s \in Sessions, CommitConfirm(s)
  PROVE  Kept
<1> DEFINE b == tx[s].booking
           hit == {c \in tx[s].seen : status[c] = "PENDING"}
<1>1. tx' = [tx EXCEPT ![s] = Idle] /\ UNCHANGED <<clock, periods, blocks>>
  BY DEF CommitConfirm
<1>2. /\ b \in Bookings /\ tx[s].seen \subseteq Bookings
      /\ {BookingLock(b), ItemLock(Item(b))} \subseteq tx[s].held
      /\ status[b] = "PENDING" /\ ~CalendarConflict(b) /\ ~ReservedConflict(b)
      /\ \A c \in tx[s].seen : c # b /\ Item(c) = Item(b)
  BY Running DEF CommitConfirm, Relied, Confirmable
<1>3. /\ status'[b] = "CONFIRMED"
      /\ \A c \in hit : status'[c] = "CANCELLED" /\ status[c] = "PENDING"
      /\ \A c \in Bookings \ (hit \cup {b}) : status'[c] = status[c] /\ expiresAt'[c] = expiresAt[c]
  BY <1>2 DEF CommitConfirm
<1>4. Reserved' \subseteq Reserved \cup {b}
  BY <1>2, <1>3 DEF Reserved, Reserving
<1>5. NoDoubleBooking'
  <2>1. ASSUME NEW c \in Reserved, c # b PROVE ~Overlap(Request[c], Request[b])
    BY <1>2, <2>1 DEF ReservedConflict
  <2>2. \A c, d \in Reserved : c # d => ~Overlap(Request[c], Request[d])
    BY DEF Guarded, NoDoubleBooking
  <2>3. \A c, d \in Bookings : Overlap(Request[c], Request[d]) => Overlap(Request[d], Request[c])
    BY DEF Overlap
  <2> QED BY <1>2, <1>4, <2>1, <2>2, <2>3 DEF NoDoubleBooking, Reserved
<1>6. CalendarRespected'
  <2>1. \A p \in periods : \A c \in Reserved : ~Overlap(p, Request[c])
    BY DEF Guarded, CalendarRespected
  <2>2. \A p \in periods : ~Overlap(p, Request[b])
    BY <1>2 DEF CalendarConflict
  <2> QED BY <1>1, <1>4, <2>1, <2>2 DEF CalendarRespected
<1>7. ASSUME NEW r \in Sessions \ {s}, tx'[r] = tx[r] PROVE Relied(r)'
  <2> DEFINE d == tx[r].booking
  <2>1. Relied(r) /\ (tx[r].command \in {"create", "confirm", "cancel"} => d \in Bookings)
    BY Running
  <2>2. tx[s].held \cap tx[r].held = {}
    BY <1>7 DEF Guarded, Exclusive
  <2>3. tx[r].command = "create" /\ tx[r].held # {} => status'[d] = status[d]
    BY <1>2, <1>3, <2>1 DEF Relied
  <2>4. tx[r].command = "cancel" => status'[d] \in {status[d], "CANCELLED"}
    <3>1. tx[r].command = "cancel" => d # b
      BY <1>2, <2>1, <2>2 DEF Relied
    <3> QED BY <1>3, <2>1, <3>1
  <2>5. ASSUME tx[r].command = "confirm", tx[r].ready
        PROVE  /\ status'[d] = status[d] /\ expiresAt'[d] = expiresAt[d]
               /\ \A c \in Reserved' : c \in Reserved \/ Item(c) # Item(d)
    <3>1. BookingLock(d) \in tx[r].held /\ ItemLock(Item(d)) \in tx[r].held
      BY <2>1, <2>5 DEF Relied
    <3>2. Item(d) # Item(b) /\ d # b
      BY <1>2, <2>2, <3>1
    <3>3. d \notin hit
      BY <1>2, <3>2
    <3> QED BY <1>3, <1>4, <2>1, <2>5, <3>2, <3>3
  <2> QED BY <1>1, <1>7, <2>1, <2>3, <2>4, <2>5, Undisturbed
<1> QED BY <1>1, <1>5, <1>6, <1>7, CommitKept

\* A cancellation and a block write only bookings whose locks they hold.
LEMMA CancelKept ==
  ASSUME Guarded, NEW s \in Sessions, CommitCancel(s) \/ CommitBlock(s)
  PROVE  Kept
<1>1. ASSUME NEW W \in SUBSET Bookings, tx' = [tx EXCEPT ![s] = Idle],
             UNCHANGED <<clock, periods>>,
             \A c \in Bookings \ W : status'[c] = status[c] /\ expiresAt'[c] = expiresAt[c],
             \A c \in W : status'[c] = "CANCELLED" /\ status[c] # "NONE"
                            /\ BookingLock(c) \in tx[s].held
      PROVE  Kept
  <2>1. Reserved' \subseteq Reserved /\ periods' \subseteq periods
    BY <1>1 DEF Reserved, Reserving
  <2>2. ASSUME NEW r \in Sessions \ {s}, tx'[r] = tx[r] PROVE Relied(r)'
    <3>1. Relied(r) /\ (tx[r].command \in {"create", "confirm", "cancel"} => tx[r].booking \in Bookings)
      BY Running
    <3>2. \A c \in W : BookingLock(c) \notin tx[r].held /\ status[c] # "NONE"
      BY <1>1, <2>2 DEF Guarded, Exclusive
    <3> QED BY <1>1, <2>1, <2>2, <3>1, <3>2, LockedWrite
  <2>3. NoDoubleBooking' /\ CalendarRespected'
    BY <2>1, ScheduleKept DEF Guarded
  <2> QED BY <1>1, <2>2, <2>3, CommitKept
<1>2. /\ status \in [Bookings -> Statuses]
      /\ expiresAt \in [Bookings -> Nat \cup {NoTime}]
  BY DEF Guarded, Shape, TypeOK
<1>3. CASE CommitCancel(s)
  <2> DEFINE W == {tx[s].booking}
  <2>1. /\ tx[s].booking \in Bookings /\ BookingLock(tx[s].booking) \in tx[s].held
        /\ status[tx[s].booking] # "NONE"
    BY <1>3, Running DEF CommitCancel, Relied
  <2>2. /\ status' = [status EXCEPT ![tx[s].booking] = "CANCELLED"]
        /\ expiresAt' = [expiresAt EXCEPT ![tx[s].booking] = NoTime]
        /\ tx' = [tx EXCEPT ![s] = Idle] /\ UNCHANGED <<clock, periods>>
    BY <1>3 DEF CommitCancel
  <2>3. /\ W \in SUBSET Bookings
        /\ \A c \in Bookings \ W : status'[c] = status[c] /\ expiresAt'[c] = expiresAt[c]
        /\ \A c \in W : status'[c] = "CANCELLED" /\ status[c] # "NONE"
                          /\ BookingLock(c) \in tx[s].held
    BY <1>2, <2>1, <2>2
  <2> HIDE DEF W
  <2> QED BY <1>1, <2>2, <2>3
<1>4. CASE CommitBlock(s)
  <2> DEFINE W == {c \in tx[s].seen : status[c] = "PENDING"}
  <2>1. /\ CancelPendingOf(tx[s].seen, "PARTICIPANT_BLOCKED")
        /\ tx' = [tx EXCEPT ![s] = Idle] /\ UNCHANGED <<clock, periods>>
    BY <1>4 DEF CommitBlock
  <2>2. tx[s].seen \subseteq Bookings /\ \A c \in tx[s].seen : BookingLock(c) \in tx[s].held
    BY <1>4, Running DEF CommitBlock, Relied
  <2>3. /\ W \in SUBSET Bookings
        /\ \A c \in Bookings \ W : status'[c] = status[c] /\ expiresAt'[c] = expiresAt[c]
        /\ \A c \in W : status'[c] = "CANCELLED" /\ status[c] # "NONE"
                          /\ BookingLock(c) \in tx[s].held
    BY <2>1, <2>2 DEF CancelPendingOf
  <2> HIDE DEF W
  <2> QED BY <1>1, <2>1, <2>3
<1> QED BY <1>3, <1>4

\* Expiry and the commands that follow confirmation write one booking under its lock.
LEMMA SingleKept ==
  ASSUME Guarded, NEW b \in Bookings, Expire(b) \/ Rental(b)
  PROVE  Kept
<1>1. /\ status \in [Bookings -> Statuses]
      /\ expiresAt \in [Bookings -> Nat \cup {NoTime}]
  BY DEF Guarded, Shape, TypeOK
<1>2. CASE Expire(b)
  <2>1. /\ \A c \in Bookings \ {b} : status'[c] = status[c] /\ expiresAt'[c] = expiresAt[c]
        /\ Reserved' \subseteq Reserved
    BY <1>2 DEF Expire, CancelPendingOf, Reserved, Reserving
  <2>2. /\ Free(BookingLock(b)) /\ UNCHANGED <<clock, tx, periods>>
        /\ status[b] # "NONE"
    BY <1>2 DEF Expire
  <2> QED BY <2>1, <2>2, SingleWriteKept
<1>3. ASSUME NEW from \in Reserving, NEW to, NEW event, Advance(b, from, to, event)
      PROVE  Kept
  <2>1. /\ Free(BookingLock(b)) /\ UNCHANGED <<clock, tx, periods>>
        /\ status[b] # "NONE" /\ b \in Reserved
    BY <1>3 DEF Advance, Reserved, Reserving
  <2>2. \A c \in Bookings \ {b} : status'[c] = status[c] /\ expiresAt'[c] = expiresAt[c]
    BY <1>1, <1>3 DEF Advance
  <2>3. Reserved' \subseteq Reserved
    BY <2>1, <2>2 DEF Reserved
  <2> QED BY <2>1, <2>2, <2>3, SingleWriteKept
<1>4. CASE HoldDeposit(b)
  <2>1. /\ Free(BookingLock(b)) /\ UNCHANGED <<clock, tx, periods, status, expiresAt>>
        /\ status[b] # "NONE"
    BY <1>4 DEF HoldDeposit
  <2>2. Reserved' \subseteq Reserved
    BY <2>1 DEF Reserved
  <2> QED BY <2>1, <2>2, SingleWriteKept
<1>5. CASE ReturnAndComplete(b)
  <2>1. /\ Free(BookingLock(b)) /\ UNCHANGED <<clock, tx, periods, expiresAt>>
        /\ status[b] = "ACTIVE" /\ status' = [status EXCEPT ![b] = "COMPLETED"]
    BY <1>5 DEF ReturnAndComplete
  <2>2. \A c \in Bookings \ {b} : status'[c] = status[c] /\ expiresAt'[c] = expiresAt[c]
    BY <1>1, <2>1
  <2>3. Reserved' \subseteq Reserved
    BY <1>1, <2>1, <2>2 DEF Reserved, Reserving
  <2> QED BY <2>1, <2>2, <2>3, SingleWriteKept
<1>6. CASE Handover(b) \/ Return(b) \/ Complete(b)
  BY <1>3, <1>6 DEF Handover, Return, Complete, Reserving
<1> QED BY <1>2, <1>4, <1>5, <1>6 DEF Rental

\* The owner closes days of an item only while nobody is confirming a request for it.
LEMMA PeriodKept ==
  ASSUME Guarded, NEW p \in Periods, ClosePeriod(p) \/ OpenPeriod(p)
  PROVE  Kept
<1>1. UNCHANGED <<clock, tx, status, expiresAt>> /\ Free(ItemLock(p.item))
  BY DEF ClosePeriod, OpenPeriod, bookingVars
<1>2. Exclusive' /\ Recent' /\ Reserved' = Reserved
  BY <1>1 DEF Guarded, Exclusive, Recent, Reserved
<1>3. NoDoubleBooking'
  BY <1>2 DEF Guarded, NoDoubleBooking
<1>4. CalendarRespected'
  <2>1. CASE ClosePeriod(p)
    BY <1>2, <2>1 DEF ClosePeriod, Guarded, CalendarRespected, Overlap
  <2>2. CASE OpenPeriod(p)
    BY <1>2, <2>2 DEF OpenPeriod, Guarded, CalendarRespected
  <2> QED BY <2>1, <2>2
<1>5. \A q \in periods' : q \in periods \/ q = p
  BY DEF ClosePeriod, OpenPeriod
<1>6. ASSUME NEW r \in Sessions PROVE Relied(r)'
  <2>1. Relied(r) /\ tx'[r] = tx[r]
    BY <1>1 DEF Guarded
  <2>2. tx[r].command = "confirm" /\ tx[r].ready => p.item # Item(tx[r].booking)
    BY <1>1, <2>1 DEF Relied, Free
  <2> QED BY <1>1, <1>2, <1>5, <2>1, <2>2, Undisturbed
<1> QED BY <1>2, <1>3, <1>4, <1>6 DEF Kept

\* The steps of create and confirm up to their commit: each lock is taken only when it
\* is free, and what is read under it is what the transaction relies on.
LEMMA ReadKept ==
  ASSUME Guarded, NEW s \in Sessions,
         \/ \E b \in Bookings : BeginCreate(s, b) \/ BeginConfirm(s, b)
         \/ CountPending(s) \/ LockConfirmed(s) \/ CheckConfirm(s)
  PROVE  Kept
<1> DEFINE d == tx[s].booking
<1>1. ASSUME NEW b \in Bookings, BeginCreate(s, b) \/ BeginConfirm(s, b) PROVE Kept
  <2>1. PICK c \in {"create", "confirm"} :
          tx' = [tx EXCEPT ![s] = [Idle EXCEPT !.command = c, !.booking = b, !.now = clock]]
    BY <1>1 DEF BeginCreate, BeginConfirm
  <2> DEFINE t == [Idle EXCEPT !.command = c, !.booking = b, !.now = clock]
  <2>2. tx'[s] = t
    BY <2>1, Running
  <2>3. t.held = {} /\ t.now = clock /\ t.command \in {"create", "confirm"} /\ t.ready = FALSE
    BY DEF Idle
  <2>4. Relied(s)'
    BY <2>2, <2>3 DEF Relied
  <2>5. UNCHANGED <<clock, bookingVars, periods>> /\ tx' = [tx EXCEPT ![s] = t]
    BY <1>1, <2>1 DEF BeginCreate, BeginConfirm
  <2> HIDE DEF t
  <2> QED BY <2>3, <2>4, <2>5, SessionKept
<1>2. ASSUME CountPending(s) PROVE Kept
  <2>1. CASE tx' = [tx EXCEPT ![s] = Idle]
    BY <1>2, <2>1, RollbackKept DEF CountPending
  <2>2. ASSUME status[d] = "NONE", tx' = [tx EXCEPT ![s] = [tx[s] EXCEPT !.held = {NextLock(s)}]]
        PROVE  Kept
    <3> DEFINE t == [tx[s] EXCEPT !.held = {NextLock(s)}]
    <3>1. tx'[s] = t /\ tx[s] \in Transaction /\ tx[s] # Idle
      BY <1>2, <2>2, Running DEF CountPending
    <3>2. /\ t.held = {NextLock(s)} /\ t.now = tx[s].now
          /\ t.command = "create" /\ t.booking = d
      BY <1>2, <3>1 DEF CountPending, Transaction
    <3>3. NextLock(s) = UserLock(Borrower(d)) /\ Free(NextLock(s))
      BY <1>2, NextLocks DEF CountPending, Guarded, Shape, TypeOK
    <3>4. UNCHANGED <<clock, bookingVars, periods>>
      BY <1>2 DEF CountPending
    <3>5. Relied(s)'
      BY <2>2, <3>1, <3>2, <3>3, <3>4 DEF Relied, bookingVars
    <3>6. tx' = [tx EXCEPT ![s] = t]
      BY <2>2
    <3> HIDE DEF t
    <3> QED BY <3>1, <3>2, <3>3, <3>4, <3>5, <3>6, SessionKept
  <2> QED BY <1>2, <2>1, <2>2 DEF CountPending
<1>3. ASSUME LockConfirmed(s) PROVE Kept
  <2> DEFINE t == [tx[s] EXCEPT !.held = {NextLock(s)}]
  <2>1. tx' = [tx EXCEPT ![s] = t] /\ tx[s] \in Transaction /\ tx[s] # Idle
    BY <1>3, Running DEF LockConfirmed
  <2>2. /\ t.held = {NextLock(s)} /\ t.now = tx[s].now /\ t.ready = tx[s].ready
        /\ t.command = "confirm" /\ t.booking = d
    BY <1>3, <2>1 DEF LockConfirmed, Transaction
  <2>3. NextLock(s) = BookingLock(d) /\ Free(NextLock(s))
    BY <1>3, NextLocks DEF LockConfirmed, Guarded, Shape, TypeOK
  <2>4. UNCHANGED <<clock, bookingVars, periods>> /\ ~tx[s].ready
    BY <1>3, Running DEF LockConfirmed, Relied
  <2>5. tx'[s] = t
    BY <2>1, Running
  <2>6. Relied(s)'
    BY <2>2, <2>3, <2>4, <2>5 DEF Relied
  <2> HIDE DEF t
  <2> QED BY <2>1, <2>2, <2>3, <2>4, <2>6, SessionKept
<1>4. ASSUME CheckConfirm(s) PROVE Kept
  <2> DEFINE t == [tx[s] EXCEPT !.held = tx[s].held \cup {NextLock(s)}, !.ready = TRUE,
                                !.seen = Competitors(d, tx[s].now)]
  <2>1. \/ tx' = [tx EXCEPT ![s] = Idle]
        \/ Confirmable(d, tx[s].now) /\ tx' = [tx EXCEPT ![s] = t]
    BY <1>4 DEF CheckConfirm
  <2>2. UNCHANGED <<clock, bookingVars, periods>>
    BY <1>4 DEF CheckConfirm
  <2>3. ASSUME Confirmable(d, tx[s].now), tx' = [tx EXCEPT ![s] = t] PROVE Kept
    <3>1. tx[s] \in Transaction /\ tx[s] # Idle /\ tx'[s] = t
      BY <1>4, <2>3, Running DEF CheckConfirm
    <3>2. /\ t.held = tx[s].held \cup {NextLock(s)} /\ t.now = tx[s].now
          /\ t.seen = Competitors(d, tx[s].now)
          /\ t.command = "confirm" /\ t.booking = d
      BY <1>4, <3>1 DEF CheckConfirm, Transaction
    <3>3. NextLock(s) = ItemLock(Item(d)) /\ Free(NextLock(s)) /\ BookingLock(d) \in tx[s].held
      BY <1>4, NextLocks, Running DEF CheckConfirm, Guarded, Shape, TypeOK, Relied
    <3>4. \A c \in Competitors(d, tx[s].now) : c # d /\ Item(c) = Item(d)
      BY DEF Competitors, Overlap, Item
    <3>5. Confirmable(d, tx[s].now)'
      <4>1. tx'[s].booking = d /\ tx'[s].now = tx[s].now
        BY <3>1, <3>2
      <4> QED BY <2>2, <2>3, <4>1
              DEF Confirmable, CalendarConflict, ReservedConflict, Reserved, bookingVars
    <3> HIDE DEF t
    <3>6. Relied(s)'
      BY <3>1, <3>2, <3>3, <3>4, <3>5 DEF Relied
    <3> QED BY <2>2, <2>3, <3>1, <3>2, <3>3, <3>6, SessionKept
  <2> HIDE DEF t
  <2> QED BY <2>1, <2>2, <2>3, RollbackKept
<1> QED BY <1>1, <1>2, <1>3, <1>4

\* The steps of cancel and of a block up to their commit.
LEMMA CancelReadKept ==
  ASSUME Guarded, NEW s \in Sessions,
         \/ \E b \in Bookings, why \in {"BORROWER_CANCELLED", "LENDER_DECLINED"} :
              ReadCancelled(s, b, why)
         \/ \E p \in Blockers : BeginBlock(s, p)
         \/ LockCandidate(s) \/ ReadCandidates(s)
  PROVE  Kept
<1>1. ASSUME NEW b \in Bookings, NEW why, ReadCancelled(s, b, why) PROVE Kept
  <2> DEFINE t == [Idle EXCEPT !.command = "cancel", !.booking = b, !.now = clock,
                               !.ready = TRUE, !.held = {BookingLock(b)}, !.reason = why,
                               !.old = status[b]]
  <2>1. /\ tx' = [tx EXCEPT ![s] = t] /\ Free(BookingLock(b))
        /\ UNCHANGED <<clock, bookingVars, periods>>
        /\ status[b] \in {"PENDING", "CONFIRMED"}
    BY <1>1 DEF ReadCancelled, Cancellable
  <2>2. /\ t.held = {BookingLock(b)} /\ t.now = clock
        /\ t.command = "cancel" /\ t.booking = b
    BY DEF Idle
  <2>3. tx'[s] = t
    BY <2>1, Running
  <2> HIDE DEF t
  <2>4. Relied(s)'
    BY <2>1, <2>2, <2>3 DEF Relied, bookingVars
  <2> QED BY <2>1, <2>2, <2>4, SessionKept
<1>2. ASSUME NEW p \in Blockers, BeginBlock(s, p) PROVE Kept
  <2> DEFINE S == {b \in LivePending(clock) : Between(b, p)}
             t == [Idle EXCEPT !.command = "block", !.pair = p, !.now = clock,
                               !.held = {PairLock(p)}, !.seen = S]
  <2>1. /\ tx' = [tx EXCEPT ![s] = t] /\ Free(PairLock(p))
        /\ UNCHANGED <<clock, bookingVars, periods>>
    BY <1>2 DEF BeginBlock
  <2>2. /\ t.held = {PairLock(p)} /\ t.now = clock
        /\ t.command = "block" /\ t.ready = FALSE
    BY DEF Idle
  <2>3. tx'[s] = t
    BY <2>1, Running
  <2> HIDE DEF t
  <2>4. Relied(s)'
    BY <2>2, <2>3 DEF Relied
  <2> QED BY <2>1, <2>2, <2>4, SessionKept
<1>3. ASSUME LockCandidate(s) PROVE Kept
  <2> DEFINE t == [tx[s] EXCEPT !.held = tx[s].held \cup {NextLock(s)}]
  <2>1. /\ tx' = [tx EXCEPT ![s] = t] /\ Free(NextLock(s))
        /\ UNCHANGED <<clock, bookingVars, periods>> /\ tx[s].command = "block"
    BY <1>3, Running DEF LockCandidate
  <2>2. tx[s] \in Transaction /\ tx[s] # Idle /\ tx'[s] = t
    BY <2>1, Running
  <2>3. /\ t.held = tx[s].held \cup {NextLock(s)} /\ t.now = tx[s].now
        /\ t.command = "block" /\ t.ready = tx[s].ready /\ t.seen = tx[s].seen
    BY <2>1, <2>2 DEF Transaction
  <2> HIDE DEF t
  <2>4. Relied(s)'
    BY <2>1, <2>2, <2>3, Running DEF Relied
  <2> QED BY <2>1, <2>2, <2>3, <2>4, SessionKept
<1>4. ASSUME ReadCandidates(s) PROVE Kept
  <2> DEFINE t == [tx[s] EXCEPT !.ready = TRUE, !.seen = tx[s].seen \cap LivePending(tx[s].now)]
  <2>1. /\ tx' = [tx EXCEPT ![s] = t] /\ Unlocked(s) = {}
        /\ UNCHANGED <<clock, bookingVars, periods>> /\ tx[s].command = "block"
    BY <1>4, Running DEF ReadCandidates
  <2>2. tx[s] \in Transaction /\ tx[s] # Idle /\ tx'[s] = t
    BY <2>1, Running
  <2>3. /\ t.held = tx[s].held /\ t.now = tx[s].now
        /\ t.command = "block" /\ t.seen \subseteq tx[s].seen
    BY <2>1, <2>2 DEF Transaction
  <2> HIDE DEF t
  <2>4. Relied(s)'
    BY <2>1, <2>2, <2>3 DEF Relied, Unlocked
  <2> QED BY <2>1, <2>2, <2>3, <2>4, SessionKept
<1> QED BY <1>1, <1>2, <1>3, <1>4

\* Every transaction step keeps what the open transactions rely on.
LEMMA StepGuarded == Guarded /\ [Next]_vars => Guarded'
<1> SUFFICES ASSUME Guarded, [Next]_vars PROVE Guarded'
  OBVIOUS
<1>1. Shape'
  BY StepShape DEF Guarded
<1>2. ASSUME NEW s \in Sessions, Create(s) PROVE Kept
  BY <1>2, ReadKept, InsertKept DEF Create
<1>3. ASSUME NEW s \in Sessions, Confirm(s) PROVE Kept
  BY <1>3, ReadKept, ConfirmKept DEF Confirm
<1>4. ASSUME NEW s \in Sessions, Cancel(s) PROVE Kept
  BY <1>4, CancelReadKept, CancelKept DEF Cancel
<1>5. ASSUME NEW s \in Sessions, Block(s) PROVE Kept
  BY <1>5, CancelReadKept, CancelKept DEF Block
<1>6. ASSUME NEW s \in Sessions, Abort(s) PROVE Kept
  BY <1>6, RollbackKept DEF Abort
<1>7. ASSUME NEW b \in Bookings, Expire(b) \/ Rental(b) PROVE Kept
  BY <1>7, SingleKept
<1>8. ASSUME NEW p \in Periods, ClosePeriod(p) \/ OpenPeriod(p) PROVE Kept
  BY <1>8, PeriodKept
<1>9. ASSUME UNCHANGED <<tx, status, expiresAt, periods>>, Recent' PROVE Kept
  <2>1. Reserved' = Reserved /\ Exclusive'
    BY <1>9 DEF Reserved, Guarded, Exclusive
  <2>2. NoDoubleBooking' /\ CalendarRespected'
    BY <1>9, <2>1, ScheduleKept DEF Guarded
  <2>3. \A r \in Sessions : Relied(r)'
    BY <1>9, <2>1, Undisturbed DEF Guarded
  <2> QED BY <1>9, <2>1, <2>2, <2>3 DEF Kept
<1>10. ASSUME NEW p \in Blockers, Unblock(p) PROVE Kept
  <2>1. Recent' /\ UNCHANGED <<tx, status, expiresAt, periods>>
    BY <1>10 DEF Unblock, Guarded, Recent, bookingVars
  <2> QED BY <1>9, <2>1
<1>11. ASSUME Tick PROVE Kept
  <2>1. Recent'
    <3>1. clock \in Nat /\ MaxWait \in Nat /\ \A s \in Sessions : tx[s].now \in Nat
      BY CalendarAssumption, RunningTypes DEF Guarded, Shape, TypeOK
    <3> QED BY <1>11, <3>1 DEF Tick, Guarded, Recent
  <2> QED BY <1>9, <1>11, <2>1 DEF Tick, bookingVars
<1>12. ASSUME UNCHANGED vars PROVE Kept
  <2>1. Recent' /\ UNCHANGED <<tx, status, expiresAt, periods>>
    BY <1>12 DEF vars, Guarded, Recent
  <2> QED BY <1>9, <2>1
<1>13. Kept
  BY <1>2, <1>3, <1>4, <1>5, <1>6, <1>7, <1>8, <1>10, <1>11, <1>12 DEF Next
<1> QED BY <1>1, <1>13 DEF Guarded, Kept

\* What every transaction relies on stays true until it writes (the advisory locks of
\* create, confirm, cancelPending and blockUser).
THEOREM AlwaysGuarded == Spec => []Guarded
BY InitGuarded, StepGuarded, PTL DEF Spec

\* One item, one renter: hard reservations of an item never share a day, however many
\* confirmations run at the same time (the check under the item's lock in confirm).
THEOREM OneRenterPerDay == Spec => []NoDoubleBooking
<1>1. Guarded => NoDoubleBooking
  BY DEF Guarded
<1> QED BY <1>1, AlwaysGuarded, PTL

\* No reservation covers a day the owner has closed, and no day is closed under a
\* reservation (BookingAvailabilityService and confirm exclude each other).
THEOREM CalendarKept == Spec => []CalendarRespected
<1>1. Guarded => CalendarRespected
  BY DEF Guarded
<1> QED BY <1>1, AlwaysGuarded, PTL

\* Both together: a day of an item belongs to one renter, or to its owner.
THEOREM CalendarStaysSound == Spec => []CalendarIsSound
<1>1. Guarded => CalendarIsSound
  BY DEF Guarded, CalendarIsSound
<1> QED BY <1>1, AlwaysGuarded, PTL

-----------------------------------------------------------------------------
(***************************************************************************)
(* Transitions                                                             *)
(***************************************************************************)

\* The step formula of LegalMoves.
LegalStep ==
  /\ \A b \in Bookings : status'[b] # status[b] => <<status[b], status'[b]>> \in Moves
  /\ \A b \in Bookings : (status[b] = "PENDING" /\ status'[b] = "CONFIRMED") =>
       expiresAt[b] > clock - MaxWait

\* Cancelling requests that are PENDING, and nothing else, is legal.
LEMMA CancelLegal ==
  ASSUME NEW S, NEW why, CancelPendingOf(S, why)
  PROVE  LegalStep
BY DEF CancelPendingOf, LegalStep, Moves

\* One legal move of one booking, not a confirmation, is legal.
LEMMA MoveLegal ==
  ASSUME status \in [Bookings -> Statuses], NEW b \in Bookings, NEW to,
         status' = [status EXCEPT ![b] = to], to # "CONFIRMED",
         to = status[b] \/ <<status[b], to>> \in Moves
  PROVE  LegalStep
BY DEF LegalStep

\* No transaction step moves a booking outside the transition table.
LEMMA StepLegal == Guarded /\ [Next]_vars => LegalStep
<1> SUFFICES ASSUME Guarded, [Next]_vars PROVE LegalStep
  OBVIOUS
<1>1. status \in [Bookings -> Statuses]
  BY DEF Guarded, Shape, TypeOK
<1>2. ASSUME UNCHANGED status PROVE LegalStep
  BY <1>2 DEF LegalStep
<1>3. ASSUME NEW s \in Sessions, InsertBooking(s) PROVE LegalStep
  <2>1. tx[s].booking \in Bookings /\ status[tx[s].booking] = "NONE"
    BY <1>3, Running DEF InsertBooking, Relied
  <2>2. \/ UNCHANGED status
        \/ status' = [status EXCEPT ![tx[s].booking] = "PENDING"]
    BY <1>3 DEF InsertBooking, bookingVars
  <2> QED BY <1>1, <1>2, <2>1, <2>2, MoveLegal DEF Moves
<1>4. ASSUME NEW s \in Sessions, CommitConfirm(s) PROVE LegalStep
  <2> DEFINE b == tx[s].booking
  <2>1. /\ b \in Bookings /\ status[b] = "PENDING" /\ expiresAt[b] > tx[s].now
    BY <1>4, Running DEF CommitConfirm, Relied, Confirmable
  <2>2. \A c \in Bookings \ {b} :
          status'[c] = status[c] \/ (status[c] = "PENDING" /\ status'[c] = "CANCELLED")
    BY <1>4 DEF CommitConfirm
  <2>3. status'[b] = "CONFIRMED"
    BY <1>4, <2>1 DEF CommitConfirm
  <2>4. clock - tx[s].now <= MaxWait
    BY <1>4, Running DEF CommitConfirm, Guarded, Recent
  <2>5. expiresAt[b] > clock - MaxWait
    <3>1. Shape /\ clock \in Nat /\ MaxWait \in Nat
      BY CalendarAssumption DEF Guarded, Shape, TypeOK
    <3>2. tx[s].now \in Nat
      BY <3>1, RunningTypes
    <3>3. expiresAt[b] \in Nat \cup {NoTime}
      BY <2>1, <3>1 DEF Shape, TypeOK
    <3>4. expiresAt[b] \in Int
      BY <3>3 DEF NoTime
    <3> QED BY <2>1, <2>4, <3>1, <3>2, <3>4
  <2>6. \A c \in Bookings : status'[c] # status[c] => <<status[c], status'[c]>> \in Moves
    BY <2>1, <2>2, <2>3 DEF Moves
  <2>7. \A c \in Bookings : (status[c] = "PENDING" /\ status'[c] = "CONFIRMED") =>
          expiresAt[c] > clock - MaxWait
    BY <2>2, <2>5
  <2> QED BY <2>6, <2>7 DEF LegalStep
<1>5. ASSUME NEW s \in Sessions, CommitCancel(s) PROVE LegalStep
  <2>1. /\ tx[s].booking \in Bookings
        /\ status[tx[s].booking] \in {"PENDING", "CONFIRMED", "CANCELLED"}
    BY <1>5, Running DEF CommitCancel, Relied
  <2>2. status' = [status EXCEPT ![tx[s].booking] = "CANCELLED"]
    BY <1>5 DEF CommitCancel
  <2> QED BY <1>1, <2>1, <2>2, MoveLegal DEF Moves
<1>6. ASSUME NEW s \in Sessions, CommitBlock(s) PROVE LegalStep
  BY <1>6, CancelLegal DEF CommitBlock
<1>7. ASSUME NEW s \in Sessions, Create(s) \/ Confirm(s) \/ Cancel(s) \/ Block(s) \/ Abort(s)
      PROVE  LegalStep
  <2>1. \/ InsertBooking(s) \/ CommitConfirm(s) \/ CommitCancel(s) \/ CommitBlock(s)
        \/ UNCHANGED status
    BY <1>7 DEF Create, Confirm, Cancel, Block, Abort, BeginCreate, CountPending, BeginConfirm,
                LockConfirmed, CheckConfirm, ReadCancelled, BeginBlock, LockCandidate,
                ReadCandidates, bookingVars
  <2> QED BY <1>2, <1>3, <1>4, <1>5, <1>6, <2>1
<1>8. ASSUME NEW b \in Bookings, Expire(b) PROVE LegalStep
  BY <1>8, CancelLegal DEF Expire
<1>9. ASSUME NEW b \in Bookings, Rental(b) PROVE LegalStep
  <2>1. CASE HoldDeposit(b)
    BY <1>2, <2>1 DEF HoldDeposit
  <2>2. CASE ReturnAndComplete(b)
    <3>1. status[b] = "ACTIVE" /\ status' = [status EXCEPT ![b] = "COMPLETED"]
      BY <2>2 DEF ReturnAndComplete
    <3> QED BY <1>1, <3>1, MoveLegal DEF Moves
  <2>3. CASE Handover(b)
    <3>1. status[b] = "CONFIRMED" /\ status' = [status EXCEPT ![b] = "ACTIVE"]
      BY <2>3 DEF Handover, Advance
    <3> QED BY <1>1, <3>1, MoveLegal DEF Moves
  <2>4. CASE Return(b)
    <3>1. status[b] = "ACTIVE" /\ status' = [status EXCEPT ![b] = "RETURNED"]
      BY <2>4 DEF Return, Advance
    <3> QED BY <1>1, <3>1, MoveLegal DEF Moves
  <2>5. CASE Complete(b)
    <3>1. status[b] = "RETURNED" /\ status' = [status EXCEPT ![b] = "COMPLETED"]
      BY <2>5 DEF Complete, Advance
    <3> QED BY <1>1, <3>1, MoveLegal DEF Moves
  <2> QED BY <1>9, <2>1, <2>2, <2>3, <2>4, <2>5 DEF Rental
<1>10. ASSUME NEW p \in Periods, ClosePeriod(p) \/ OpenPeriod(p) PROVE LegalStep
  BY <1>2, <1>10 DEF ClosePeriod, OpenPeriod, bookingVars
<1>11. ASSUME NEW p \in Blockers, Unblock(p) PROVE LegalStep
  BY <1>2, <1>11 DEF Unblock, bookingVars
<1>12. ASSUME Tick \/ UNCHANGED vars PROVE LegalStep
  BY <1>2, <1>12 DEF Tick, vars, bookingVars
<1> QED BY <1>7, <1>8, <1>9, <1>10, <1>11, <1>12 DEF Next

\* Every step moves bookings along the transitions of workflow-contract.ts only, and
\* confirms no request that has been due for longer than a transaction may last, although
\* cancelPending and confirm write a status by id alone.
THEOREM MovesAreLegal == Spec => LegalMoves
<1>1. Guarded /\ [Next]_vars => [LegalStep]_vars
  BY StepLegal
<1>2. [][Next]_vars /\ []Guarded => [][LegalStep]_vars
  BY <1>1, PTL
<1>3. [][LegalStep]_vars => LegalMoves
  BY PTL DEF LegalStep, LegalMoves
<1> QED BY <1>2, <1>3, AlwaysGuarded, PTL DEF Spec

-----------------------------------------------------------------------------
(***************************************************************************)
(* The calendar implements ItemSchedule                                    *)
(***************************************************************************)

ScheduleStep == [Schedule!ScheduleNext]_(Schedule!schedule)

\* A clash of slots is an overlap of requested days.
LEMMA ClashIsOverlap ==
  LET slot(b) == [item |-> Item(b), first |-> Request[b].first, last |-> Request[b].last] IN
  /\ \A b, c : Schedule!Clash(slot(b), slot(c)) <=> Overlap(Request[b], Request[c])
  /\ \A b, p : Schedule!Clash(slot(b), p) <=> Overlap(p, Request[b])
  /\ \A p, q : Schedule!Clash(p, q) <=> Overlap(p, q)
BY DEF Schedule!Clash, Overlap, Item

\* A step that reserves or releases nothing and keeps the calendar is a stutter.
LEMMA ScheduleStutters ==
  ASSUME Reserved' = Reserved, periods' = periods
  PROVE  ScheduleStep
BY DEF ScheduleStep, Schedule!schedule

\* A step that takes one booking off the calendar is a release or a stutter.
LEMMA ScheduleReleases ==
  ASSUME NEW b \in Bookings, periods' = periods,
         \A c \in Bookings \ {b} : c \in Reserved' <=> c \in Reserved,
         b \notin Reserved'
  PROVE  ScheduleStep
<1>1. Reserved \subseteq Bookings /\ Reserved' \subseteq Bookings
  BY DEF Reserved
<1>2. Reserved' = Reserved \ {b}
  BY <1>1
<1>3. CASE b \in Reserved
  BY <1>2, <1>3 DEF ScheduleStep, Schedule!ScheduleNext, Schedule!Release
<1>4. CASE b \notin Reserved
  BY <1>2, <1>4, ScheduleStutters
<1> QED BY <1>3, <1>4

\* Every transaction step makes one move of the schedule, or none.
LEMMA StepSchedules == Guarded /\ [Next]_vars => ScheduleStep
<1> SUFFICES ASSUME Guarded, [Next]_vars PROVE ScheduleStep
  OBVIOUS
<1>1. status \in [Bookings -> Statuses]
  BY DEF Guarded, Shape, TypeOK
<1>2. ASSUME UNCHANGED <<status, periods>> PROVE ScheduleStep
  BY <1>2, ScheduleStutters DEF Reserved
<1>3. ASSUME NEW S, NEW why, CancelPendingOf(S, why), periods' = periods PROVE ScheduleStep
  <2>1. Reserved' = Reserved
    BY <1>3 DEF CancelPendingOf, Reserved, Reserving
  <2> QED BY <1>3, <2>1, ScheduleStutters
<1>4. ASSUME NEW s \in Sessions, InsertBooking(s) PROVE ScheduleStep
  <2>1. tx[s].booking \in Bookings /\ status[tx[s].booking] = "NONE"
    BY <1>4, Running DEF InsertBooking, Relied
  <2>2. status' = status \/ status' = [status EXCEPT ![tx[s].booking] = "PENDING"]
    BY <1>4 DEF InsertBooking, bookingVars
  <2>3. Reserved' = Reserved /\ periods' = periods
    BY <1>1, <1>4, <2>1, <2>2 DEF InsertBooking, Reserved, Reserving
  <2> QED BY <2>3, ScheduleStutters
<1>5. ASSUME NEW s \in Sessions, CommitConfirm(s) PROVE ScheduleStep
  <2> DEFINE b == tx[s].booking
  <2>1. /\ b \in Bookings /\ status[b] = "PENDING"
        /\ ~CalendarConflict(b) /\ ~ReservedConflict(b)
    BY <1>5, Running DEF CommitConfirm, Relied, Confirmable
  <2>2. /\ \A c \in Bookings \ {b} :
             status'[c] = status[c] \/ (status[c] = "PENDING" /\ status'[c] = "CANCELLED")
        /\ status'[b] = "CONFIRMED" /\ periods' = periods
    BY <1>5, <2>1 DEF CommitConfirm
  <2>3. b \notin Reserved /\ Reserved' = Reserved \cup {b}
    BY <2>1, <2>2 DEF Reserved, Reserving
  <2>4. /\ \A c \in Reserved : ~Overlap(Request[b], Request[c])
        /\ \A p \in periods : ~Overlap(p, Request[b])
    BY <2>1, <2>3 DEF ReservedConflict, CalendarConflict, Overlap
  <2>5. Schedule!Accept(b)
    BY <2>1, <2>2, <2>3, <2>4, ClashIsOverlap DEF Schedule!Accept, Reserved
  <2> QED BY <2>1, <2>5 DEF ScheduleStep, Schedule!ScheduleNext
<1>6. ASSUME NEW s \in Sessions, CommitCancel(s) PROVE ScheduleStep
  <2>1. tx[s].booking \in Bookings
    BY <1>6, Running DEF CommitCancel
  <2>2. status' = [status EXCEPT ![tx[s].booking] = "CANCELLED"] /\ periods' = periods
    BY <1>6 DEF CommitCancel
  <2>3. /\ \A c \in Bookings \ {tx[s].booking} : c \in Reserved' <=> c \in Reserved
        /\ tx[s].booking \notin Reserved'
    BY <1>1, <2>1, <2>2 DEF Reserved, Reserving
  <2> QED BY <2>1, <2>2, <2>3, ScheduleReleases
<1>7. ASSUME NEW s \in Sessions, Create(s) \/ Confirm(s) \/ Cancel(s) \/ Block(s) \/ Abort(s)
      PROVE  ScheduleStep
  <2>1. \/ InsertBooking(s) \/ CommitConfirm(s) \/ CommitCancel(s) \/ CommitBlock(s)
        \/ UNCHANGED <<status, periods>>
    BY <1>7 DEF Create, Confirm, Cancel, Block, Abort, BeginCreate, CountPending, BeginConfirm,
                LockConfirmed, CheckConfirm, ReadCancelled, BeginBlock, LockCandidate,
                ReadCandidates, bookingVars
  <2>2. ASSUME CommitBlock(s) PROVE ScheduleStep
    BY <1>3, <2>2 DEF CommitBlock
  <2> QED BY <1>2, <1>4, <1>5, <1>6, <2>1, <2>2
<1>8. ASSUME NEW b \in Bookings, Expire(b) PROVE ScheduleStep
  BY <1>3, <1>8 DEF Expire
<1>9. ASSUME NEW b \in Bookings, Rental(b) PROVE ScheduleStep
  <2>1. ASSUME NEW from \in Reserving, NEW to \in Reserving \cup {"COMPLETED"},
               status[b] = from, status' = [status EXCEPT ![b] = to], periods' = periods
        PROVE  ScheduleStep
    <3>1. \A c \in Bookings \ {b} : c \in Reserved' <=> c \in Reserved
      BY <1>1, <2>1 DEF Reserved
    <3>2. CASE to = "COMPLETED"
      <4>1. b \notin Reserved'
        BY <1>1, <2>1, <3>2 DEF Reserved, Reserving
      <4> QED BY <2>1, <3>1, <4>1, ScheduleReleases
    <3>3. CASE to \in Reserving
      <4>1. Reserved' = Reserved
        BY <1>1, <2>1, <3>3 DEF Reserved
      <4> QED BY <2>1, <4>1, ScheduleStutters
    <3> QED BY <3>2, <3>3
  <2>2. \/ UNCHANGED <<status, periods>>
        \/ \E from \in Reserving, to \in Reserving \cup {"COMPLETED"} :
             status[b] = from /\ status' = [status EXCEPT ![b] = to] /\ periods' = periods
    BY <1>9 DEF Rental, HoldDeposit, Handover, Return, ReturnAndComplete, Complete, Advance, Reserving
  <2> QED BY <1>2, <2>1, <2>2
<1>10. ASSUME NEW p \in Periods, ClosePeriod(p) \/ OpenPeriod(p) PROVE ScheduleStep
  <2>1. Reserved' = Reserved
    BY <1>10 DEF ClosePeriod, OpenPeriod, bookingVars, Reserved
  <2>2. CASE ClosePeriod(p)
    <3>1. /\ \A b \in Reserved : ~Overlap(p, Request[b])
          /\ \A q \in periods : ~Overlap(p, q)
          /\ periods' = periods \cup {p}
      BY <2>2 DEF ClosePeriod, Overlap
    <3>2. Schedule!Close(p)
      BY <2>1, <3>1, ClashIsOverlap DEF Schedule!Close, Reserved
    <3> QED BY <3>2 DEF ScheduleStep, Schedule!ScheduleNext
  <2>3. CASE OpenPeriod(p)
    BY <2>1, <2>3 DEF OpenPeriod, Schedule!Open, ScheduleStep, Schedule!ScheduleNext
  <2> QED BY <1>10, <2>2, <2>3
<1>11. ASSUME NEW p \in Blockers, Unblock(p) PROVE ScheduleStep
  BY <1>2, <1>11 DEF Unblock, bookingVars
<1>12. ASSUME Tick \/ UNCHANGED vars PROVE ScheduleStep
  BY <1>2, <1>12 DEF Tick, vars, bookingVars
<1> QED BY <1>7, <1>8, <1>9, <1>10, <1>11, <1>12 DEF Next

\* Concurrent commands on the calendar look like single claims, releases, closings and
\* openings made one after another (confirm, cancelPending, completion, the owner's periods).
THEOREM CalendarImplementsSchedule == Spec => ImplementsSchedule
<1>1. Init => Schedule!ScheduleInit
  BY DEF Init, Schedule!ScheduleInit, Reserved, Reserving
<1>2. [][Next]_vars /\ []Guarded => [][Schedule!ScheduleNext]_(Schedule!schedule)
  BY StepSchedules, PTL DEF ScheduleStep
<1> QED BY <1>1, <1>2, AlwaysGuarded, PTL DEF Spec, ImplementsSchedule, Schedule!ScheduleSpec

-----------------------------------------------------------------------------
(***************************************************************************)
(* What a step does to one booking: its row, its history, its notices      *)
(***************************************************************************)

\* The last record of the history after the step.
Ends(c, new) ==
  LET h == history'[c] IN h # <<>> /\ h[Len(h)][2] = new

\* The events of a booking after the step.
Announced(c, E) ==
  \A e \in Events : <<c, e>> \in outbox' <=> <<c, e>> \in outbox \/ e \in E

Untouched(c) ==
  /\ status'[c] = status[c] /\ history'[c] = history[c] /\ Announced(c, {})
  /\ status[c] = "PENDING" => expiresAt'[c] = expiresAt[c]

Requested(c, s) ==
  /\ InsertBooking(s) /\ tx[s].booking = c /\ Bookable(c, tx[s].now)
  /\ status[c] = "NONE" /\ status'[c] = "PENDING" /\ expiresAt'[c] = tx[s].now + Ttl
  /\ Ends(c, "PENDING") /\ Announced(c, {"CREATED"})

Chosen(c, s) ==
  /\ CommitConfirm(s) /\ tx[s].booking = c
  /\ status[c] = "PENDING" /\ status'[c] = "CONFIRMED"
  /\ Ends(c, "CONFIRMED") /\ Announced(c, {"CONFIRMED"})

Outdone(c, s) ==
  /\ CommitConfirm(s) /\ c \in tx[s].seen
  /\ status'[c] = IF status[c] = "PENDING" THEN "CANCELLED" ELSE status[c]
  /\ Ends(c, "CANCELLED") /\ Announced(c, {"COMPETING_CANCELLED"})

Withdrawn(c, s) ==
  /\ CommitCancel(s) /\ tx[s].booking = c
  /\ status[c] \in {"PENDING", "CONFIRMED", "CANCELLED"} /\ status'[c] = "CANCELLED"
  /\ Ends(c, "CANCELLED") /\ Announced(c, {"CANCELLED"})

Barred(c, s) ==
  /\ CommitBlock(s) /\ c \in tx[s].seen
  /\ status'[c] = IF status[c] = "PENDING" THEN "CANCELLED" ELSE status[c]
  /\ Ends(c, "CANCELLED") /\ Announced(c, {"CANCELLED"})

TimedOut(c) ==
  /\ status[c] = "PENDING" /\ status'[c] = "CANCELLED"
  /\ Ends(c, "CANCELLED") /\ Announced(c, {"PENDING_TIMEOUT"})

Rented(c) ==
  /\ status[c] \in Reserving /\ status'[c] \in {"ACTIVE", "RETURNED", "COMPLETED"}
  /\ Ends(c, status'[c])
  /\ \E E \in SUBSET {"HANDOVER_CONFIRMED", "RETURN_CONFIRMED", "COMPLETED"} : Announced(c, E)

Fate(c) ==
  \/ Untouched(c)
  \/ \E s \in Sessions : \/ Requested(c, s) \/ Chosen(c, s) \/ Outdone(c, s)
                         \/ Withdrawn(c, s) \/ Barred(c, s)
  \/ TimedOut(c) \/ Rented(c)

\* Writing to the history leaves a last record.
LEMMA Appends ==
  ASSUME history \in [Bookings -> Seq(Statuses \X Statuses)], NEW c \in Bookings,
         NEW old \in Statuses, NEW new \in Statuses,
         history'[c] = Append(history[c], <<old, new>>)
  PROVE  Ends(c, new)
<1>1. history[c] \in Seq(Statuses \X Statuses) /\ <<old, new>> \in Statuses \X Statuses
  OBVIOUS
<1>2. /\ Len(history'[c]) = Len(history[c]) + 1 /\ Len(history[c]) \in Nat
      /\ history'[c][Len(history[c]) + 1] = <<old, new>>
      /\ history'[c] \in Seq(Statuses \X Statuses)
  BY <1>1
<1>3. history'[c] # <<>>
  BY <1>2
<1>4. <<old, new>>[2] = new
  OBVIOUS
<1> QED BY <1>2, <1>3, <1>4 DEF Ends

\* Two records in one step.
LEMMA AppendsTwo ==
  ASSUME NEW T, NEW h \in Seq(T), NEW two \in Seq(T), Len(two) = 2
  PROVE  /\ Len(h \o two) = Len(h) + 2 /\ Len(h) \in Nat
         /\ (h \o two)[Len(h) + 2] = two[2] /\ h \o two \in Seq(T)
<1>1. Len(h) \in Nat
  OBVIOUS
<1>2. Len(h \o two) = Len(h) + Len(two) /\ h \o two \in Seq(T)
  BY ConcatProperties, Zenon
<1>3. \A i \in 1 .. Len(h) + Len(two) :
        (h \o two)[i] = IF i <= Len(h) THEN h[i] ELSE two[i - Len(h)]
  BY ConcatProperties, Zenon
<1> DEFINE n == Len(h)
<1>4. \A f, g : n \in Nat /\ (\A i \in 1 .. n + 2 : f[i] = IF i <= n THEN h[i] ELSE g[i - n])
        => f[n + 2] = g[2]
  <2> HIDE DEF n
  <2> QED OBVIOUS
<1> QED BY <1>1, <1>2, <1>3, <1>4

\* The steps that write bookings.
LEMMA WritingSteps ==
  ASSUME [Next]_vars
  PROVE  \/ \E s \in Sessions : \/ InsertBooking(s) \/ CommitConfirm(s)
                                \/ CommitCancel(s) \/ CommitBlock(s)
         \/ \E b \in Bookings : Expire(b) \/ Rental(b)
         \/ UNCHANGED bookingVars
<1>1. ASSUME NEW s \in Sessions, Create(s) \/ Confirm(s) \/ Cancel(s) \/ Block(s) \/ Abort(s)
      PROVE  \/ InsertBooking(s) \/ CommitConfirm(s) \/ CommitCancel(s) \/ CommitBlock(s)
             \/ UNCHANGED bookingVars
  BY <1>1 DEF Create, Confirm, Cancel, Block, Abort, BeginCreate, CountPending, BeginConfirm,
              LockConfirmed, CheckConfirm, ReadCancelled, BeginBlock, LockCandidate,
              ReadCandidates
<1>2. ASSUME NEW p \in Periods, ClosePeriod(p) \/ OpenPeriod(p) PROVE UNCHANGED bookingVars
  BY <1>2 DEF ClosePeriod, OpenPeriod
<1>3. ASSUME NEW p \in Blockers, Unblock(p) PROVE UNCHANGED bookingVars
  BY <1>3 DEF Unblock
<1>4. ASSUME Tick \/ UNCHANGED vars PROVE UNCHANGED bookingVars
  BY <1>4 DEF Tick, vars, bookingVars
<1> QED BY <1>1, <1>2, <1>3, <1>4 DEF Next

\* A row nobody writes.
LEMMA UntouchedBy ==
  ASSUME NEW c \in Bookings, status'[c] = status[c], expiresAt'[c] = expiresAt[c],
         history'[c] = history[c],
         \A e \in Events : <<c, e>> \in outbox' <=> <<c, e>> \in outbox
  PROVE  Fate(c)
BY DEF Fate, Untouched, Announced

\* create inserts one row.
LEMMA InsertFates ==
  ASSUME Guarded, NEW s \in Sessions, InsertBooking(s), NEW c \in Bookings
  PROVE  Fate(c)
<1> DEFINE b == tx[s].booking
<1>1. CASE UNCHANGED bookingVars
  BY <1>1, UntouchedBy DEF bookingVars
<1>2. ASSUME Bookable(b, tx[s].now) PROVE Fate(c)
  <2>1. /\ status' = [status EXCEPT ![b] = "PENDING"]
        /\ expiresAt' = [expiresAt EXCEPT ![b] = tx[s].now + Ttl]
        /\ history' = Recorded({b}, "NONE", "PENDING")
        /\ outbox' = outbox \cup {<<b, "CREATED">>}
    BY <1>2 DEF InsertBooking
  <2>2. b \in Bookings /\ status[b] = "NONE"
    BY Running DEF InsertBooking, Relied
  <2>3. /\ status \in [Bookings -> Statuses] /\ expiresAt \in [Bookings -> Nat \cup {NoTime}]
        /\ history \in [Bookings -> Seq(Statuses \X Statuses)]
    BY DEF Guarded, Shape, TypeOK
  <2>4. CASE c # b
    BY <2>1, <2>3, <2>4, UntouchedBy DEF Recorded
  <2>5. CASE c = b
    <3>1. status'[c] = "PENDING" /\ expiresAt'[c] = tx[s].now + Ttl
      BY <2>1, <2>3, <2>5
    <3>2. history'[c] = Append(history[c], <<"NONE", "PENDING">>)
      BY <2>1, <2>5 DEF Recorded
    <3>3. Ends(c, "PENDING")
      BY <2>3, <3>2, Appends DEF Statuses
    <3>4. Announced(c, {"CREATED"})
      BY <2>1, <2>5 DEF Announced
    <3>5. Requested(c, s)
      BY <1>2, <2>2, <2>5, <3>1, <3>3, <3>4 DEF Requested
    <3> QED BY <3>5 DEF Fate
  <2> QED BY <2>4, <2>5
<1> QED BY <1>1, <1>2 DEF InsertBooking

\* confirm writes the chosen request and the competitors it has read.
LEMMA ConfirmFates ==
  ASSUME Guarded, NEW s \in Sessions, CommitConfirm(s), NEW c \in Bookings
  PROVE  Fate(c)
<1> DEFINE b == tx[s].booking
           rivals == tx[s].seen
<1>1. b \in Bookings /\ rivals \subseteq Bookings /\ b \notin rivals /\ status[b] = "PENDING"
  BY Running DEF CommitConfirm, Relied, Confirmable
<1>2. history \in [Bookings -> Seq(Statuses \X Statuses)]
  BY DEF Guarded, Shape, TypeOK
<1>3. /\ status' = [d \in Bookings |->
           IF d = b THEN "CONFIRMED"
           ELSE IF d \in rivals /\ status[d] = "PENDING" THEN "CANCELLED" ELSE status[d]]
      /\ expiresAt' = [d \in Bookings |->
           IF d = b \/ (d \in rivals /\ status[d] = "PENDING") THEN NoTime ELSE expiresAt[d]]
      /\ outbox' = outbox \cup {<<b, "CONFIRMED">>} \cup (rivals \X {"COMPETING_CANCELLED"})
  BY DEF CommitConfirm
<1>4. history' = [d \in Bookings |->
        CASE d = b -> Append(history[d], <<"PENDING", "CONFIRMED">>)
          [] d \in rivals -> Append(history[d], <<"PENDING", "CANCELLED">>)
          [] OTHER -> history[d]]
  BY DEF CommitConfirm
<1>5. CASE c = b
  <2>1. history'[c] = Append(history[c], <<"PENDING", "CONFIRMED">>)
    BY <1>1, <1>4, <1>5, Zenon
  <2>2. Ends(c, "CONFIRMED")
    BY <1>2, <2>1, Appends DEF Statuses
  <2>3. Announced(c, {"CONFIRMED"})
    BY <1>1, <1>3, <1>5 DEF Announced
  <2>4. status'[c] = "CONFIRMED"
    BY <1>3, <1>5
  <2>5. Chosen(c, s)
    BY <1>1, <1>5, <2>2, <2>3, <2>4 DEF Chosen
  <2> QED BY <2>5 DEF Fate
<1>6. CASE c \in rivals
  <2>1. history'[c] = Append(history[c], <<"PENDING", "CANCELLED">>)
    BY <1>1, <1>4, <1>6
  <2>2. Ends(c, "CANCELLED")
    BY <1>2, <2>1, Appends DEF Statuses
  <2>3. Announced(c, {"COMPETING_CANCELLED"})
    BY <1>1, <1>3, <1>6 DEF Announced
  <2>4. status'[c] = IF status[c] = "PENDING" THEN "CANCELLED" ELSE status[c]
    BY <1>1, <1>3, <1>6
  <2>5. Outdone(c, s)
    BY <1>6, <2>2, <2>3, <2>4 DEF Outdone
  <2> QED BY <2>5 DEF Fate
<1>7. CASE c # b /\ c \notin rivals
  <2>1. status'[c] = status[c] /\ expiresAt'[c] = expiresAt[c]
    BY <1>3, <1>7
  <2>2. history'[c] = history[c]
    BY <1>4, <1>7
  <2>3. \A e \in Events : <<c, e>> \in outbox' <=> <<c, e>> \in outbox
    BY <1>3, <1>7
  <2> QED BY <2>1, <2>2, <2>3, UntouchedBy
<1> QED BY <1>5, <1>6, <1>7

\* cancel writes the booking it has locked.
LEMMA CancelFates ==
  ASSUME Guarded, NEW s \in Sessions, CommitCancel(s), NEW c \in Bookings
  PROVE  Fate(c)
<1> DEFINE b == tx[s].booking
<1>1. /\ status' = [status EXCEPT ![b] = "CANCELLED"]
      /\ expiresAt' = [expiresAt EXCEPT ![b] = NoTime]
      /\ history' = Recorded({b}, tx[s].old, "CANCELLED")
      /\ outbox' = outbox \cup {<<b, "CANCELLED">>}
  BY DEF CommitCancel
<1>2. /\ b \in Bookings /\ status[b] \in {"PENDING", "CONFIRMED", "CANCELLED"}
      /\ tx[s].old \in Statuses
  BY Running DEF CommitCancel, Relied, Transaction
<1>3. /\ status \in [Bookings -> Statuses] /\ expiresAt \in [Bookings -> Nat \cup {NoTime}]
      /\ history \in [Bookings -> Seq(Statuses \X Statuses)]
  BY DEF Guarded, Shape, TypeOK
<1>4. CASE c # b
  BY <1>1, <1>3, <1>4, UntouchedBy DEF Recorded
<1>5. CASE c = b
  <2>1. history'[c] = Append(history[c], <<tx[s].old, "CANCELLED">>)
    BY <1>1, <1>5 DEF Recorded
  <2>2. Ends(c, "CANCELLED")
    BY <1>2, <1>3, <2>1, Appends DEF Statuses
  <2>3. Announced(c, {"CANCELLED"})
    BY <1>1, <1>5 DEF Announced
  <2>4. status'[c] = "CANCELLED"
    BY <1>1, <1>3, <1>5
  <2>5. Withdrawn(c, s)
    BY <1>2, <1>5, <2>2, <2>3, <2>4 DEF Withdrawn
  <2> QED BY <2>5 DEF Fate
<1> QED BY <1>4, <1>5

\* blockUser writes the requests it has read again.
LEMMA BlockFates ==
  ASSUME Guarded, NEW s \in Sessions, CommitBlock(s), NEW c \in Bookings
  PROVE  Fate(c)
<1> DEFINE S == tx[s].seen
<1>1. /\ status' = [b \in Bookings |->
           IF b \in S /\ status[b] = "PENDING" THEN "CANCELLED" ELSE status[b]]
      /\ expiresAt' = [b \in Bookings |->
           IF b \in S /\ status[b] = "PENDING" THEN NoTime ELSE expiresAt[b]]
      /\ history' = Recorded(S, "PENDING", "CANCELLED")
      /\ outbox' = outbox \cup (S \X {"CANCELLED"})
  BY DEF CommitBlock, CancelPendingOf
<1>2. history \in [Bookings -> Seq(Statuses \X Statuses)]
  BY DEF Guarded, Shape, TypeOK
<1>3. CASE c \notin S
  <2>1. status'[c] = status[c] /\ expiresAt'[c] = expiresAt[c]
    BY <1>1, <1>3
  <2>2. history'[c] = history[c]
    BY <1>1, <1>3 DEF Recorded
  <2>3. \A e \in Events : <<c, e>> \in outbox' <=> <<c, e>> \in outbox
    BY <1>1, <1>3
  <2> QED BY <2>1, <2>2, <2>3, UntouchedBy
<1>4. CASE c \in S
  <2>1. history'[c] = Append(history[c], <<"PENDING", "CANCELLED">>)
    BY <1>1, <1>4 DEF Recorded
  <2>2. Ends(c, "CANCELLED")
    BY <1>2, <2>1, Appends DEF Statuses
  <2>3. Announced(c, {"CANCELLED"})
    BY <1>1, <1>4 DEF Announced
  <2>4. status'[c] = IF status[c] = "PENDING" THEN "CANCELLED" ELSE status[c]
    BY <1>1, <1>4
  <2>5. Barred(c, s)
    BY <1>4, <2>2, <2>3, <2>4 DEF Barred
  <2> QED BY <2>5 DEF Fate
<1> QED BY <1>3, <1>4

\* The cleanup writes the one request whose time is up.
LEMMA ExpireFates ==
  ASSUME Guarded, NEW b \in Bookings, Expire(b), NEW c \in Bookings
  PROVE  Fate(c)
<1>1. /\ status[b] = "PENDING"
      /\ status' = [d \in Bookings |->
           IF d \in {b} /\ status[d] = "PENDING" THEN "CANCELLED" ELSE status[d]]
      /\ expiresAt' = [d \in Bookings |->
           IF d \in {b} /\ status[d] = "PENDING" THEN NoTime ELSE expiresAt[d]]
      /\ history' = Recorded({b}, "PENDING", "CANCELLED")
      /\ outbox' = outbox \cup {<<b, "PENDING_TIMEOUT">>}
  BY DEF Expire, CancelPendingOf
<1>2. history \in [Bookings -> Seq(Statuses \X Statuses)]
  BY DEF Guarded, Shape, TypeOK
<1>3. CASE c # b
  BY <1>1, <1>3, UntouchedBy DEF Recorded
<1>4. CASE c = b
  <2>1. history'[c] = Append(history[c], <<"PENDING", "CANCELLED">>)
    BY <1>1, <1>4 DEF Recorded
  <2>2. Ends(c, "CANCELLED")
    BY <1>2, <2>1, Appends DEF Statuses
  <2>3. Announced(c, {"PENDING_TIMEOUT"})
    BY <1>1, <1>4 DEF Announced
  <2>4. status[c] = "PENDING" /\ status'[c] = "CANCELLED"
    BY <1>1, <1>4
  <2> QED BY <2>2, <2>3, <2>4 DEF Fate, TimedOut
<1> QED BY <1>3, <1>4

\* The rental moves one booking, or only its deposit.
LEMMA RentalFates ==
  ASSUME Guarded, NEW b \in Bookings, Rental(b), NEW c \in Bookings
  PROVE  Fate(c)
<1>1. status \in [Bookings -> Statuses] /\ history \in [Bookings -> Seq(Statuses \X Statuses)]
  BY DEF Guarded, Shape, TypeOK
<1>2. CASE HoldDeposit(b)
  BY <1>2, UntouchedBy DEF HoldDeposit
<1>3. ASSUME NEW from \in Reserving, NEW to \in {"ACTIVE", "RETURNED", "COMPLETED"},
             NEW event \in {"HANDOVER_CONFIRMED", "RETURN_CONFIRMED", "COMPLETED"},
             Advance(b, from, to, event)
      PROVE  Fate(c)
  <2>1. /\ status[b] = from /\ status' = [status EXCEPT ![b] = to]
        /\ history' = Recorded({b}, from, to)
        /\ outbox' = outbox \cup {<<b, event>>} /\ UNCHANGED expiresAt
    BY <1>3 DEF Advance
  <2>2. CASE c # b
    BY <1>1, <2>1, <2>2, UntouchedBy DEF Recorded
  <2>3. CASE c = b
    <3>1. history'[c] = Append(history[c], <<from, to>>)
      BY <2>1, <2>3 DEF Recorded
    <3>2. Ends(c, to)
      BY <1>1, <3>1, Appends DEF Statuses, Reserving
    <3>3. Announced(c, {event})
      BY <2>1, <2>3 DEF Announced
    <3>4. status[c] \in Reserving /\ status'[c] = to
      BY <1>1, <2>1, <2>3
    <3> QED BY <3>2, <3>3, <3>4 DEF Fate, Rented
  <2> QED BY <2>2, <2>3
<1>4. CASE Handover(b)
  BY <1>3, <1>4 DEF Handover, Reserving
<1>5. CASE Return(b)
  BY <1>3, <1>5 DEF Return, Reserving
<1>6. CASE Complete(b)
  BY <1>3, <1>6 DEF Complete, Reserving
<1>7. CASE ReturnAndComplete(b)
  <2> DEFINE two == <<<<"ACTIVE", "RETURNED">>, <<"RETURNED", "COMPLETED">>>>
  <2>1. /\ status[b] = "ACTIVE" /\ status' = [status EXCEPT ![b] = "COMPLETED"]
        /\ history' = [history EXCEPT ![b] = @ \o two]
        /\ outbox' = outbox \cup {<<b, "RETURN_CONFIRMED">>, <<b, "COMPLETED">>}
        /\ UNCHANGED expiresAt
    BY <1>7 DEF ReturnAndComplete
  <2>2. CASE c # b
    BY <1>1, <2>1, <2>2, UntouchedBy
  <2>3. CASE c = b
    <3>1. history'[c] = history[c] \o two /\ history[c] \in Seq(Statuses \X Statuses)
      BY <1>1, <2>1, <2>3
    <3>2. /\ two \in Seq(Statuses \X Statuses) /\ Len(two) = 2
          /\ two[2] = <<"RETURNED", "COMPLETED">>
      BY DEF Statuses
    <3>3. /\ Len(history'[c]) = Len(history[c]) + 2 /\ Len(history[c]) \in Nat
          /\ history'[c][Len(history[c]) + 2] = two[2]
          /\ history'[c] \in Seq(Statuses \X Statuses)
      BY <3>1, <3>2, AppendsTwo
    <3>4. history'[c] # <<>>
      BY <3>3
    <3>5. Ends(c, "COMPLETED")
      BY <3>2, <3>3, <3>4 DEF Ends
    <3>6. Announced(c, {"RETURN_CONFIRMED", "COMPLETED"})
      BY <2>1, <2>3 DEF Announced
    <3>7. status[c] \in Reserving /\ status'[c] = "COMPLETED"
      BY <1>1, <2>1, <2>3 DEF Reserving
    <3> QED BY <3>5, <3>6, <3>7 DEF Fate, Rented
  <2> QED BY <2>2, <2>3
<1> QED BY <1>2, <1>4, <1>5, <1>6, <1>7 DEF Rental

\* What a step can do to a booking, in one list.
LEMMA AllFates == Guarded /\ [Next]_vars => \A c \in Bookings : Fate(c)
<1> SUFFICES ASSUME Guarded, [Next]_vars, NEW c \in Bookings PROVE Fate(c)
  OBVIOUS
<1>1. CASE UNCHANGED bookingVars
  BY <1>1, UntouchedBy DEF bookingVars
<1> QED BY <1>1, WritingSteps, InsertFates, ConfirmFates, CancelFates, BlockFates, ExpireFates,
           RentalFates

-----------------------------------------------------------------------------
(***************************************************************************)
(* What the sessions know of the bookings they have read                   *)
(***************************************************************************)

\* What a booking has announced agrees with what became of it.
Notices(b) ==
  /\ status[b] = "NONE" => \A e \in Events : <<b, e>> \notin outbox
  /\ status[b] = "PENDING" => \A e \in Events : <<b, e>> \in outbox => e = "CREATED"
  /\ <<b, "CONFIRMED">> \in outbox =>
       <<b, "COMPETING_CANCELLED">> \notin outbox /\ <<b, "PENDING_TIMEOUT">> \notin outbox
  /\ <<b, "CANCELLED">> \in outbox => status[b] = "CANCELLED"

\* The history of one booking explains its status.
Explained(b) ==
  IF history[b] = <<>> THEN status[b] = "NONE"
  ELSE history[b][Len(history[b])][2] = status[b]

\* A request that can only be cancelled, or already is.
Doomed(c) == status[c] \in {"PENDING", "CANCELLED"}

Mine(u, now) == {c \in LivePending(now) : Borrower(c) = u}

\* What a transaction has counted or read stays true until it writes by it.
Aware(s) ==
  LET b == tx[s].booking
      now == tx[s].now
  IN
  /\ tx[s].command = "create" /\ tx[s].held # {} =>
       Cardinality(Mine(Borrower(b), now)) < MaxActivePending
  /\ tx[s].command = "confirm" => status[b] # "NONE"
  /\ tx[s].command = "confirm" /\ tx[s].ready =>
       /\ Competitors(b, now) \subseteq tx[s].seen
       /\ \A c \in tx[s].seen : Doomed(c) /\ <<c, "CONFIRMED">> \notin outbox
  /\ tx[s].command = "cancel" => <<b, "CANCELLED">> \notin outbox
  /\ tx[s].command = "block" => \A c \in tx[s].seen : status[c] # "NONE"
  /\ tx[s].command = "block" /\ tx[s].ready =>
       \A c \in tx[s].seen : Doomed(c) /\ <<c, "CANCELLED">> \notin outbox

\* Only finitely many bookings exist at any time.
Bounded == \E n \in Nat : \A b \in Bookings : status[b] # "NONE" => b <= n

\* The notices and the history of a booking follow what happens to it.
LEMMA FateIsTold ==
  ASSUME Guarded, \A s \in Sessions : Aware(s), NEW c \in Bookings, Fate(c),
         Notices(c), Explained(c)
  PROVE  Notices(c)' /\ Explained(c)'
<1> USE DEF Announced, Events
<1>1. CASE Untouched(c)
  BY <1>1 DEF Untouched, Notices, Explained
<1>2. ASSUME NEW s \in Sessions, Requested(c, s) PROVE Notices(c)' /\ Explained(c)'
  BY <1>2 DEF Requested, Notices, Explained, Ends
<1>3. ASSUME NEW s \in Sessions, Chosen(c, s) PROVE Notices(c)' /\ Explained(c)'
  BY <1>3 DEF Chosen, Notices, Explained, Ends
<1>4. ASSUME NEW s \in Sessions, Outdone(c, s) PROVE Notices(c)' /\ Explained(c)'
  <2>1. Doomed(c) /\ <<c, "CONFIRMED">> \notin outbox
    BY <1>4 DEF Outdone, CommitConfirm, Aware
  <2>2. status'[c] = "CANCELLED"
    BY <1>4, <2>1 DEF Outdone, Doomed
  <2> QED BY <1>4, <2>1, <2>2 DEF Outdone, Notices, Explained, Ends
<1>5. ASSUME NEW s \in Sessions, Withdrawn(c, s) PROVE Notices(c)' /\ Explained(c)'
  BY <1>5 DEF Withdrawn, Notices, Explained, Ends
<1>6. ASSUME NEW s \in Sessions, Barred(c, s) PROVE Notices(c)' /\ Explained(c)'
  <2>1. Doomed(c)
    BY <1>6 DEF Barred, CommitBlock, Aware
  <2>2. status'[c] = "CANCELLED"
    BY <1>6, <2>1 DEF Barred, Doomed
  <2>3. Ends(c, "CANCELLED") /\ Announced(c, {"CANCELLED"})
    BY <1>6 DEF Barred
  <2>4. Notices(c)'
    BY <2>1, <2>2, <2>3 DEF Notices, Doomed
  <2>5. Explained(c)'
    BY <2>2, <2>3 DEF Explained, Ends
  <2> QED BY <2>4, <2>5
<1>7. CASE TimedOut(c)
  BY <1>7 DEF TimedOut, Notices, Explained, Ends
<1>8. CASE Rented(c)
  BY <1>8 DEF Rented, Notices, Explained, Ends, Reserving
<1> QED BY <1>1, <1>2, <1>3, <1>4, <1>5, <1>6, <1>7, <1>8 DEF Fate

\* Bookings are inserted one at a time.
LEMMA BoundedKept == Guarded /\ Bounded /\ [Next]_vars => Bounded'
<1> SUFFICES ASSUME Guarded, Bounded, [Next]_vars PROVE Bounded'
  OBVIOUS
<1>1. PICK n \in Nat : \A b \in Bookings : status[b] # "NONE" => b <= n
  BY DEF Bounded
<1>2. ASSUME NEW s \in Sessions, InsertBooking(s) PROVE Bounded'
  <2> DEFINE d == tx[s].booking
             m == IF d <= n THEN n ELSE d
  <2>1. d \in Bookings /\ status \in [Bookings -> Statuses]
    BY <1>2, Running DEF InsertBooking, Guarded, Shape, TypeOK
  <2>2. Bookings \subseteq Nat
    BY CalendarAssumption
  <2>3. status' = status \/ status' = [status EXCEPT ![d] = "PENDING"]
    BY <1>2 DEF InsertBooking, bookingVars
  <2>4. m \in Nat /\ n <= m /\ d <= m
    <3>1. n \in Nat /\ d \in Nat
      BY <1>1, <2>1, <2>2
    <3> HIDE DEF d
    <3> QED BY <3>1
  <2>5. \A b \in Bookings : status'[b] # "NONE" => b <= m
    <3> HIDE DEF m, d
    <3> QED BY <1>1, <2>1, <2>2, <2>3, <2>4
  <2> QED BY <2>4, <2>5 DEF Bounded
<1>3. CASE ~\E s \in Sessions : InsertBooking(s)
  <2>1. ASSUME NEW b \in Bookings, status'[b] # "NONE" PROVE status[b] # "NONE"
    <3>1. Fate(b) /\ ~\E s \in Sessions : Requested(b, s)
      BY <1>3, AllFates DEF Requested
    <3> QED BY <2>1, <3>1 DEF Fate, Untouched, Chosen, Outdone, Withdrawn, Barred, TimedOut, Rented,
                          Reserving
  <2> QED BY <1>1, <2>1 DEF Bounded
<1> QED BY <1>2, <1>3

\* Sets of bookings that exist are finite, and as small as their supersets.
LEMMA SmallSets ==
  ASSUME Bounded, NEW S, S \subseteq {b \in Bookings : status[b] # "NONE"}
  PROVE  /\ IsFiniteSet(S) /\ Cardinality(S) \in Nat
         /\ \A T \in SUBSET S : IsFiniteSet(T) /\ Cardinality(T) <= Cardinality(S)
<1>1. PICK n \in Nat : \A b \in Bookings : status[b] # "NONE" => b <= n
  BY DEF Bounded
<1>2. S \subseteq 0 .. n
  BY <1>1, CalendarAssumption
<1>3. IsFiniteSet(0 .. n)
  BY <1>1, FS_Interval
<1>4. IsFiniteSet(S)
  BY <1>2, <1>3, FS_Subset
<1>5. Cardinality(S) \in Nat
  BY <1>4, FS_CardinalityType
<1> QED BY <1>4, <1>5, FS_Subset

\* Live requests of one user are live requests, and those exist.
LEMMA MineExist == \A u, now : Mine(u, now) \subseteq {b \in Bookings : status[b] # "NONE"}
BY DEF Mine, LivePending

\* Nobody writes with the keys another transaction holds.
LEMMA OthersKeys ==
  ASSUME Guarded, NEW r \in Sessions, NEW s \in Sessions, tx'[r] = tx[r],
         tx[r].command # "none",
         \/ InsertBooking(s) \/ CommitConfirm(s) \/ CommitCancel(s) \/ CommitBlock(s)
  PROVE  r # s /\ tx[r].held \cap tx[s].held = {}
<1>1. tx' = [tx EXCEPT ![s] = Idle]
  BY DEF InsertBooking, CommitConfirm, CommitCancel, CommitBlock
<1>2. tx'[s] = Idle /\ Idle.command = "none"
  BY <1>1, Running DEF Idle
<1> QED BY <1>2 DEF Guarded, Exclusive

\* Nobody requests a booking for a borrower whose requests are being counted.
LEMMA CountStands ==
  ASSUME Guarded, [Next]_vars, NEW r \in Sessions, tx'[r] = tx[r],
         tx[r].command = "create", tx[r].held # {}
  PROVE  LET u == Borrower(tx[r].booking) IN
         Mine(u, tx[r].now)' \subseteq Mine(u, tx[r].now)
<1> DEFINE u == Borrower(tx[r].booking)
           now == tx[r].now
<1>1. Mine(u, now)' = {c \in Bookings : status'[c] = "PENDING" /\ expiresAt'[c] > now /\ Borrower(c) = u}
  BY DEF Mine, LivePending
<1>2. SUFFICES ASSUME NEW c \in Bookings, status'[c] = "PENDING", expiresAt'[c] > now,
                      Borrower(c) = u
               PROVE  status[c] = "PENDING" /\ expiresAt[c] > now
  BY <1>1 DEF Mine, LivePending
<1>3. ASSUME NEW s \in Sessions, Requested(c, s) PROVE FALSE
  <2>1. InsertBooking(s) /\ tx[s].booking = c
    BY <1>3 DEF Requested
  <2>2. UserLock(u) \in tx[s].held /\ UserLock(u) \in tx[r].held
    BY <1>2, <2>1, Running DEF Relied, InsertBooking
  <2> QED BY <2>1, <2>2, OthersKeys
<1>4. Fate(c)
  BY AllFates
<1>5. Untouched(c)
  BY <1>2, <1>3, <1>4 DEF Fate, Chosen, Outdone, Withdrawn, Barred, TimedOut, Rented, Reserving
<1> QED BY <1>2, <1>5 DEF Untouched

\* The competitors a confirmation has read are all there are, and stay losers.
LEMMA RivalsStand ==
  ASSUME Guarded, [Next]_vars, NEW r \in Sessions, tx'[r] = tx[r], Aware(r),
         tx[r].command = "confirm", tx[r].ready
  PROVE  /\ Competitors(tx[r].booking, tx[r].now)' \subseteq tx[r].seen
         /\ \A c \in tx[r].seen : Doomed(c)' /\ <<c, "CONFIRMED">> \notin outbox'
<1> DEFINE b == tx[r].booking
           now == tx[r].now
<1>1. /\ b \in Bookings /\ tx[r].seen \subseteq Bookings
      /\ ItemLock(Item(b)) \in tx[r].held /\ \A c \in tx[r].seen : Item(c) = Item(b)
  BY Running DEF Relied
<1>2. /\ Competitors(b, now) \subseteq tx[r].seen
      /\ \A c \in tx[r].seen : Doomed(c) /\ <<c, "CONFIRMED">> \notin outbox
  BY DEF Aware
<1>3. ASSUME NEW c \in Bookings, status'[c] = "PENDING", expiresAt'[c] > now, c # b,
             Overlap(Request[c], Request[b])
      PROVE  c \in tx[r].seen
  <2>1. ASSUME NEW s \in Sessions, Requested(c, s) PROVE FALSE
    <3>1. InsertBooking(s) /\ tx[s].booking = c /\ Item(c) = Item(b)
      BY <1>3, <2>1 DEF Requested, Overlap, Item
    <3>2. Free(NextLock(s)) /\ NextLock(s) = ItemLock(Item(b))
      BY <3>1 DEF InsertBooking, NextLock
    <3> QED BY <1>1, <3>2 DEF Free
  <2>2. Untouched(c)
    BY <1>3, <2>1, AllFates DEF Fate, Chosen, Outdone, Withdrawn, Barred, TimedOut, Rented,
                                Reserving
  <2>3. c \in Competitors(b, now)
    BY <1>3, <2>2 DEF Untouched, Competitors, LivePending
  <2> QED BY <1>2, <2>3
<1>4. Competitors(b, now)' \subseteq tx[r].seen
  BY <1>3 DEF Competitors, LivePending
<1>5. ASSUME NEW c \in tx[r].seen PROVE Doomed(c)' /\ <<c, "CONFIRMED">> \notin outbox'
  <2>1. ASSUME NEW s \in Sessions, Chosen(c, s) PROVE FALSE
    <3>1. CommitConfirm(s) /\ ItemLock(Item(c)) \in tx[s].held
      BY <2>1, Running DEF Chosen, CommitConfirm, Relied
    <3> QED BY <1>1, <3>1, OthersKeys
  <2>2. Doomed(c) /\ <<c, "CONFIRMED">> \notin outbox /\ Fate(c)
    BY <1>1, <1>2, AllFates
  <2> QED BY <2>1, <2>2 DEF Fate, Untouched, Requested, Outdone, Withdrawn, Barred, TimedOut, Rented,
                            Reserving, Doomed, Announced, Events
<1> QED BY <1>4, <1>5

\* Nobody cancels, under the same key, what another transaction has locked to cancel.
LEMMA KeysStand ==
  ASSUME Guarded, [Next]_vars, NEW r \in Sessions, tx'[r] = tx[r], NEW c \in Bookings,
         tx[r].command # "none", BookingLock(c) \in tx[r].held, <<c, "CANCELLED">> \notin outbox
  PROVE  /\ <<c, "CANCELLED">> \notin outbox'
         /\ Doomed(c) => Doomed(c)'
<1>1. ASSUME NEW s \in Sessions, Chosen(c, s) \/ Withdrawn(c, s) \/ Barred(c, s) PROVE FALSE
  <2>1. CommitConfirm(s) \/ CommitCancel(s) \/ CommitBlock(s)
    BY <1>1 DEF Chosen, Withdrawn, Barred
  <2>2. BookingLock(c) \in tx[s].held
    BY <1>1, Running DEF Chosen, Withdrawn, Barred, CommitConfirm, CommitCancel, CommitBlock, Relied
  <2> QED BY <2>1, <2>2, OthersKeys
<1> QED BY <1>1, AllFates DEF Fate, Untouched, Requested, Outdone, TimedOut, Rented, Reserving, Doomed,
                              Announced, Events

\* Rows are never deleted.
LEMMA RowsStay ==
  ASSUME Guarded, [Next]_vars, NEW c \in Bookings, status[c] # "NONE"
  PROVE  status'[c] # "NONE"
BY AllFates DEF Fate, Untouched, Requested, Chosen, Outdone, Withdrawn, Barred, TimedOut, Rented,
                Reserving

\* A transaction that waits while others write still knows what it knew.
LEMMA StillAware ==
  ASSUME Guarded, Bounded, [Next]_vars, NEW r \in Sessions, tx'[r] = tx[r], Aware(r)
  PROVE  Aware(r)'
<1> DEFINE b == tx[r].booking
           now == tx[r].now
<1>1. ASSUME tx[r].command = "create", tx[r].held # {}
      PROVE  Cardinality(Mine(Borrower(b), now)') < MaxActivePending
  <2>1. Mine(Borrower(b), now)' \subseteq Mine(Borrower(b), now)
    BY <1>1, CountStands
  <2> DEFINE old == Mine(Borrower(b), now)
             new == Mine(Borrower(b), now)'
  <2>2. old \subseteq {c \in Bookings : status[c] # "NONE"}
    BY MineExist
  <2>3. Cardinality(old) < MaxActivePending
    BY <1>1 DEF Aware
  <2> HIDE DEF old, new
  <2>4. /\ Cardinality(new) <= Cardinality(old) /\ Cardinality(old) \in Nat
        /\ Cardinality(new) \in Nat
    BY <2>1, <2>2, SmallSets, FS_CardinalityType DEF old, new
  <2>5. Cardinality(new) < MaxActivePending
    BY <2>3, <2>4, CalendarAssumption
  <2> QED BY <2>5 DEF new
<1>2. tx[r].command \in {"confirm", "cancel"} => b \in Bookings
  BY Running
<1>3. tx[r].command = "confirm" => status'[b] # "NONE"
  BY <1>2, RowsStay DEF Aware
<1>4. tx[r].command = "confirm" /\ tx[r].ready =>
        /\ Competitors(b, now)' \subseteq tx[r].seen
        /\ \A c \in tx[r].seen : Doomed(c)' /\ <<c, "CONFIRMED">> \notin outbox'
  BY RivalsStand
<1>5. tx[r].command = "cancel" => <<b, "CANCELLED">> \notin outbox'
  BY <1>2, KeysStand, Running DEF Aware, Relied
<1>6. tx[r].command = "block" => \A c \in tx[r].seen : status'[c] # "NONE"
  BY Running, RowsStay DEF Aware
<1>7. tx[r].command = "block" /\ tx[r].ready =>
        \A c \in tx[r].seen : Doomed(c)' /\ <<c, "CANCELLED">> \notin outbox'
  BY Running, KeysStand DEF Aware, Relied
<1> QED BY <1>1, <1>3, <1>4, <1>5, <1>6, <1>7 DEF Aware

\* What a transaction knows after a step of its own that writes no booking.
LEMMA NewAware ==
  ASSUME Guarded, \A b \in Bookings : Notices(b), NEW s \in Sessions, Aware(s),
         UNCHANGED bookingVars,
         \/ \E b \in Bookings : BeginCreate(s, b) \/ BeginConfirm(s, b)
         \/ CountPending(s) \/ LockConfirmed(s) \/ CheckConfirm(s)
         \/ \E b \in Bookings, why \in {"BORROWER_CANCELLED", "LENDER_DECLINED"} :
              ReadCancelled(s, b, why)
         \/ \E p \in Blockers : BeginBlock(s, p)
         \/ LockCandidate(s) \/ ReadCandidates(s)
  PROVE  Aware(s)'
<1> DEFINE b == tx[s].booking
           now == tx[s].now
<1>1. /\ tx \in [Sessions -> Transaction] /\ tx[s] \in Transaction /\ tx[s].seen \subseteq Bookings
      /\ tx[s].command \in {"create", "confirm", "cancel"} => b \in Bookings
  BY Running
<1>2. /\ \A c : Doomed(c)' <=> Doomed(c)
      /\ \A u, t : Mine(u, t)' = Mine(u, t) /\ Competitors(u, t)' = Competitors(u, t)
      /\ status' = status /\ outbox' = outbox
  BY DEF bookingVars, Doomed, Mine, LivePending, Competitors
<1>3. ASSUME tx'[s] = Idle PROVE Aware(s)'
  BY <1>3 DEF Aware, Idle
<1>4. ASSUME NEW d \in Bookings, BeginCreate(s, d) PROVE Aware(s)'
  <2>1. tx'[s] = [Idle EXCEPT !.command = "create", !.booking = d, !.now = clock]
    BY <1>1, <1>4 DEF BeginCreate
  <2> QED BY <2>1 DEF Idle, Aware
<1>5. ASSUME NEW d \in Bookings, BeginConfirm(s, d) PROVE Aware(s)'
  <2>1. /\ tx'[s] = [Idle EXCEPT !.command = "confirm", !.booking = d, !.now = clock]
        /\ status[d] # "NONE"
    BY <1>1, <1>5 DEF BeginConfirm
  <2> QED BY <1>2, <2>1 DEF Idle, Aware
<1>6. CASE CountPending(s)
  <2>1. CASE tx'[s] = Idle
    BY <1>3, <2>1
  <2>2. CASE tx'[s] # Idle
    <3>1. /\ tx'[s] = [tx[s] EXCEPT !.held = {NextLock(s)}] /\ tx[s].command = "create"
          /\ Cardinality(Mine(Borrower(b), now)) < MaxActivePending
      BY <1>1, <1>6, <2>2 DEF CountPending, Mine
    <3>2. tx'[s].command = "create" /\ tx'[s].booking = b /\ tx'[s].now = now
      BY <1>1, <3>1 DEF Transaction
    <3> QED BY <1>2, <3>1, <3>2 DEF Aware
  <2> QED BY <2>1, <2>2
<1>7. CASE LockConfirmed(s)
  <2>1. /\ tx'[s] = [tx[s] EXCEPT !.held = {NextLock(s)}] /\ tx[s].command = "confirm"
        /\ tx[s].held = {}
    BY <1>1, <1>7 DEF LockConfirmed
  <2>2. /\ tx'[s].command = "confirm" /\ tx'[s].booking = b /\ tx'[s].now = now
        /\ tx'[s].ready = tx[s].ready /\ tx'[s].seen = tx[s].seen
    BY <1>1, <2>1 DEF Transaction
  <2> QED BY <1>2, <2>1, <2>2 DEF Aware
<1>8. CASE CheckConfirm(s)
  <2>1. CASE tx'[s] = Idle
    BY <1>3, <2>1
  <2>2. CASE tx'[s] # Idle
    <3>1. /\ tx'[s] = [tx[s] EXCEPT !.held = tx[s].held \cup {NextLock(s)}, !.ready = TRUE,
                                    !.seen = Competitors(b, now)]
          /\ tx[s].command = "confirm" /\ status[b] = "PENDING"
      BY <1>1, <1>8, <2>2 DEF CheckConfirm, Confirmable
    <3>2. /\ tx'[s].command = "confirm" /\ tx'[s].booking = b /\ tx'[s].now = now
          /\ tx'[s].seen = Competitors(b, now)
      BY <1>1, <3>1 DEF Transaction
    <3>3. \A c \in Competitors(b, now) : Doomed(c) /\ <<c, "CONFIRMED">> \notin outbox
      BY DEF Competitors, LivePending, Doomed, Notices, Events
    <3> QED BY <1>2, <3>1, <3>2, <3>3 DEF Aware
  <2> QED BY <2>1, <2>2
<1>9. ASSUME NEW d \in Bookings, NEW why, ReadCancelled(s, d, why) PROVE Aware(s)'
  <2>1. /\ tx'[s] = [Idle EXCEPT !.command = "cancel", !.booking = d, !.now = clock,
                                 !.ready = TRUE, !.held = {BookingLock(d)}, !.reason = why,
                                 !.old = status[d]]
        /\ status[d] \in {"PENDING", "CONFIRMED"}
    BY <1>1, <1>9 DEF ReadCancelled, Cancellable
  <2>2. <<d, "CANCELLED">> \notin outbox
    BY <2>1 DEF Notices, Events
  <2>3. tx'[s].command = "cancel" /\ tx'[s].booking = d
    BY <2>1 DEF Idle
  <2> QED BY <1>2, <2>2, <2>3 DEF Aware
<1>10. ASSUME NEW p \in Blockers, BeginBlock(s, p) PROVE Aware(s)'
  <2>1. tx'[s] = [Idle EXCEPT !.command = "block", !.pair = p, !.now = clock,
                              !.held = {PairLock(p)},
                              !.seen = {c \in LivePending(clock) : Between(c, p)}]
    BY <1>1, <1>10 DEF BeginBlock
  <2>2. /\ tx'[s].command = "block" /\ tx'[s].ready = FALSE
        /\ tx'[s].seen = {c \in LivePending(clock) : Between(c, p)}
    BY <2>1 DEF Idle
  <2> QED BY <1>2, <2>2 DEF Aware, LivePending
<1>11. CASE LockCandidate(s)
  <2>1. /\ tx'[s] = [tx[s] EXCEPT !.held = @ \cup {NextLock(s)}] /\ tx[s].command = "block"
    BY <1>1, <1>11 DEF LockCandidate
  <2>2. /\ tx'[s].command = "block" /\ tx'[s].ready = tx[s].ready /\ tx'[s].seen = tx[s].seen
    BY <1>1, <2>1 DEF Transaction
  <2> QED BY <1>2, <2>1, <2>2 DEF Aware
<1>12. CASE ReadCandidates(s)
  <2>1. /\ tx'[s] = [tx[s] EXCEPT !.ready = TRUE, !.seen = @ \cap LivePending(now)]
        /\ tx[s].command = "block"
    BY <1>1, <1>12 DEF ReadCandidates
  <2>2. /\ tx'[s].command = "block" /\ tx'[s].seen = tx[s].seen \cap LivePending(now)
    BY <1>1, <2>1 DEF Transaction
  <2>3. \A c \in LivePending(now) : Doomed(c) /\ status[c] # "NONE" /\ <<c, "CANCELLED">> \notin outbox
    BY DEF LivePending, Doomed, Notices, Events
  <2> QED BY <1>2, <2>2, <2>3 DEF Aware
<1> QED BY <1>4, <1>5, <1>6, <1>7, <1>8, <1>9, <1>10, <1>11, <1>12

\* A step changes the transaction of one session at most.
LEMMA OneSession ==
  ASSUME Guarded, [Next]_vars
  PROVE  \/ UNCHANGED tx
         \/ \E s \in Sessions : /\ \A r \in Sessions \ {s} : tx'[r] = tx[r]
                                /\ tx'[s] = Idle
         \/ \E s \in Sessions :
              /\ \A r \in Sessions \ {s} : tx'[r] = tx[r]
              /\ UNCHANGED bookingVars
              /\ \/ \E b \in Bookings : BeginCreate(s, b) \/ BeginConfirm(s, b)
                 \/ CountPending(s) \/ LockConfirmed(s) \/ CheckConfirm(s)
                 \/ \E b \in Bookings, why \in {"BORROWER_CANCELLED", "LENDER_DECLINED"} :
                      ReadCancelled(s, b, why)
                 \/ \E p \in Blockers : BeginBlock(s, p)
                 \/ LockCandidate(s) \/ ReadCandidates(s)
<1> DEFINE Reads(s) == \/ \E b \in Bookings : BeginCreate(s, b) \/ BeginConfirm(s, b)
                       \/ CountPending(s) \/ LockConfirmed(s) \/ CheckConfirm(s)
                       \/ \E b \in Bookings, why \in {"BORROWER_CANCELLED", "LENDER_DECLINED"} :
                            ReadCancelled(s, b, why)
                       \/ \E p \in Blockers : BeginBlock(s, p)
                       \/ LockCandidate(s) \/ ReadCandidates(s)
           Others(s) == \A r \in Sessions \ {s} : tx'[r] = tx[r]
<1>1. tx \in [Sessions -> Transaction]
  BY DEF Guarded, Shape, TypeOK
<1>2. ASSUME NEW s \in Sessions, InsertBooking(s) \/ CommitConfirm(s) \/ CommitCancel(s)
                                   \/ CommitBlock(s) \/ Abort(s)
      PROVE  Others(s) /\ tx'[s] = Idle
  <2>1. tx' = [tx EXCEPT ![s] = Idle]
    BY <1>2 DEF InsertBooking, CommitConfirm, CommitCancel, CommitBlock, Abort
  <2> QED BY <1>1, <2>1
<1>3. ASSUME NEW s \in Sessions, Reads(s) PROVE Others(s) /\ UNCHANGED bookingVars
  <2>1. UNCHANGED bookingVars
    BY <1>3 DEF BeginCreate, BeginConfirm, CountPending, LockConfirmed, CheckConfirm, ReadCancelled,
                BeginBlock, LockCandidate, ReadCandidates
  <2>2. \E t : tx' = [tx EXCEPT ![s] = t]
    BY <1>3 DEF BeginCreate, BeginConfirm, CountPending, LockConfirmed, CheckConfirm, ReadCancelled,
                BeginBlock, LockCandidate, ReadCandidates
  <2> QED BY <1>1, <2>1, <2>2
<1>4. ASSUME NEW s \in Sessions, Create(s) \/ Confirm(s) \/ Cancel(s) \/ Block(s) \/ Abort(s)
      PROVE  Reads(s) \/ (Others(s) /\ tx'[s] = Idle)
  BY <1>2, <1>4 DEF Create, Confirm, Cancel, Block
<1>5. ASSUME NEW b \in Bookings, Expire(b) \/ Rental(b) PROVE UNCHANGED tx
  BY <1>5 DEF Expire, Rental, HoldDeposit, Handover, Return, ReturnAndComplete, Complete, Advance
<1>6. ASSUME NEW p \in Periods, ClosePeriod(p) \/ OpenPeriod(p) PROVE UNCHANGED tx
  BY <1>6 DEF ClosePeriod, OpenPeriod
<1>7. ASSUME \/ \E p \in Blockers : Unblock(p)
             \/ Tick \/ UNCHANGED vars
      PROVE  UNCHANGED tx
  BY <1>7 DEF Unblock, Tick, vars
<1> QED BY <1>3, <1>4, <1>5, <1>6, <1>7 DEF Next

\* Every transaction goes on knowing what it has read.
LEMMA AwareKept ==
  ASSUME Guarded, Bounded, \A b \in Bookings : Notices(b), \A s \in Sessions : Aware(s), [Next]_vars
  PROVE  \A s \in Sessions : Aware(s)'
<1>1. CASE UNCHANGED tx
  BY <1>1, StillAware
<1>2. ASSUME NEW s \in Sessions, \A r \in Sessions \ {s} : tx'[r] = tx[r], tx'[s] = Idle
      PROVE  \A r \in Sessions : Aware(r)'
  <2>1. Aware(s)'
    BY <1>2 DEF Aware, Idle
  <2> QED BY <1>2, <2>1, StillAware
<1>3. ASSUME NEW s \in Sessions, \A r \in Sessions \ {s} : tx'[r] = tx[r], UNCHANGED bookingVars,
             \/ \E b \in Bookings : BeginCreate(s, b) \/ BeginConfirm(s, b)
             \/ CountPending(s) \/ LockConfirmed(s) \/ CheckConfirm(s)
             \/ \E b \in Bookings, why \in {"BORROWER_CANCELLED", "LENDER_DECLINED"} :
                  ReadCancelled(s, b, why)
             \/ \E p \in Blockers : BeginBlock(s, p)
             \/ LockCandidate(s) \/ ReadCandidates(s)
      PROVE  \A r \in Sessions : Aware(r)'
  BY <1>3, NewAware, StillAware
<1> QED BY <1>1, <1>2, <1>3, OneSession

\* Time does not run back.
LEMMA ClockRuns == Guarded /\ [Next]_vars => clock \in Nat /\ clock' \in Nat /\ clock <= clock'
<1> SUFFICES ASSUME Guarded, [Next]_vars PROVE clock' = clock \/ clock' = clock + 1
  BY CalendarAssumption DEF Guarded, Shape, TypeOK
<1>1. ASSUME NEW s \in Sessions, Create(s) \/ Confirm(s) \/ Cancel(s) \/ Block(s) \/ Abort(s)
      PROVE  clock' = clock
  BY <1>1 DEF Create, Confirm, Cancel, Block, Abort, BeginCreate, CountPending, InsertBooking,
              BeginConfirm, LockConfirmed, CheckConfirm, CommitConfirm, ReadCancelled, CommitCancel,
              BeginBlock, LockCandidate, ReadCandidates, CommitBlock
<1>2. ASSUME NEW b \in Bookings, Expire(b) \/ Rental(b) PROVE clock' = clock
  BY <1>2 DEF Expire, Rental, HoldDeposit, Handover, Return, ReturnAndComplete, Complete, Advance
<1>3. ASSUME NEW p \in Periods, ClosePeriod(p) \/ OpenPeriod(p) PROVE clock' = clock
  BY <1>3 DEF ClosePeriod, OpenPeriod
<1>4. ASSUME NEW p \in Blockers, Unblock(p) PROVE clock' = clock
  BY <1>4 DEF Unblock
<1> QED BY <1>1, <1>2, <1>3, <1>4 DEF Next, Tick, vars

\* A live request after the step was live before, unless the step inserts it.
LEMMA LiveBefore ==
  ASSUME Guarded, [Next]_vars, NEW c \in LivePending(clock)'
  PROVE  c \in LivePending(clock) \/ \E s \in Sessions : Requested(c, s)
<1>1. /\ c \in Bookings /\ status'[c] = "PENDING" /\ expiresAt'[c] > clock'
  BY DEF LivePending
<1>2. Untouched(c) \/ \E s \in Sessions : Requested(c, s)
  BY <1>1, AllFates DEF Fate, Chosen, Outdone, Withdrawn, Barred, TimedOut, Rented, Reserving
<1>3. ASSUME Untouched(c) PROVE expiresAt[c] > clock
  <2>1. expiresAt[c] > clock' /\ expiresAt[c] \in Nat \cup {NoTime}
    BY <1>1, <1>3 DEF Untouched, Guarded, Shape, TypeOK
  <2> QED BY <2>1, ClockRuns DEF NoTime
<1> QED BY <1>1, <1>2, <1>3 DEF Untouched, LivePending

\* No live request overlaps a reservation: not the requests the confirmation has read,
\* not those inserted since.
LEMMA LosersKept ==
  ASSUME Guarded, \A s \in Sessions : Aware(s), NoLiveLoser, [Next]_vars
  PROVE  NoLiveLoser'
<1> SUFFICES ASSUME NEW b \in LivePending(clock)', NEW c \in Reserved',
                    Overlap(Request[b], Request[c])
             PROVE  FALSE
  BY DEF NoLiveLoser
<1>1. /\ b \in Bookings /\ c \in Bookings /\ b # c /\ Overlap(Request[c], Request[b])
      /\ status'[b] = "PENDING" /\ status'[c] \in Reserving
  BY DEF LivePending, Reserved, Reserving, Overlap
<1>2. \/ c \in Reserved
      \/ \E s \in Sessions : Chosen(c, s)
  BY <1>1, AllFates DEF Fate, Untouched, Requested, Outdone, Withdrawn, Barred, TimedOut, Rented,
                        Reserving, Reserved
<1>3. ASSUME c \in Reserved PROVE FALSE
  <2>1. CASE b \in LivePending(clock)
    BY <1>3, <2>1 DEF NoLiveLoser
  <2>2. ASSUME NEW s \in Sessions, Requested(b, s) PROVE FALSE
    BY <1>1, <1>3, <2>2 DEF Requested, Bookable, ReservedConflict
  <2> QED BY <2>1, <2>2, LiveBefore
<1>4. ASSUME NEW s \in Sessions, Chosen(c, s) PROVE FALSE
  <2>1. /\ CommitConfirm(s) /\ tx[s].booking = c /\ tx[s] # Idle
        /\ Competitors(c, tx[s].now) \subseteq tx[s].seen
    BY <1>4, Running DEF Chosen, CommitConfirm, Aware
  <2>2. ASSUME b \in LivePending(clock) PROVE FALSE
    <3>1. b \in LivePending(tx[s].now)
      <4>1. tx[s].now <= clock /\ tx[s].now \in Nat /\ clock \in Nat
        BY <2>1, ClockRuns, Running DEF Guarded, Recent, Transaction
      <4>2. expiresAt[b] > clock /\ expiresAt[b] \in Nat \cup {NoTime} /\ status[b] = "PENDING"
        BY <1>1, <2>2 DEF LivePending, Guarded, Shape, TypeOK
      <4>3. expiresAt[b] > tx[s].now
        BY <4>1, <4>2 DEF NoTime
      <4> QED BY <1>1, <4>2, <4>3 DEF LivePending
    <3>2. b \in tx[s].seen /\ status[b] = "PENDING"
      BY <1>1, <2>1, <3>1 DEF Competitors, LivePending
    <3>3. status'[b] = "CANCELLED"
      BY <1>1, <2>1, <3>2 DEF CommitConfirm
    <3> QED BY <1>1, <3>3
  <2>3. ASSUME NEW r \in Sessions, Requested(b, r) PROVE FALSE
    <3>1. /\ InsertBooking(r) /\ tx' = [tx EXCEPT ![s] = Idle] /\ tx[s].command = "confirm"
          /\ tx' = [tx EXCEPT ![r] = Idle] /\ tx[r].command = "create"
      BY <2>1, <2>3 DEF Requested, InsertBooking, CommitConfirm
    <3>2. tx'[s] = Idle /\ tx'[s] = tx[s]
      BY <3>1, Running
    <3> QED BY <2>1, <3>2
  <2> QED BY <2>2, <2>3, LiveBefore
<1> QED BY <1>2, <1>3, <1>4

\* A cap on the live requests of a group holds if inserting into the group respects it.
LEMMA CapKept ==
  ASSUME Guarded, Bounded, [Next]_vars, NEW Q \in SUBSET Bookings, NEW cap \in Nat,
         Cardinality(LivePending(clock) \cap Q) <= cap,
         \A s \in Sessions :
           (InsertBooking(s) /\ status[tx[s].booking] = "NONE"
             /\ Bookable(tx[s].booking, tx[s].now) /\ tx[s].booking \in Q)
           => Cardinality(LivePending(clock) \cap Q) < cap
  PROVE  Cardinality(LivePending(clock)' \cap Q) <= cap
<1> DEFINE old == LivePending(clock) \cap Q
           new == LivePending(clock)' \cap Q
<1>1. old \subseteq {b \in Bookings : status[b] # "NONE"}
  BY DEF LivePending
<1>2. /\ IsFiniteSet(old) /\ Cardinality(old) \in Nat
      /\ \A T \in SUBSET old : IsFiniteSet(T) /\ Cardinality(T) <= Cardinality(old)
  <2> HIDE DEF old
  <2> QED BY <1>1, SmallSets
<1>3. ASSUME NEW s \in Sessions, NEW c \in Q, Requested(c, s) PROVE Cardinality(new) <= cap
  <2>1. /\ InsertBooking(s) /\ tx[s].booking = c /\ Bookable(c, tx[s].now) /\ status[c] = "NONE"
    BY <1>3 DEF Requested
  <2>2. Cardinality(old) < cap
    BY <2>1
  <2>3. new \subseteq old \cup {c}
    <3>1. ASSUME NEW d \in Bookings, NEW r \in Sessions, Requested(d, r) PROVE d = c
      <4>1. status' = [status EXCEPT ![c] = "PENDING"] /\ status \in [Bookings -> Statuses]
        BY <2>1 DEF InsertBooking, Guarded, Shape, TypeOK
      <4>2. status[d] = "NONE" /\ status'[d] = "PENDING"
        BY <3>1 DEF Requested
      <4> QED BY <4>1, <4>2
    <3>2. LivePending(clock)' \subseteq Bookings
      BY DEF LivePending
    <3> QED BY <3>1, <3>2, LiveBefore
  <2>4. IsFiniteSet(old \cup {c}) /\ Cardinality(old \cup {c}) <= Cardinality(old) + 1
    <3> HIDE DEF old
    <3> QED BY <1>2, FS_AddElement
  <2>5. /\ Cardinality(new) <= Cardinality(old \cup {c})
        /\ Cardinality(new) \in Nat /\ Cardinality(old \cup {c}) \in Nat
    <3> HIDE DEF old, new
    <3> QED BY <2>3, <2>4, FS_Subset, FS_CardinalityType
  <2> HIDE DEF old, new
  <2> QED BY <1>2, <2>2, <2>4, <2>5
<1>4. CASE ~\E s \in Sessions : \E c \in Q : Requested(c, s)
  <2>1. new \subseteq old
    BY <1>4, LiveBefore
  <2>2. Cardinality(new) <= Cardinality(old) /\ Cardinality(new) \in Nat
    <3> HIDE DEF old, new
    <3> QED BY <1>2, <2>1, FS_CardinalityType
  <2>3. Cardinality(old) <= cap
    OBVIOUS
  <2>4. Cardinality(new) <= cap
    <3> HIDE DEF old, new
    <3> QED BY <1>2, <2>2, <2>3
  <2> QED BY <2>4
<1> QED BY <1>3, <1>4

\* Requests live now were live when the transaction read its clock.
LEMMA LiveSince ==
  ASSUME Guarded, NEW s \in Sessions, tx[s] # Idle
  PROVE  LivePending(clock) \subseteq LivePending(tx[s].now)
<1>1. tx[s].now <= clock /\ tx[s].now \in Nat /\ clock \in Nat
  BY CalendarAssumption, Running DEF Guarded, Shape, TypeOK, Recent, Transaction
<1>2. ASSUME NEW c \in Bookings, expiresAt[c] > clock PROVE expiresAt[c] > tx[s].now
  <2>1. expiresAt[c] \in Nat \cup {NoTime}
    BY DEF Guarded, Shape, TypeOK
  <2> QED BY <1>1, <1>2, <2>1 DEF NoTime
<1> QED BY <1>2 DEF LivePending

\* The caps of create hold under concurrent creates: the borrower's was counted under
\* the borrower's lock, the item's under the item's.
LEMMA LimitsKept ==
  ASSUME Guarded, Bounded, \A s \in Sessions : Aware(s), RequestLimits, [Next]_vars
  PROVE  RequestLimits'
<1>1. ASSUME NEW u \in Users
      PROVE  Cardinality({b \in LivePending(clock)' : Borrower(b) = u}) <= MaxActivePending
  <2> DEFINE Q == {b \in Bookings : Borrower(b) = u}
  <2>1. /\ LivePending(clock) \cap Q = {b \in LivePending(clock) : Borrower(b) = u}
        /\ LivePending(clock)' \cap Q = {b \in LivePending(clock)' : Borrower(b) = u}
    BY DEF LivePending
  <2>2. Cardinality(LivePending(clock) \cap Q) <= MaxActivePending
    BY <2>1 DEF RequestLimits
  <2>3. ASSUME NEW s \in Sessions, InsertBooking(s), tx[s].booking \in Q
        PROVE  Cardinality(LivePending(clock) \cap Q) < MaxActivePending
    <3> DEFINE live == LivePending(clock) \cap Q
               mine == Mine(u, tx[s].now)
    <3>1. Cardinality(mine) < MaxActivePending
      BY <2>3 DEF InsertBooking, Aware
    <3>2. live \subseteq mine
      BY <2>1, <2>3, LiveSince, Running DEF InsertBooking, Mine
    <3>3. mine \subseteq {b \in Bookings : status[b] # "NONE"}
      BY MineExist
    <3> HIDE DEF live, mine
    <3>4. /\ Cardinality(live) <= Cardinality(mine)
          /\ Cardinality(live) \in Nat /\ Cardinality(mine) \in Nat
      BY <3>2, <3>3, SmallSets, FS_CardinalityType
    <3>5. Cardinality(live) < MaxActivePending
      BY <3>1, <3>4, CalendarAssumption
    <3> QED BY <3>5 DEF live
  <2>4. MaxActivePending \in Nat /\ Q \in SUBSET Bookings
    BY CalendarAssumption
  <2>5. Cardinality(LivePending(clock)' \cap Q) <= MaxActivePending
    <3> HIDE DEF Q
    <3> QED BY <2>2, <2>3, <2>4, CapKept
  <2> QED BY <2>1, <2>5
<1>2. ASSUME NEW c \in Bookings, NEW day \in Request[c].first .. Request[c].last
      PROVE  Cardinality({b \in LivePending(clock)' :
                 Overlap(Request[b], [item |-> Item(c), first |-> day, last |-> day])})
               <= MaxCompetingPending
  <2> DEFINE on == [item |-> Item(c), first |-> day, last |-> day]
             Q == {b \in Bookings : Overlap(Request[b], on)}
  <2>1. /\ LivePending(clock) \cap Q = {b \in LivePending(clock) : Overlap(Request[b], on)}
        /\ LivePending(clock)' \cap Q = {b \in LivePending(clock)' : Overlap(Request[b], on)}
    BY DEF LivePending
  <2>2. Cardinality(LivePending(clock) \cap Q) <= MaxCompetingPending
    BY <2>1 DEF RequestLimits
  <2>3. ASSUME NEW s \in Sessions, InsertBooking(s), status[tx[s].booking] = "NONE",
               Bookable(tx[s].booking, tx[s].now), tx[s].booking \in Q
        PROVE  Cardinality(LivePending(clock) \cap Q) < MaxCompetingPending
    <3> DEFINE b == tx[s].booking
               live == LivePending(clock) \cap Q
               rivals == Competitors(b, tx[s].now)
    <3>1. Cardinality(rivals) < MaxCompetingPending
      BY <2>3 DEF Bookable
    <3>2. ASSUME NEW d \in live PROVE d \in rivals
      <4>1. d \in LivePending(tx[s].now) /\ d # b /\ d \in Bookings /\ b \in Bookings
        BY <2>3, <3>2, LiveSince, Running DEF InsertBooking, LivePending
      <4>2. Overlap(Request[d], on) /\ Overlap(Request[b], on)
        BY <2>3, <3>2
      <4>3. /\ Request[d].first \in Nat /\ Request[d].last \in Nat
            /\ Request[b].first \in Nat /\ Request[b].last \in Nat
            /\ Request[c].first \in Nat /\ Request[c].last \in Nat
        BY <4>1, CalendarAssumption
      <4>4. day \in Int
        BY <4>3
      <4>5. /\ Request[d].item = Request[b].item
            /\ Request[d].first <= day /\ day <= Request[d].last
            /\ Request[b].first <= day /\ day <= Request[b].last
        BY <4>2 DEF Overlap
      <4>6. Overlap(Request[d], Request[b])
        BY <4>3, <4>4, <4>5 DEF Overlap
      <4> QED BY <4>1, <4>6 DEF Competitors
    <3>3. rivals \subseteq {a \in Bookings : status[a] # "NONE"}
      BY DEF Competitors, LivePending
    <3>4. live \subseteq rivals
      BY <3>2
    <3> HIDE DEF live, rivals
    <3>5. /\ Cardinality(live) <= Cardinality(rivals)
          /\ Cardinality(live) \in Nat /\ Cardinality(rivals) \in Nat
      BY <3>3, <3>4, SmallSets, FS_CardinalityType
    <3>6. Cardinality(live) < MaxCompetingPending
      BY <3>1, <3>5, CalendarAssumption
    <3> QED BY <3>6 DEF live
  <2>4. MaxCompetingPending \in Nat /\ Q \in SUBSET Bookings
    BY CalendarAssumption
  <2>5. Cardinality(LivePending(clock)' \cap Q) <= MaxCompetingPending
    <3> HIDE DEF Q
    <3> QED BY <2>2, <2>3, <2>4, CapKept
  <2> QED BY <2>1, <2>5
<1> QED BY <1>1, <1>2 DEF RequestLimits

-----------------------------------------------------------------------------
(***************************************************************************)
(* The order of locks                                                      *)
(***************************************************************************)

\* The keys a waiting transaction holds come before the key it asks for: borrower, then
\* item; booking, then item; candidates of a block by their ids.
Ordered(s) ==
  /\ tx[s].command = "create" => tx[s].held \subseteq {UserLock(Borrower(tx[s].booking))}
  /\ tx[s].command = "confirm" /\ ~tx[s].ready => tx[s].held \subseteq {BookingLock(tx[s].booking)}
  /\ tx[s].command = "block" =>
       /\ tx[s].held \subseteq {PairLock(tx[s].pair)} \cup {BookingLock(c) : c \in Bookings}
       /\ \A c \in Bookings : BookingLock(c) \in tx[s].held => \A d \in Unlocked(s) : c < d

\* Keys of different kinds, or of different bookings, are different.
LEMMA KeysDiffer ==
  /\ \A u, i : UserLock(u) # ItemLock(i)
  /\ \A u, b : UserLock(u) # BookingLock(b)
  /\ \A u, p : UserLock(u) # PairLock(p)
  /\ \A i, b : ItemLock(i) # BookingLock(b)
  /\ \A i, p : ItemLock(i) # PairLock(p)
  /\ \A b, p : BookingLock(b) # PairLock(p)
  /\ \A b, c : BookingLock(b) = BookingLock(c) => b = c
BY DEF UserLock, ItemLock, BookingLock, PairLock

\* A block asks for the least of its candidates that are left.
LEMMA NextCandidate ==
  ASSUME NEW s \in Sessions, tx[s].seen \subseteq Bookings, tx[s].command = "block",
         Unlocked(s) # {}
  PROVE  \E c \in Unlocked(s) : NextLock(s) = BookingLock(c) /\ \A d \in Unlocked(s) : c <= d

<1>1. Unlocked(s) \subseteq Nat
  BY RequestTypes DEF Unlocked
<1>2. PICK m \in Unlocked(s) : \A d \in Unlocked(s) : m <= d
  BY <1>1, LeastNumber
<1> DEFINE c == CHOOSE c \in Unlocked(s) : \A d \in Unlocked(s) : c <= d
<1>3. NextLock(s) = BookingLock(c)
  BY DEF NextLock
<1>4. c \in Unlocked(s) /\ \A d \in Unlocked(s) : c <= d
  BY <1>2, Zenon
<1> QED BY <1>3, <1>4, Zenon

\* Every transaction asks for its keys in order.
LEMMA OrderKept ==
  ASSUME Guarded, \A s \in Sessions : Ordered(s), [Next]_vars
  PROVE  \A s \in Sessions : Ordered(s)'
<1>1. ASSUME NEW r \in Sessions, tx'[r] = tx[r] PROVE Ordered(r)'
  BY <1>1 DEF Ordered, Unlocked
<1>2. ASSUME NEW s \in Sessions, tx'[s] = Idle PROVE Ordered(s)'
  BY <1>2 DEF Ordered, Idle
<1>3. ASSUME NEW s \in Sessions, NEW b \in Bookings, BeginCreate(s, b) \/ BeginConfirm(s, b)
      PROVE  Ordered(s)'
  <2>1. PICK c \in {"create", "confirm"} :
          tx'[s] = [Idle EXCEPT !.command = c, !.booking = b, !.now = clock]
    BY <1>3, Running DEF BeginCreate, BeginConfirm
  <2>2. tx'[s].held = {} /\ tx'[s].command \in {"create", "confirm"}
    BY <2>1 DEF Idle
  <2> QED BY <2>2 DEF Ordered
<1>4. ASSUME NEW s \in Sessions, CountPending(s), tx'[s] # Idle PROVE Ordered(s)'
  <2>1. /\ tx'[s] = [tx[s] EXCEPT !.held = {NextLock(s)}] /\ tx[s].command = "create"
        /\ tx[s].held = {} /\ tx[s] \in Transaction
    BY <1>4, Running DEF CountPending
  <2>2. NextLock(s) = UserLock(Borrower(tx[s].booking))
    BY <2>1 DEF NextLock
  <2>3. /\ tx'[s].command = "create" /\ tx'[s].booking = tx[s].booking
        /\ tx'[s].held = {NextLock(s)}
    BY <2>1 DEF Transaction
  <2> QED BY <2>2, <2>3 DEF Ordered
<1>5. ASSUME NEW s \in Sessions, LockConfirmed(s) PROVE Ordered(s)'
  <2>1. /\ tx'[s] = [tx[s] EXCEPT !.held = {NextLock(s)}] /\ tx[s].command = "confirm"
        /\ tx[s].held = {} /\ tx[s] \in Transaction
    BY <1>5, Running DEF LockConfirmed
  <2>2. NextLock(s) = BookingLock(tx[s].booking)
    BY <2>1 DEF NextLock
  <2>3. /\ tx'[s].command = "confirm" /\ tx'[s].booking = tx[s].booking
        /\ tx'[s].held = {NextLock(s)}
    BY <2>1 DEF Transaction
  <2> QED BY <2>2, <2>3 DEF Ordered
<1>6. ASSUME NEW s \in Sessions, CheckConfirm(s), tx'[s] # Idle PROVE Ordered(s)'
  <2>1. /\ tx'[s] = [tx[s] EXCEPT !.held = tx[s].held \cup {NextLock(s)}, !.ready = TRUE,
                                  !.seen = Competitors(tx[s].booking, tx[s].now)]
        /\ tx[s].command = "confirm" /\ tx[s] \in Transaction
    BY <1>6, Running DEF CheckConfirm
  <2>2. tx'[s].command = "confirm" /\ tx'[s].ready
    BY <2>1 DEF Transaction
  <2> QED BY <2>2 DEF Ordered
<1>7. ASSUME NEW s \in Sessions, NEW b \in Bookings, NEW why, ReadCancelled(s, b, why)
      PROVE  Ordered(s)'
  <2>1. tx'[s].command = "cancel"
    BY <1>7, Running DEF ReadCancelled, Idle
  <2> QED BY <2>1 DEF Ordered
<1>8. ASSUME NEW s \in Sessions, NEW p \in Blockers, BeginBlock(s, p) PROVE Ordered(s)'
  <2>1. tx'[s] = [Idle EXCEPT !.command = "block", !.pair = p, !.now = clock,
                              !.held = {PairLock(p)},
                              !.seen = {c \in LivePending(clock) : Between(c, p)}]
    BY <1>8, Running DEF BeginBlock
  <2>2. tx'[s].command = "block" /\ tx'[s].pair = p /\ tx'[s].held = {PairLock(p)}
    BY <2>1 DEF Idle
  <2> QED BY <2>2, KeysDiffer DEF Ordered
<1>9. ASSUME NEW s \in Sessions, LockCandidate(s) PROVE Ordered(s)'
  <2>1. /\ tx'[s] = [tx[s] EXCEPT !.held = @ \cup {NextLock(s)}] /\ tx[s].command = "block"
        /\ Unlocked(s) # {} /\ tx[s] \in Transaction /\ tx[s].seen \subseteq Bookings
    BY <1>9, Running DEF LockCandidate
  <2>2. PICK m \in Unlocked(s) : NextLock(s) = BookingLock(m) /\ \A d \in Unlocked(s) : m <= d
    BY <2>1, NextCandidate
  <2>3. /\ tx'[s].command = "block" /\ tx'[s].pair = tx[s].pair /\ tx'[s].seen = tx[s].seen
        /\ tx'[s].held = tx[s].held \cup {BookingLock(m)}
    BY <2>1, <2>2 DEF Transaction
  <2>4. Unlocked(s)' = Unlocked(s) \ {m} /\ m \in Bookings
    BY <2>1, <2>3, KeysDiffer DEF Unlocked
  <2>5. tx'[s].held \subseteq {PairLock(tx[s].pair)} \cup {BookingLock(c) : c \in Bookings}
    BY <2>1, <2>3, <2>4 DEF Ordered
  <2>6. ASSUME NEW c \in Bookings, BookingLock(c) \in tx'[s].held, NEW d \in Unlocked(s)'
        PROVE  c < d
    <3>1. d \in Unlocked(s) /\ d # m /\ m <= d
      BY <2>2, <2>4, <2>6
    <3>2. c \in Nat /\ d \in Nat /\ m \in Nat
      BY <2>1, <2>4, <3>1, CalendarAssumption DEF Unlocked
    <3>3. CASE BookingLock(c) \in tx[s].held
      BY <2>1, <3>1, <3>3 DEF Ordered
    <3>4. CASE c = m
      BY <3>1, <3>2, <3>4
    <3> QED BY <2>3, <2>6, <3>3, <3>4, KeysDiffer
  <2> QED BY <2>3, <2>5, <2>6 DEF Ordered
<1>10. ASSUME NEW s \in Sessions, ReadCandidates(s) PROVE Ordered(s)'
  <2>1. /\ tx'[s] = [tx[s] EXCEPT !.ready = TRUE, !.seen = @ \cap LivePending(tx[s].now)]
        /\ tx[s].command = "block" /\ Unlocked(s) = {} /\ tx[s] \in Transaction
    BY <1>10, Running DEF ReadCandidates
  <2>2. /\ tx'[s].command = "block" /\ tx'[s].pair = tx[s].pair /\ tx'[s].held = tx[s].held
        /\ tx'[s].seen \subseteq tx[s].seen
    BY <2>1 DEF Transaction
  <2>3. Unlocked(s)' = {}
    BY <2>1, <2>2 DEF Unlocked
  <2> QED BY <2>1, <2>2, <2>3 DEF Ordered
<1>11. ASSUME NEW s \in Sessions,
              \/ \E b \in Bookings : BeginCreate(s, b) \/ BeginConfirm(s, b)
              \/ CountPending(s) \/ LockConfirmed(s) \/ CheckConfirm(s)
              \/ \E b \in Bookings, why \in {"BORROWER_CANCELLED", "LENDER_DECLINED"} :
                   ReadCancelled(s, b, why)
              \/ \E p \in Blockers : BeginBlock(s, p)
              \/ LockCandidate(s) \/ ReadCandidates(s)
       PROVE  Ordered(s)'
  BY <1>2, <1>3, <1>4, <1>5, <1>6, <1>7, <1>8, <1>9, <1>10, <1>11
<1> QED BY <1>1, <1>2, <1>11, OneSession

\* A bounded set of numbers has a greatest one.
LEMMA GreatestNumber ==
  ASSUME NEW S \in SUBSET Nat, S # {}, NEW n \in Nat, \A k \in S : k <= n
  PROVE  \E m \in S : \A k \in S : k <= m
<1> DEFINE U == {u \in Nat : \A k \in S : k <= u}
<1>1. PICK m \in U : \A u \in U : m <= u
  <2>1. n \in U /\ U \in SUBSET Nat
    OBVIOUS
  <2> HIDE DEF U
  <2> QED BY <2>1, LeastNumber
<1>2. CASE m \in S
  BY <1>1, <1>2
<1>3. CASE m \notin S
  <2>1. \A k \in S : k \in Nat /\ k < m
    BY <1>1, <1>3
  <2>2. m - 1 \in Nat /\ \A k \in S : k <= m - 1
    <3>1. PICK k \in S : TRUE
      OBVIOUS
    <3>2. m \in Nat /\ k \in Nat /\ k < m
      BY <1>1, <2>1, <3>1
    <3>3. m - 1 \in Nat
      BY <3>2
    <3> QED BY <2>1, <3>2, <3>3
  <2>3. m - 1 \in U /\ m \in Nat
    BY <1>1, <2>2
  <2>4. m <= m - 1
    BY <1>1, <2>3
  <2> QED BY <2>3, <2>4
<1> QED BY <1>2, <1>3

\* Transactions that ask for their keys in order never wait in a circle: an item's key is
\* held by none that waits, a borrower's by none that does not wait for an item, and of
\* the bookings asked for the last one is held by nobody in the circle.
LEMMA OrderBreaksCircles ==
  ASSUME Guarded, Bounded, \A s \in Sessions : Aware(s) /\ Ordered(s)
  PROVE  NoWaitCycle
<1> SUFFICES ASSUME NEW S \in SUBSET Sessions, S # {}, \A s \in S : Waiting(s),
                    \A s \in S : \E r \in S : NextLock(s) \in tx[r].held
             PROVE  FALSE
  BY DEF NoWaitCycle
<1> DEFINE Candidate(s) == IF tx[s].command = "block" THEN tx[s].seen ELSE {tx[s].booking}
<1>1. \A s \in S : /\ s \in Sessions /\ tx[s].seen \subseteq Bookings
                   /\ tx[s].command \in {"create", "confirm", "cancel"} => tx[s].booking \in Bookings
                   /\ Ordered(s) /\ Aware(s)
  BY Running
<1>2. ASSUME NEW s \in S, NEW i, NextLock(s) = ItemLock(i) PROVE FALSE
  <2>1. PICK r \in S : ItemLock(i) \in tx[r].held
    BY <1>2
  <2> QED BY <1>1, <2>1, KeysDiffer DEF Waiting, Ordered
<1>3. ASSUME NEW s \in S, tx[s].command \in {"create", "confirm"}, tx[s].held # {} PROVE FALSE
  <2>1. NextLock(s) = ItemLock(Item(tx[s].booking))
    BY <1>3 DEF NextLock
  <2> QED BY <1>2, <2>1
<1>4. ASSUME NEW s \in S, NEW u, NextLock(s) = UserLock(u) PROVE FALSE
  <2>1. PICK r \in S : UserLock(u) \in tx[r].held
    BY <1>4
  <2> QED BY <1>1, <1>3, <2>1, KeysDiffer DEF Waiting, Ordered
<1>5. ASSUME NEW s \in S, tx[s].command = "create" PROVE FALSE
  <2>1. tx[s].held = {}
    BY <1>3, <1>5
  <2>2. NextLock(s) = UserLock(Borrower(tx[s].booking))
    BY <1>5, <2>1 DEF NextLock
  <2> QED BY <1>4, <2>2
<1> DEFINE W == {b \in Bookings : \E s \in S : NextLock(s) = BookingLock(b)}
<1>6. ASSUME NEW s \in S
      PROVE  \E b \in W : /\ NextLock(s) = BookingLock(b) /\ status[b] # "NONE"
                          /\ tx[s].command = "block" => b \in Unlocked(s)
  <2>1. CASE tx[s].command = "confirm"
    <3>1. NextLock(s) = BookingLock(tx[s].booking) /\ tx[s].booking \in Bookings
      BY <1>1, <1>3, <2>1 DEF NextLock
    <3> QED BY <1>1, <2>1, <3>1 DEF Aware
  <2>2. CASE tx[s].command = "block"
    <3>1. Unlocked(s) # {}
      BY <2>2 DEF Waiting
    <3>2. PICK b \in Unlocked(s) : NextLock(s) = BookingLock(b)
      BY <1>1, <2>2, <3>1, NextCandidate
    <3>3. b \in Bookings /\ status[b] # "NONE"
      BY <1>1, <2>2, <3>2 DEF Unlocked, Aware
    <3> QED BY <3>2, <3>3
  <2> QED BY <1>5, <2>1, <2>2 DEF Waiting
<1>7. PICK m \in W : \A b \in W : b <= m
  <2>1. PICK n \in Nat : \A b \in Bookings : status[b] # "NONE" => b <= n
    BY DEF Bounded
  <2>2. \A b \in W : b <= n
    BY <1>6, <2>1, KeysDiffer
  <2>3. W \in SUBSET Nat
    BY CalendarAssumption
  <2>4. W # {}
    <3>1. PICK s \in S : TRUE
      OBVIOUS
    <3> QED BY <1>6, <3>1
  <2> HIDE DEF W
  <2> QED BY <2>1, <2>2, <2>3, <2>4, GreatestNumber
<1>8. PICK r \in S : BookingLock(m) \in tx[r].held
  BY <1>7
<1>9. tx[r].command = "block"
  BY <1>3, <1>5, <1>8 DEF Waiting
<1>10. PICK b \in W : NextLock(r) = BookingLock(b) /\ b \in Unlocked(r)
  BY <1>6, <1>9
<1>11. m < b
  BY <1>1, <1>7, <1>8, <1>9, <1>10 DEF Ordered
<1>12. b <= m /\ b \in Nat /\ m \in Nat
  BY <1>7, <1>10, CalendarAssumption
<1> QED BY <1>11, <1>12

-----------------------------------------------------------------------------
(***************************************************************************)
(* Notices, histories, caps and locks                                      *)
(***************************************************************************)

\* What the sessions and the rows have agreed on, beyond the calendar.
Agreed ==
  /\ Guarded
  /\ Bounded
  /\ \A b \in Bookings : Notices(b) /\ Explained(b)
  /\ \A s \in Sessions : Aware(s) /\ Ordered(s)
  /\ NoLiveLoser
  /\ RequestLimits

\* Nothing is announced, recorded or live at first.
LEMMA InitAgreed == Init => Agreed
<1> SUFFICES ASSUME Init PROVE Agreed
  OBVIOUS
<1>1. Guarded
  BY InitGuarded
<1>2. Bounded
  <2>1. \A b \in Bookings : status[b] # "NONE" => b <= 0
    BY DEF Init
  <2> QED BY <2>1 DEF Bounded
<1>3. \A b \in Bookings : Notices(b) /\ Explained(b)
  BY DEF Init, Notices, Explained
<1>4. \A s \in Sessions : Aware(s) /\ Ordered(s)
  BY DEF Init, Aware, Ordered, Idle
<1>5. LivePending(clock) = {}
  BY DEF Init, LivePending
<1>6. NoLiveLoser
  BY <1>5 DEF NoLiveLoser
<1>7. RequestLimits
  <2>1. \A T : T \subseteq {} => Cardinality(T) = 0
    BY FS_EmptySet
  <2>2. /\ \A u : {b \in LivePending(clock) : Borrower(b) = u} = {}
        /\ \A on : {b \in LivePending(clock) : Overlap(Request[b], on)} = {}
    BY <1>5
  <2> QED BY <2>1, <2>2, CalendarAssumption DEF RequestLimits
<1> QED BY <1>1, <1>2, <1>3, <1>4, <1>6, <1>7 DEF Agreed

\* Every step keeps the agreement.
LEMMA StepAgreed == Agreed /\ [Next]_vars => Agreed'
<1> SUFFICES ASSUME Agreed, [Next]_vars PROVE Agreed'
  OBVIOUS
<1>1. /\ Guarded /\ Bounded /\ NoLiveLoser /\ RequestLimits
      /\ \A b \in Bookings : Notices(b) /\ Explained(b)
      /\ \A s \in Sessions : Aware(s) /\ Ordered(s)
  BY DEF Agreed
<1>2. Guarded' /\ Bounded'
  BY <1>1, StepGuarded, BoundedKept
<1>3. \A b \in Bookings : Notices(b)' /\ Explained(b)'
  BY <1>1, AllFates, FateIsTold
<1>4. \A s \in Sessions : Aware(s)' /\ Ordered(s)'
  BY <1>1, AwareKept, OrderKept
<1>5. NoLiveLoser' /\ RequestLimits'
  BY <1>1, LosersKept, LimitsKept
<1> QED BY <1>2, <1>3, <1>4, <1>5 DEF Agreed

\* What is counted, read and announced under the locks stays true until it is written,
\* in every reachable state.
THEOREM AlwaysAgreed == Spec => []Agreed
BY InitAgreed, StepAgreed, PTL DEF Spec

\* Whoever loses to a reservation loses the request at once and is told only that, however
\* many requests arrive or expire while the rival is being confirmed (confirm).
THEOREM LosersAreAlwaysTold == Spec => []LosersAreTold
<1>1. Agreed => LosersAreTold
  BY DEF Agreed, LosersAreTold, NoContradictoryNotices, Notices
<1> QED BY <1>1, AlwaysAgreed, PTL

\* The caps on live requests, per borrower and per day of an item, hold however many
\* creates run at once (create counts under two different locks).
THEOREM CapsHold == Spec => []RequestLimits
<1>1. Agreed => RequestLimits
  BY DEF Agreed
<1> QED BY <1>1, AlwaysAgreed, PTL

\* The last record of a booking's history is how it came to be what it is, although
\* competitors are recorded from a list that was read earlier (confirm, blockUser).
THEOREM HistoryIsExplained == Spec => []HistoryExplainsStatus
<1>1. Agreed => HistoryExplainsStatus
  BY DEF Agreed, Explained, HistoryExplainsStatus
<1> QED BY <1>1, AlwaysAgreed, PTL

\* A cancellation never meets its own key in the outbox, whoever else cancels, confirms
\* or blocks at the same time (cancelPending, blockUser).
THEOREM NoticesNeverCollide == Spec => []NoOutboxCollision
<1>1. Agreed => NoOutboxCollision
  BY DEF Agreed, Aware, NoOutboxCollision
<1> QED BY <1>1, AlwaysAgreed, PTL

\* No set of transactions waits for its own locks, whatever requests exist and however
\* many a block has to lock (create, confirm, blockUser).
THEOREM NoDeadlock == Spec => []NoWaitCycle
<1>1. Agreed => NoWaitCycle
  BY OrderBreaksCircles DEF Agreed
<1> QED BY <1>1, AlwaysAgreed, PTL

=============================================================================
