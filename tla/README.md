# sosedi-app: a verification project

sosedi-app ("Всё рядом") lets neighbours rent items to each other. This directory holds
TLA+ specifications of the parts of its backend, and of its operator console, in which
something can be lost or leaked by an unlucky order of events, the TLC configurations that
check them on small instances, and the proofs TLAPS checks for every instance. Paths below
are relative to the repository root (`src/`); `backend/src` is abbreviated to `b/`.

## 1. The system

A NestJS backend with PostgreSQL (through Prisma) and Redis, several replicas of which may
run; a Flutter client, a React operator console and a static public site are its clients.

| Component | State it keeps | Operations | Hard behaviour | What makes it correct |
|---|---|---|---|---|
| Booking requests and item calendar (`b/booking/booking.service.ts`, `booking-expiry.service.ts`, `booking-availability.service.ts`, `blockUser` in `b/users/users.service.ts`) | Booking, ItemUnavailablePeriod, UserBlock, history and outbox rows | create, confirm, cancel, expire, open/close days, block/unblock | READ COMMITTED transactions with several advisory locks; clocks and lists read before a lock and used after it; a clean-up timer on every replica | no double booking; caps; every request decided once, recorded and announced truthfully; no deadlock |
| Safe deal (`b/payments/*`, `b/booking/booking-act.service.ts`) | Payment, BookingDeposit, DepositOperation, FinancialDispute, BookingAct | checkout, cancel, acts, dispute, decision, deadline refund, operation processor, retry | leases, lost answers, crashes between a payment and its record, retries, races at the end of the dispute window | each part of the deposit is paid once, to whom it was decided, and the item is never out unsecured |
| Workflow contract (`b/common/domain/workflow-contract.ts`) | - | transition tables | - | the commands respect them |
| Outbox, inbox, push (`b/booking/booking-outbox.processor.ts`, `b/notifications/*`) | NotificationOutboxEvent, InboxEvent, PushDelivery, DevicePushToken | deliver, push with leases | several replicas, crash between steps, unfenced lease | each event reaches each participant's inbox once; pushes at least once |
| Photo upload (`b/upload/*`) | UploadIntent, ItemPhoto, Bull queue, S3 objects | intent, three kinds of confirmation, worker, clean-up | intents used once, jobs lost after a commit, a clean-up that lists first and asks later | no needed file removed, nothing left behind |
| Authentication (`b/auth/*`) | codes, refresh tokens and sessions in Redis, `sessionVersion` | request code, verify, refresh, log out, revoke, step up | sequences of Redis commands, replayed tokens, revocation during a refresh | credentials are spent once; a revocation is final |
| Administrator sessions (`b/admin/admin-session.service.ts`, `admin-mfa.service.ts`) | MFA credential, recovery codes, attempt counter, session keys | bootstrap, enrol, step up | overlapping use of one code, access withdrawn meanwhile, a counter in two commands | a code opens one session; no lasting lock-out |
| Listings (`b/items`, `b/admin/admin.service.ts`, `b/categories`, `b/reports`, closure in `b/users`) | Item, Category, UserReport, User | create, edit, hide, photos, approve, reject, report, decide, block, close, anonymize | reads without locks, SERIALIZABLE against READ COMMITTED transactions, a finalizer that stops at an error | what is offered was approved; one decision per report; closed accounts are anonymized |
| Terms and catalogue (`b/booking/booking-terms.ts`, `b/payments/safe-deal-price.ts`, search in `b/items`) | - | price, snapshot and its readers; search in Prisma and in SQL | rounding, two implementations of one search | what is stored can be read back; both searches agree |
| Support (`b/support`) | SupportTicket, SupportMessage, audit log | message, assign, reply, close | several operators, images that expire while they are checked | an image belongs to one message; assignment, reply and closing happen once |
| Chat and reviews (`b/booking/booking-message.service.ts`, `b/reviews`) | BookingMessage, Review | send, page, review, hide, export | counts under different locks, a snapshot older than a lock | rate limits; reviews are revealed together |
| Operator console (`operator/src`) | React state, cookie, server sessions | sign in, load, act, log out | late responses, a shared work place | nothing of a session reaches the next |
| Mobile application, public site, backup, release, observability | client state, none | - | - | out of scope, see section 8 |

How they interact: a booking is born by `create`, becomes a reservation by `confirm`, and is
from then on the business of the safe deal until it is COMPLETED or CANCELLED. All commands
on one booking share the advisory lock `hashtext(bookingId)`; `create` takes the locks of
borrower and item, `confirm` those of booking and item, the calendar that of the item,
`blockUser` that of the pair and then of each booking. Commands write history and outbox rows
in their own transaction; a separate processor turns the outbox into inbox rows and pushes.

An account that is blocked or closed takes its sessions and its listing along; a report's
decision may do either. Push deliveries follow the inbox; photos, evidence and attachments
start as upload intents, which booking acts, disputes and support messages consume. The
operator console drives the administrator commands through a short session of its own.

The list of hazards, each at its line, is in `PROJECT.json` under `hazards`; it is what the
properties were chosen for.

## 2. Modules

| Module | Role |
|---|---|
| `SafeDeal` | the money side of one booking after confirmation |
| `DepositEscrow` | what a deposit promises, abstractly; `SafeDeal` implements it |
| `BookingCalendar` | concurrent request, confirmation, cancellation, expiry, calendar and block transactions |
| `ItemSchedule` | what an item's calendar promises, abstractly; `BookingCalendar` implements it |
| `NotificationOutbox` | outbox, inbox, devices, push deliveries and the two processors |
| `InboxFeed` | what a user's inbox promises, abstractly; `NotificationOutbox` implements it |
| `PhotoUpload` | intents, objects, photos, the queue, the worker and the clean-up |
| `AuthSessions` | one-time codes, tokens, sessions and step-up grants of one user |
| `AdminAccess` | second factor, attempt counter and sessions of one administrator |
| `Listings` | a listing between owner, moderators and a borrower; reports; closure; it extends `BookingTerms` (periods, prices, snapshots) and `Catalogue` (what searches show) |
| `SupportDesk` | one ticket between its author and the operators |
| `BookingDialogue` | messages and reviews of the parties of bookings |
| `OperatorConsole` | the console's page with the sessions of the server |
| `MC...` | constants of the TLC runs, where a `.cfg` cannot hold them |
| `...Proofs` | theorems about the module of that name |

### 2.1 SafeDeal

One booking, because every row the commands touch belongs to one booking and every command
holds its lock: bookings do not interact. It starts CONFIRMED, with or without a deposit.

| State | Code |
|---|---|
| `booking`, `acts`, `payment` | `Booking.status`, `BookingAct` rows, a SUCCEEDED `Payment` |
| `depositStatus`, `refunded`, `released`, `windowEnds` | `BookingDeposit` |
| `disputeStatus`, `decision` | `FinancialDispute` (UNDER_REVIEW is never written by the code) |
| `ops` | `DepositOperation` rows by idempotency key: a leg and a retry number |
| `verdict`, `charges` | the provider's own memory; external to the database |
| `checkoutTx` | the checkout transaction that is open, holding the lock, during provider calls |
| `worker` | local variables of concurrent runs of `DepositOperationProcessor.processPending` |

A command under the lock is one action. These are split: checkout (`CheckoutCall`,
`CheckoutCommit`, `CheckoutAbort`), because it calls the provider in the middle of its
transaction; the processor (`Scan`, `Claim` or `SkipOperation`, `CallProvider`,
`ApplyOutcome`), because each is a transaction or a call of its own, with the clock and the
batch of the scan carried through all of them; and `Crash`, which loses everything a run has
in memory. `OpenDispute` judges the window with a clock up to `MaxWait` old. The
`DEPOSIT_SETTLED` completion is modelled although the model shows that a booking is always
COMPLETED or CANCELLED before it could apply.

The provider is external: it decides an idempotency key once (`verdict`), may decline, and
its answer may be lost. The fake provider of the repository is a special case of it: its
SUCCESS outcome never declines, its DECLINED one always does.

### 2.2 BookingCalendar

| State | Code |
|---|---|
| `status`, `expiresAt`, `reason` | `Booking` columns; a booking is identified by (borrower, clientRequestId) and so exists as a request before its row does |
| `deposit` | `BookingDeposit.status` as far as these commands see it |
| `history`, `outbox` | `BookingTransitionHistory` (old and new status), `NotificationOutboxEvent.deduplicationKey` |
| `periods`, `blocks` | `ItemUnavailablePeriod`, `UserBlock` |
| `tx` | the open transaction of each session: command, locks held, clock read, bookings read |

A transaction is cut where it waits for an advisory lock and between its reads and its
writes. Reads that follow a lock belong to the step that takes it. The insertion of `create`
is one step with its checks under the item's lock: everything those checks read either
changes only under that lock or, like the number of live requests, only shrinks; the block is
the exception, and it is raced by the three steps of `blockUser` instead. Row locks need no
state, since an UPDATE that has waited sees the committed row; a deadlock over row locks of
two multi-row UPDATEs, which PostgreSQL would resolve by an abort, is not modelled (`Abort`
has the same effect). Collisions of `hashtext` are not modelled: they only serialise more.

The calendar sees the rental after confirmation through `HoldDeposit`, `Handover`, `Return`,
`ReturnAndComplete` and `Complete`, the shadows of SafeDeal's commands; their own interleavings
are SafeDeal's subject. Bookings are safe deals; a pay-on-handover booking behaves like one
without a deposit, except that it cannot be cancelled once confirmed.

### 2.3 NotificationOutbox

Both processors poll on timers that do not wait for the previous poll, on every replica, so
each run is a process: it lists a batch (`List`), then handles row after row, cut at each
await, and may end with its process. Instants are kept as the time still to pass, and a
run's "now" as its age, so that stalling runs need no unbounded clock. The database's unique
keys and conditional updates are the guards; the push claim has no fence, as in the code.
Devices move between accounts (`Register`), die at the provider (`TokenDies`, external) and are
removed. What a push says is left out.

### 2.4 PhotoUpload

An intent names one object and, once used, one photo, avatar or piece of evidence; all are
identified by the intent. Requests, jobs and the clean-up are cut where they await database,
storage or queue; `MaxFaults` of these awaits fail or end the process. The clean-up works by
what it has listed. What an object holds, who may ask, the number of photos and the cover are
left out (section 6).

### 2.5 AuthSessions and AdminAccess

One user and one administrator, since keys and rows are per person. A call is cut at each of
its awaits; Redis commands sent together over one connection are one step, and everything that
expires may go at any time. A token is known by its number, a session by its first token.
`revoked` and `overtaken` are history variables: the sessions that existed when all were revoked,
and the sessions being opened while access was withdrawn. Codes are unforgeable: a call presents
one that was sent, or a wrong one. Secrets, hashes, cookies and CSRF tokens are left out.

### 2.6 Listings, BookingTerms, Catalogue

One listing of one owner and its requests. A call is what the handler has read; `approved` is a
history variable with the listings moderators approved. SERIALIZABLE transactions see the database
of their first statement and fail when they write a row that has changed since. `BookingTerms` has
price, fee, snapshot and its readers as operators in kopecks; `Catalogue` has the conditions of
the two searches, the rounding of places and the distances along one axis. `Rental` stands for what
BookingCalendar and SafeDeal do with a booking, as far as it obliges its parties.

### 2.7 SupportDesk and BookingDialogue

A call of SupportDesk reads the ticket, checks its images one at a time and then writes in one
transaction. A message of BookingDialogue takes three advisory locks one after another and counts
by the time it was begun; a review's snapshot is the one of the statement that waits for its first
lock (`SnapshotReview`), and of two reviews that have not seen each other the later fails.

### 2.8 OperatorConsole

A handler of the page is cut where it awaits a response; the server may answer, fail or lose each
request, and revokes sessions at any time. What a list holds is abstracted to the operator whose
session it was loaded with. `Quit` is the logout, which the idle timer also calls.

## 3. Runs

| Run | Instance | Shows |
|---|---|---|
| `safe_deal` | 2 processors, deposit 0 or 2, one retry per leg, window, lease and back-off of 1, clock to 2, crashes and lost answers until instant 1 | fencing by the lease, amounts against the journal, each part paid once, no unsecured item, no early refund, final results; implements `DepositEscrow`; settlements end and undisputed deposits go back |
| `booking_rivals` | 3 requests of 2 borrowers for one item, days 1-2, 2-3, 3-4, a period on day 2, caps of 1 and 2, 2 transactions, clock to 2 | one renter per day and none on closed days, losers are told and told once, the caps hold; implements `ItemSchedule` |
| `booking_blocks` | 2 rival requests, the owner may block one borrower, 2 transactions, clock to 2 | no circular wait, no collision of outbox keys, history agrees with status, a lapsed request is decided |
| `notification_outbox` | 2 outbox runs, 2 events of different address, one token on one device, one crash | a delivery belongs to the device's owner; events arrive; implements `InboxFeed` |
| `push_delivery` | 2 push runs that may outlive their lease or crash, 2 tokens, one of which dies | a token is one device's; only rejected tokens are removed; no claim is for ever |
| `photo_upload` | one upload of any of the five kinds, 2 requests, 3 attempts of a job, 2 faults, clock to 4 | needed files stay; confirmations and quarantine settle |
| `auth_sessions` | 2 overlapping calls, 2 codes, 3 tokens, 1 grant, one revocation | a revocation is final; credentials are spent once |
| `admin_access` | 2 overlapping calls, 1 secret, 1 recovery code, 2 time steps, 2 attempts, one failing call | codes open one session, none survives a withdrawal; the counter expires |
| `listings` | 1 listing with 2 revisions at one price, 1 request, 1 report, one restart or disabled category, one failing finalizer run, 3 searches, 4 places | offers were approved; searches agree; terms read back; reports are decided once; closures complete |
| `support_desk` | 2 overlapping calls, the author and 2 operators, 2 images, 3 messages | images are used once; the desk's entries happen once and in order |
| `booking_dialogue` | 2 overlapping calls, 2 bookings, 3 messages, limits of 2, pages of 1, clock to 1 | rate limits, double-blind reviews, pages that lose nothing |
| `operator_console` | 2 operators with different capabilities, 2 requests besides the logout, 2 sessions | memory and commands belong to the session shown; its end is timed |

Why these bounds: every race of the code is between two transactions or two processor runs at
a time, plus time and crashes, which are free. A deposit of 2 is the smallest that can be split
in two non-zero parts; 0 covers the bookings without one. One clock unit of window, lease and
back-off makes every comparison with the clock come out equal, before and after; the clock
bound lets a lease expire and be taken over, and a window close, within a run. Three requests
are the fewest for which confirming the middle one has two competitors that do not compete with
each other. Time to live 2 and waits of at most 1 keep the real order of magnitude: a
transaction (seconds) is always shorter than the life of a request (twelve hours). In the other modules two calls or runs overlap as well, which is
every race of two actors; each kind of fault happens once. In PhotoUpload uploads meet only in the order in
which the cleanup takes them up, so one is enough for the races of two requests, a job and the cleanup
over it; two faults let a job stall twice, and a job or a cleanup fail that makes up for a request that
was lost, and at 4 a confirmation that came an instant late has been due for rejection. A push run of
age 1 has outlived its lease. `Serves` of Listings gives the owner's
calls, closure and blocking to one call and those of moderators and borrower to the other, both may decide
reports, so that every pair of writes to one row overlaps (a block and a closure as the closure and a decision that
blocks the owner); `Subjects` lets reports and blocking be
about the owner, whose listing is at stake. Two revisions are enough for an approval to be of a
former one (they tell contents apart; the one offer is 1.50 a day, at which the fee is rounded, with a deposit of
NULL, and other prices and deposits are left to the theorem about `TermsReadBack`), four places for both ends of the axis and a cell's border, three searches for one by
price, one by period and one that is refused. A rate window of 0 means that messages of one instant
count together, which two instants tell from the next window. All bounds are named as such where they
are declared (`MaxRetries`, `MaxWait`, `MaxClock`, `Calm`, `Blockers`, `MaxAge`, `MaxTokens`, ...).

Each property of a passing run has a mutant (`PROJECT.json`, `mutants`): a definition of the
model replaced by one with a plausible bug, for which TLC finds the property violated. The
mutants stand directly before the definitions they replace.

Deadlock checking is off where a model may stop: a booking that has ended, at the last instant, or
a bound that is used up. `notification_outbox` and `push_delivery` check it, since their timers go on.

## 4. Fairness

Safety needs none. `SafeDeal!Fairness`: time passes; an open checkout transaction ends (the
database times it out); the deadline worker runs every minute and the processor every five
seconds on each replica, after any crash (`b/payments/deposit-deadline.service.ts:27-40`,
`deposit-operation.processor.ts:51-68`). Weak fairness is enough since nothing else holds the
booking's lock for ever. People, administrators included, are not assumed to act, and the
provider is assumed to answer from instant `Calm` on: with answers lost for ever no settlement
would end. `BookingCalendar!Fairness`: a transaction goes on or is rolled back (Prisma's
timeout), and the expiry of a request is strongly fair, because other transactions may take
its lock again and again: PostgreSQL grants a lock in the order of requests, and the clean-up
asks for it every minute.

`NotificationOutbox!FairSpec`: the timers start runs again and again on each replica, a run goes on
unless it crashes, and time passes; users and the provider are not assumed to act.
`PhotoUpload!FairSpec`: requests go on, the queue works off its jobs (it redelivers stalled ones), the
clean-up runs on its timer and time passes; clients need not upload or confirm. `Listings`: the
finalizer's timer goes on firing; nothing is assumed of owners, moderators or borrowers. The other
modules have no liveness property and assume no fairness.

## 5. Proofs

TLAPS checks the theorems of the `...Proofs` modules for all values of the constants, from the
named assumptions on constants of their modules only.

For `SafeDeal` everything safe the run checks is proved, and more: `SettledExactly`,
`ResolvedAsDecided` and `OneSettlementPath` are stated by theorems only.

| Theorem of `SafeDealProofs` | States |
|---|---|
| `TypeCorrect`, `AlwaysAccounted` | the type invariant; the inductive invariant `Accounted` |
| `AmountsAreJournalled`, `SettlementIsExact`, `DecisionsAreExecuted`, `EachPartIsPaidOnce` | `AmountsMatchJournal`, `SettledExactly`, `ResolvedAsDecided`, `PaidOnce` |
| `LeaseIsAFence`, `ItemIsSecured`, `SettlementPathIsUnique` | `LeaseExclusive`, `ItemOutIsSecured`, `OneSettlementPath` |
| `FinalResults`, `WindowIsHonoured` | the action properties `ResultsAreFinal`, `WindowHonoured` |
| `SafeDealImplementsEscrow` | `SafeDeal` implements `DepositEscrow` |

None of these invariants is inductive alone. `PaidOnce` fails after a step from a state in which an
operation the provider has executed is marked FAILED, or in which legs of two settlements exist;
`SettledExactly` fails from one in which an executed leg has another amount than its part. `Accounted`
adds what the code keeps true without saying it, in five parts: `Statuses` (booking, payment, deposit
and dispute move together, so a decided deposit belongs to an ended booking and an open checkout to
an unpaid CONFIRMED one); `Journal` (operations belong to one settlement, carry the amount of their
part, and an operation is retried only after every earlier one of its leg has failed, hence
`OneUnfailed`: of the operations of one kind at most one has not failed); `Verdict` (a run in flight
works on an existing operation, and journal and run say what the provider said); `Fence` (the token of a
run in flight is at most the lease of its operation, or at most its next attempt when the lease was
given back, and at most the clock of the run that holds the lease: tokens grow with the claims even
though clocks are as old as the scan); `Ledger` (amounts against journal, with `SettledExactly`). The
step lemmas split on the commands, which only schedule operations that do not exist
(`CommandRows`), and the worker, which only ends a pending operation as the provider decided
(`WorkerRows`). `PaidInFull` shows that the test of `applyOutcome` for missing legs never holds a fully
paid deposit back, and `OutcomeRecorded` that its completion of a RETURNED booking never applies.

| Theorem of `BookingCalendarProofs` | States |
|---|---|
| `TypeCorrect`, `AlwaysGuarded` | the type invariant; the inductive invariant `Guarded` |
| `OneRenterPerDay`, `CalendarKept`, `CalendarStaysSound` | `NoDoubleBooking`, `CalendarRespected`, and both as `CalendarIsSound` |
| `MovesAreLegal` | the action property `LegalMoves` |
| `CalendarImplementsSchedule` | `BookingCalendar` implements `ItemSchedule` |
| `AlwaysAgreed` | the inductive invariant `Agreed`, which has `Guarded` as a part |
| `LosersAreAlwaysTold`, `CapsHold` | `LosersAreTold`, `RequestLimits` |
| `HistoryIsExplained`, `NoticesNeverCollide` | `HistoryExplainsStatus`, `NoOutboxCollision` |
| `NoDeadlock` | `NoWaitCycle` |

`NoDoubleBooking` is not inductive because `CommitConfirm` writes by what `CheckConfirm` read some
steps before. `Guarded` says that advisory locks are exclusive (`Exclusive`), that what a transaction
relies on between its read and its write is still so (`Relied`: a confirmation holds its booking's and
item's locks and its request is still confirmable; a cancellation's booking has one of the statuses it
may end from; a block holds the locks of the bookings it will cancel), and that no transaction
outlives its timeout (`Recent`). `Undisturbed` and `LockedWrite` carry this over the steps of the other
sessions: whoever writes what a command has read needs a lock the command holds. The item's lock then
gives the two calendar theorems, booking and user locks with `Recent` give `LegalMoves`, and the
refinement maps every commit that reserves, closes, opens or releases days to one atomic step.
That `blockUser` always has a next lock to ask for, the least it does not hold, needs the
least-number principle (`LeastNumber`), from the library's well-founded induction.

What else the runs check of `BookingCalendar` rests on `Agreed`. Of each booking it says what its
rows in history and outbox may be by its status (`Notices`, `Explained`), of each transaction that what it
has counted or read stays true until it writes (`Aware`) and that the locks it holds come before the one
it asks for (`Ordered`). `Fate` lists everything a step of the specification can do to one booking, and
`AllFates` that there is nothing else, so that the parts about a booking are shown once per fate and not once
per action. The caps need that a create holds the borrower's and the item's lock from its count to its
insertion; `NoLiveLoser`, that every live rival is among those a confirmation has read, because a create of a rival
needs the item's lock. `NoDeadlock` is the argument of ordered locks: among the bookings
waited for in a supposed circle the greatest is held by nobody in it (`OrderBreaksCircles`), and users and
items are locked before bookings or by one command alone.

| Theorem of `OperatorConsoleProofs` on `OperatorConsole` | States |
|---|---|
| `AlwaysOwned` | the inductive invariant `Owned` |
| `MemoryIsKept` | `MemoryIsTheSessions` |
| `SessionIsAlwaysTimed` | `SessionIsTimed` |

`MemoryIsTheSessions` is not inductive: a response to a request of a former session would break it,
and so would a cookie that is not the shown session's. `Owned` says of every request under way which
session it carries and what the page is then allowed to be (`CallFits`), of the page that step, token and
session fit each other (`PageFits`, `ShownFits`), and that while a logout is under way (`Away`) nothing else can be
sent. That `resetToLogin` aborts what is under way is the fact on which every case of a late response rests.

| Theorem of `OperatorConsoleProofs` on `SupportDesk` | States |
|---|---|
| `DeskTypeCorrect` | the type invariant |
| `HistoryIsKept` | `DeskHistory` |
| `ImagesAreUsedOnce` | `AttachmentsUsedOnce` |

Operators act on what they read before, so `DeskHistory` rests on what their writes ask again: `Traced`
says that an answer or a closing in the log has taken its key in the outbox, that a ticket with a log has
an assignee, and that one whose last entry is a closing is CLOSED. `Placed` says that an image is
confirmed exactly when one message holds it; a message whose images are not all still there is rolled
back whole.

| Theorem of `AuthSessionsProofs` | States |
|---|---|
| `TypeCorrect` | the type invariant |
| `RevocationIsFinal` | `RevokedForGood` |
| `EachCredentialOnce` | `CredentialsAreSpentOnce` |

A refresh compares versions one step before it issues its token. `RevokedForGood` is inductive only
with `Versioned`, which says what the record of a call holds at each place (`Fit`): the version it will
sign is never newer than the user's, and is older if its session has been revoked since. For the other
theorem, `OneHolder` says that a credential that has left Redis has one holder, the call that took it or
the token or grant it has become, and `OneEnd` that a session goes on in one refresh token or in one
call. Both rest on the two commands that read and delete at once, `consumeOtpCode` and the `GETDEL` of the
refresh token.

| Theorem of `NotificationOutboxProofs` | States |
|---|---|
| `TypeCorrect` | the type invariant |
| `DeliveriesStayWithTheirUser` | `DeliveriesFollowTheInbox` |
| `TokensAreUnique` | `OneDevicePerToken` |
| `OnlyRejectedDevicesGo` | the action property `RejectedTokensOnly` |
| `OutboxImplementsFeed` | `NotificationOutbox` implements `InboxFeed` |

Deliveries are made from devices read some steps before, and devices change hands. The invariant behind these
theorems says that a row's user never changes and that its id is not used again, that a fan-out's
transaction gives the event to all its recipients or to none, and that a rejection in a run's hand is a true one:
a token that the provider refuses is never accepted again. The refinement maps the commit of that
transaction to the one step in which an event reaches all inboxes, and every other step of the outbox to a stutter.

| Theorem of `AdminAccessProofs` | States |
|---|---|
| `TypeCorrect`, `AlwaysGuarded` | the type invariant; the inductive invariant `Guarded` |
| `SecondFactorAlwaysHolds` | `SecondFactorHolds` |
| `LockoutsEnd` | `LockoutEnds`, if no call fails at `"expire"` |

A step-up checks its code against a credential it has read, and opens its session some steps later.
`Spent` says of a code that it cannot pass again: its time step is not after the last recorded one, or its
recovery row is used. A code is not spent when it passes and is from then on, so the calls that have passed and the sessions
have distinct codes (`Distinct`); a call or session that was overtaken by a withdrawal has an older
version than the user's (`Known`, `Earned`). `LockoutsEnd` has the hypothesis `"expire" \notin FailAt`, which
is how the run sets it and without which it is false: of a process that ends between INCR and EXPIRE see section 6.

| Theorem of `BookingDialogueProofs` | States |
|---|---|
| `TypeCorrect`, `AlwaysKept` | the type invariant; the inductive invariant `Kept` |
| `RateAlwaysHolds` | `RateHolds` |
| `ReviewsStayBlind` | `BlindUntilBoth` |
| `PagesAlwaysFit` | `PagesLoseNothing` |

`RateHolds` counts rows by the time they are given, a sender by the time its call began. `Sending` says that
a call which may insert holds its author's lock and that the room it has counted (`Room`) is still there;
`WindowCounted` then shows that every window around the new message lies within what was counted. `Due`
says of a review that it is published if the other party's is there and due at the deadline otherwise;
that a creation keeps it follows from its snapshot (`Reviewing`) and from the failure of one that missed the
other review, and needs no lock. `PagesLoseNothing` follows from the types alone: time and id order the messages of a booking
(`NewerOrders`), and a finite set of them has a newest and an oldest (`FirstOfFinite`, by the least cardinality
of what comes before).

| Theorem of `ListingsProofs` on `PhotoUpload` | States |
|---|---|
| `AlwaysKept` | the inductive invariant `Kept`, which has the type invariant as a part |
| `FilesAreKept` | `FilesOutliveTheirUse` |

Nothing locks the clean-up and the worker against the requests; what keeps a file is that no path to its deletion
starts from a state in which it is still needed. `RowFits` says how a row the clean-up has read may
be stale: its intent may have been confirmed since, but not if it had expired by more than `Grace` when it was read.
`Passed` says of the object in the clean-up's hand that nobody needs it any more, `JobFits` that a job deletes
a source only after its variants are there and its photo is published or gone, `Fits` that a request which has
consumed an intent began before the intent expired and finds its object. `Kept` needs `Grace` to be at least one
instant: with 0 the clean-up would take a photo whose confirmation is about to commit. In the code it is 24
hours and a request takes seconds.

| Theorem of `ListingsProofs` on `Listings` | States |
|---|---|
| `AlwaysSound` | the inductive invariant `Sound`, which has the type invariant as a part |
| `OffersAreApproved`, `TermsAreReadBack` | `OfferedAsApproved`, `TermsReadBack` |
| `ReportsAreDecidedOnce`, `SearchesAlwaysAgree` | `ReportDecidedOnce`, `SearchesAgree` |

`Sound` says what a call carries from one await to the next (`Carries`): a decision has read an open report, and
a request about to be stored holds an approved listing and the snapshot of it for a scenario that allows its
deposit (`Backed`), which is also what a stored booking holds. That the listing may change or the scenario
be another before the booking is stored is no harm, since only what was read is used. `SnapshotIsReadable`
then does the arithmetic for every price, period and deposit, and `ConditionsAgree`, `CellsAgree` and `BucketExists`
compare the two languages of the catalogue for every entry, query and place. The last three are about pure
operators and hold in every state of the right types.

`OperatorConsoleProofs` and `ListingsProofs` are about two modules each and extend both, which is why the names of `SupportDesk`
and `Listings` that every module has carry a prefix there (`DeskSpec`, `ListingsSpec`, `deskVars`, ...).

Every safety invariant, action property and refinement that a run checks is stated by a theorem. Not proved, and
left to TLC, are the six liveness properties `DepositsMove`, `ExpiredIsDecided`, `EventsArrive`, `NothingStaysClaimed`,
`UploadsSettle` and `ClosureCompletes` (fairness and ENABLED are out of the prover's reach). The theorems are
about the models; that these follow the code is what the map in `PROJECT.json` lets a reader compare, line by line.

## 6. Where documents and code disagree

The model does what the code does. Where a document says otherwise no property states the document's
sentence; `PROJECT.json` lists these cases as findings, with the quoted lines.

| Code | Sentence | What happens |
|---|---|---|
| `b/payments/deposit.service.ts:104` | `docs/superpowers/specs/2026-09-02-safe-deal-deposit-design.md:202` | bookings complete when the refund is scheduled, not when it is executed |
| `b/payments/deposit.service.ts:413` | the same, :126 | a refund declined by the provider outside a dispute has no way to be retried; the deposit stays RESOLVING |
| `b/payments/deposit.service.ts:230` | the same, :80 | a second checkout key is charged before the existing payment is looked at |
| `b/users/users.service.ts:187` | the same, :61 | `blockUser` leaves the deposit of a cancelled request PENDING |
| `b/booking/booking.service.ts:660` | `docs/booking-contract.md:54`, :63 | `confirm` of a rival and `cancel` both record and announce the cancellation of one request |
| `b/booking/booking.service.ts:155` | `docs/booking-chat-contract.md:98` | a request created while the block is being written stays live |
| `b/booking/booking.service.ts:445` | `docs/booking-chat-contract.md:16` | a message enters a request that `confirm` of a rival has just cancelled |
| `b/upload/upload-cleanup.service.ts:129` | `docs/data-retention-and-export.md:45` | the clean-up removes booking evidence and support attachments as orphans a day after their upload |
| `b/admin/admin.service.ts:269` | `docs/endpoint-access-matrix.md:125` | overlapping approval and rejection both succeed; an approval may undo a report's hiding |
| `b/support/support.service.ts:249` | `docs/support-contract.md:41` | a closed ticket takes a message begun before, is reopened and can never be closed again |
| `b/categories/categories.service.ts:160` | `docs/endpoint-access-matrix.md:121` | a category is disabled without a look at its listings |
| `b/users/users.service.ts:241` | `README.md:149` | an account that closes while it is asking for an item is left with an open booking |
| `operator/src/App.tsx:102` | `operator/README.md:19` | a late login response hides an open session and stops its timers |

Weaknesses that contradict no document, and how the models treat them: two confirmations count the photos
of an item before either commits, so the maximum may be passed (`PhotoUpload` leaves the number open); two
verifications of one piece of evidence re-encode its object, and the recorded digest may be the other's
(contents are left out); a session revoked during a refresh lives on in the new token (in `AuthSessions`; only
revoking all sessions is final); a process that ends between INCR and EXPIRE of the attempt counter
leaves a counter without end (`FailAt` of the `admin_access` run excludes that one place, with which
`LockoutEnds` does not hold); a lost logout leaves session and cookie, and a reload of the page signs in again
(in `OperatorConsole`); files chosen during an upload are cleared unsent; the availability filter of
the catalogue counts PENDING requests and not RETURNED ones or closed days, so it is only a hint;
the export contains a counterparty's review that moderation has hidden (in `BlindUntilBoth`); a second review
that fails by serialization is not retried. A rental's Payment stays SUCCEEDED when the booking is cancelled,
the fee policy being open. The fake provider forgets its keys on a restart; the model's remembers, as a real one does.
With both caps of requests at 1, two rivals of a confirmed request cannot exist; the caps of `booking_rivals` are 1 and 2.

## 7. Plan

Done: the modules of section 2 and the proofs of section 5. What would be worth adding next: the mobile client's
token refresh and retries against `AuthSessions`, and the parts of section 1 that are only partly modelled.
