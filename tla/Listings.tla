------------------------------ MODULE Listings ------------------------------
(***************************************************************************)
(* A listing between its owner, the moderators and a borrower: creating,   *)
(* changing, hiding and moderating it, requests for it, reports about it   *)
(* and about its owner, the blocking of accounts and their closure, and    *)
(* the finalizer that anonymizes closed accounts.                          *)
(*                                                                         *)
(* The handlers read before they write, with no lock in between: a call is *)
(* cut at every await whose result it uses later.  Transactions are READ   *)
(* COMMITTED, where an UPDATE takes the row as it is by then, except for   *)
(* the closure, the finalizer and the decision on a report.  These are     *)
(* SERIALIZABLE: they see the database of their first statement, and fail  *)
(* when they write a row that has changed since.  (PostgreSQL also fails   *)
(* one of two serializable transactions that read what the other writes;   *)
(* these three write the rows they depend on, or depend on rows that only  *)
(* READ COMMITTED transactions write.)                                     *)
(*                                                                         *)
(* Requests and rentals are seen as far as they oblige their parties;      *)
(* BookingCalendar and SafeDeal model them.  Rows of the audit log and of  *)
(* the outbox that are written with the change they describe are left out, *)
(* except the audit of decisions on reports.                               *)
(***************************************************************************)
EXTENDS BookingTerms, Catalogue, FiniteSets, Sequences

CONSTANTS
  Calls,               \* concurrent calls of the API
  Serves,              \* bound: the kinds of calls each of them may be
  Owner, Borrower,     \* the listing's owner and somebody who asks for it
  Offers,              \* price per day and deposit a listing may be given
  Stays,               \* periods a request may ask for, first and last day
  Today,
  Bookings,
  Reports,
  Subjects,            \* bound: the users who may be blocked, or close their account
  MaxRevision,         \* bound: revisions of the listing
  Queries,             \* bound: searches of the catalogue
  Places,              \* bound: where listings are, on an axis from First to Last
  First, Last,
  MaxSwitches,         \* bound: restarts with another payment scenario, and disabled categories
  MaxFailures          \* bound: runs of the finalizer that an error ends

Users == {Owner, Borrower}
Targets == {"listing"} \cup Subjects   \* what a report may be about
Kinds == {"owner", "moderation", "blocking", "reports", "requests", "closure"}

ASSUME ListingsAssumption ==
  /\ Owner # Borrower
  /\ Serves \in [Calls -> SUBSET Kinds]
  /\ Offers \subseteq [price : Nat \ {0}, deposit : Nat \cup {NoDeposit}] /\ Offers # {}
  /\ Stays \subseteq [first : Nat, last : Nat]
  /\ Today \in Nat
  /\ Subjects \subseteq Users
  /\ Queries \subseteq [min : Nat \cup {Absent}, max : Nat \cup {Absent},
                         from : Nat \cup {Absent}, to : Nat \cup {Absent},
                         at : Int, radius : Nat \cup {Absent}]
  /\ First \in Int /\ Last \in Int /\ First + Cell <= Last /\ Places \subseteq First .. Last
  /\ MaxRevision \in Nat \ {0} /\ MaxSwitches \in Nat /\ MaxFailures \in Nat

ListingStatuses == {"NONE", "PENDING", "APPROVED", "REJECTED", "HIDDEN"}

VARIABLES
  listing,    \* Item: status, revision of its content, and the offer it makes
  scenario,   \* the payment scenario of the running process
  listable,   \* Category: isActive, and allowed for listings
  switches,   \* how often these two have changed
  account,    \* User: isBlocked, deletedAt, anonymizedAt
  booking,    \* Booking, as far as it obliges: status, paid, terms
  report,     \* UserReport: status and target
  decisions,  \* REPORT_DECIDED entries of the audit log, per report
  approved,   \* the listings moderators have approved, as they were then
  call,       \* the calls being served
  sweep,      \* the finalizer: accounts left in its run, and the one in hand
  failures    \* how many of its runs an error has ended

listingsVars ==
  <<listing, scenario, listable, switches, account, booking, report, decisions, approved, call, sweep,
    failures>>
setting == <<scenario, listable, switches>>
people == <<account, sweep, failures>>
cases == <<report, decisions>>

Listing == [status : ListingStatuses, revision : 0 .. MaxRevision, offer : Offers]
Account == [blocked : BOOLEAN, closed : BOOLEAN, anonymized : BOOLEAN]
NoUser == "nobody"
NoBooking == [status |-> "NONE"]

Idle == [pc |-> "idle"]
NotSweeping == [left |-> {}, user |-> NoUser]

ListingsTypeOK ==
  /\ listing \in Listing
  /\ scenario \in Scenarios /\ listable \in BOOLEAN /\ switches \in 0 .. MaxSwitches
  /\ account \in [Users -> Account]
  /\ DOMAIN booking = Bookings
  /\ \A b \in Bookings : booking[b].status \in {"NONE", "open", "disputed", "ended"}
  /\ report \in [Reports -> [status : {"NONE", "OPEN", "DISMISSED", "ACTIONED"},
                             target : Targets]]
  /\ decisions \in [Reports -> Seq({"dismiss", "act"})]
  /\ approved \subseteq Listing
  /\ DOMAIN call = Calls
  /\ sweep.left \subseteq Users /\ failures \in 0 .. MaxFailures

ListingsInit ==
  /\ listing = [status |-> "NONE", revision |-> 0, offer |-> CHOOSE o \in Offers : TRUE]
  /\ scenario \in Scenarios /\ listable = TRUE /\ switches = 0
  /\ account = [u \in Users |-> [blocked |-> FALSE, closed |-> FALSE, anonymized |-> FALSE]]
  /\ booking = [b \in Bookings |-> NoBooking]
  /\ report = [r \in Reports |-> [status |-> "NONE", target |-> "listing"]]
  /\ decisions = [r \in Reports |-> <<>>]
  /\ approved = {}
  /\ call = [c \in Calls |-> Idle]
  /\ sweep = NotSweeping /\ failures = 0

GoOn(c, record) == call' = [call EXCEPT ![c] = record]
Answer(c) == GoOn(c, Idle)

\* What JwtAuthGuard asks of the actor, and findActiveUser of the account.
Active(u) == ~account[u].blocked /\ ~account[u].closed

Unfinished == \E b \in Bookings : booking[b].status = "open"

\* Both parties of a booking are obliged by it while it is unfinished, while it is in
\* dispute, and for good once there is a payment.
Obliged == \E b \in Bookings :
  \/ booking[b].status \in {"open", "disputed"}
  \/ booking[b].status = "ended" /\ booking[b].paid

-----------------------------------------------------------------------------
(***************************************************************************)
(* The owner's calls.                                                      *)
(***************************************************************************)

\* resolveDepositAmount; the other fields may hold anything but null.
OfferAccepted(offer) == DepositAllowed(DepositOf(offer), scenario)

\* create looks for the category: ensureActiveCategory ...
BeginListing(c, offer) ==
  /\ call[c].pc = "idle" /\ Active(Owner)
  /\ OfferAccepted(offer) /\ listable
  /\ GoOn(c, [pc |-> "insert", offer |-> offer])
  /\ UNCHANGED <<listing, booking, approved, setting, people, cases>>

\* ... and inserts the listing.  A repeated call finds it there and changes nothing.
InsertListing(c) ==
  /\ call[c].pc = "insert"
  /\ listing' = IF listing.status = "NONE"
                THEN [status |-> "PENDING", revision |-> 1, offer |-> call[c].offer]
                ELSE listing
  /\ Answer(c)
  /\ UNCHANGED <<booking, approved, setting, people, cases>>

\* updateOwn, hideOwn and confirmItemPhotoUpload find the listing.
BeginChange(c, change, offer) ==
  /\ call[c].pc = "idle" /\ Active(Owner)
  /\ listing.status # "NONE"
  /\ change = "edit" => OfferAccepted(offer)
  /\ change = "hide" => listing.status # "HIDDEN"
  /\ GoOn(c, [pc |-> "check", change |-> change, offer |-> offer])
  /\ UNCHANGED <<listing, booking, approved, setting, people, cases>>

\* ensureNoUnfinishedBookings.
CheckBookings(c) ==
  /\ call[c].pc = "check"
  /\ IF Unfinished THEN Answer(c) ELSE GoOn(c, [call[c] EXCEPT !.pc = "change"])
  /\ UNCHANGED <<listing, booking, approved, setting, people, cases>>

WriteEdit(c) ==
  /\ call[c].pc = "change" /\ call[c].change = "edit"
  /\ listing.revision < MaxRevision
  /\ listing' = [status |-> "PENDING", revision |-> listing.revision + 1,
                 offer |-> call[c].offer]
  /\ Answer(c)
  /\ UNCHANGED <<booking, approved, setting, people, cases>>

\* As if the photo were added and the listing left as it is.
WritePhotoQuietly(c) ==
  /\ call[c].pc = "change" /\ call[c].change = "photo"
  /\ listing.revision < MaxRevision
  /\ listing' = [listing EXCEPT !.revision = listing.revision + 1]
  /\ Answer(c)
  /\ UNCHANGED <<booking, approved, setting, people, cases>>

\* A confirmed photo is content, too.  (PhotoUpload models the upload itself.)
WritePhoto(c) ==
  /\ call[c].pc = "change" /\ call[c].change = "photo"
  /\ listing.revision < MaxRevision
  /\ listing' = [listing EXCEPT !.status = "PENDING", !.revision = listing.revision + 1]
  /\ Answer(c)
  /\ UNCHANGED <<booking, approved, setting, people, cases>>

WriteHide(c) ==
  /\ call[c].pc = "change" /\ call[c].change = "hide"
  /\ listing' = [listing EXCEPT !.status = "HIDDEN"]
  /\ Answer(c)
  /\ UNCHANGED <<booking, approved, setting, people, cases>>

-----------------------------------------------------------------------------
(***************************************************************************)
(* Moderators.                                                             *)
(***************************************************************************)

\* approveItem and rejectItem: findModeratableItem.
BeginModeration(c, verdict) ==
  /\ call[c].pc = "idle"
  /\ listing.status = "PENDING"
  /\ GoOn(c, [pc |-> "moderate", verdict |-> verdict])
  /\ UNCHANGED <<listing, booking, approved, setting, people, cases>>

\* The listing's status is written whatever it is by then.
Moderate(c) ==
  /\ call[c].pc = "moderate"
  /\ listing' = [listing EXCEPT !.status = call[c].verdict]
  /\ approved' = IF call[c].verdict = "APPROVED" THEN approved \cup {listing'} ELSE approved
  /\ Answer(c)
  /\ UNCHANGED <<booking, setting, people, cases>>

\* blockUser of the administration: no unfinished booking ...
BeginBlock(c, u) ==
  /\ call[c].pc = "idle"
  /\ ~Unfinished
  /\ GoOn(c, [pc |-> "block", user |-> u])
  /\ UNCHANGED <<listing, booking, approved, setting, people, cases>>

\* ... then one conditional update.
Block(c) ==
  /\ call[c].pc = "block"
  /\ account' = IF Active(call[c].user)
                THEN [account EXCEPT ![call[c].user].blocked = TRUE] ELSE account
  /\ Answer(c)
  /\ UNCHANGED <<listing, booking, approved, setting, sweep, failures, cases>>

-----------------------------------------------------------------------------
(***************************************************************************)
(* Reports.                                                                *)
(***************************************************************************)

\* ensureTargetAccess: the listing or the account is there.
TargetFound(target) ==
  IF target = "listing" THEN listing.status # "NONE" ELSE ~account[target].closed

\* create: a second report for the same reason within a day is refused, under the
\* advisory lock of reporter and target, so a report is filed once.
FileReport(r, target) ==
  /\ report[r].status = "NONE"
  /\ TargetFound(target)
  /\ report' = [report EXCEPT ![r] = [status |-> "OPEN", target |-> target]]
  /\ UNCHANGED <<listing, booking, approved, decisions, call, setting, people>>

\* The row that a decision to act on the report writes; to dismiss it writes none.
TargetRow(target) == IF target = "listing" THEN <<listing>> ELSE <<account[target]>>

\* As if the decision were taken on any report.
BeginDecisionAnyway(c, r, decision) ==
  /\ call[c].pc = "idle"
  /\ report[r].status # "NONE"
  /\ decision = "act" /\ report[r].target # "listing" => ~Unfinished
  /\ GoOn(c, [pc |-> "decide", report |-> r, decision |-> decision, seen |-> report[r],
              row |-> IF decision = "act" THEN TargetRow(report[r].target) ELSE <<>>])
  /\ UNCHANGED <<listing, booking, approved, setting, people, cases>>

\* decide takes its snapshot with the statement that asks for the report's advisory lock,
\* so the lock orders two decisions, but the later one still reads the open report.
BeginDecision(c, r, decision) ==
  /\ call[c].pc = "idle"
  /\ report[r].status = "OPEN"
  /\ decision = "act" /\ report[r].target # "listing" => ~Unfinished
  /\ GoOn(c, [pc |-> "decide", report |-> r, decision |-> decision, seen |-> report[r],
              row |-> IF decision = "act" THEN TargetRow(report[r].target) ELSE <<>>])
  /\ UNCHANGED <<listing, booking, approved, setting, people, cases>>

\* The report's new status, and the entry of the audit log.
RecordDecision(r, decision) ==
  /\ report' = [report EXCEPT ![r].status = IF decision = "act" THEN "ACTIONED" ELSE "DISMISSED"]
  /\ decisions' = [decisions EXCEPT ![r] = Append(@, decision)]

\* The target and the report are updated, unless one of the rows has changed since; a user
\* who was blocked or closed already fails the decision.
CommitDecision(c) ==
  LET r == call[c].report
      target == report[r].target
      acts == call[c].decision = "act"
      fails == \/ report[r] # call[c].seen
               \/ acts /\ TargetRow(target) # call[c].row
               \/ acts /\ target # "listing" /\ ~Active(target)
  IN
  /\ call[c].pc = "decide"
  /\ IF fails THEN UNCHANGED <<listing, account, cases>>
     ELSE /\ RecordDecision(r, call[c].decision)
          /\ listing' = IF acts /\ target = "listing"
                        THEN [listing EXCEPT !.status = "HIDDEN"] ELSE listing
          /\ account' = IF acts /\ target # "listing"
                        THEN [account EXCEPT ![target].blocked = TRUE] ELSE account
  /\ Answer(c)
  /\ UNCHANGED <<booking, approved, setting, sweep, failures>>

-----------------------------------------------------------------------------
(***************************************************************************)
(* Requests.                                                               *)
(***************************************************************************)

BeginBooking(c, b, stay) ==
  /\ call[c].pc = "idle" /\ Active(Borrower)
  /\ PeriodAllowed(stay, Today)
  /\ GoOn(c, [pc |-> "book", booking |-> b, stay |-> stay])
  /\ UNCHANGED <<listing, booking, approved, setting, people, cases>>

\* Under the listing's advisory lock create reads the listing and makes its snapshot.
ReadListing(c) ==
  /\ call[c].pc = "book"
  /\ \A d \in Calls : call[d].pc # "store"
  /\ IF /\ listing.status = "APPROVED" /\ Active(Owner)
        /\ DepositAllowed(DepositOf(listing.offer), scenario)
     THEN GoOn(c, [pc |-> "store", booking |-> call[c].booking, stay |-> call[c].stay,
                   source |-> listing,
                   terms |-> Snapshot(listing.offer, call[c].stay, Borrower, Owner, scenario)])
     ELSE Answer(c)
  /\ UNCHANGED <<listing, booking, approved, setting, people, cases>>

\* The booking is inserted; a repeated request returns the one that is there.
StoreBooking(c) ==
  LET b == call[c].booking IN
  /\ call[c].pc = "store"
  /\ booking' = IF booking[b].status = "NONE"
                THEN [booking EXCEPT ![b] =
                       [status |-> "open", paid |-> FALSE, stay |-> call[c].stay,
                        source |-> call[c].source, terms |-> call[c].terms,
                        total |-> call[c].terms.money.total]]
                ELSE booking
  /\ Answer(c)
  /\ UNCHANGED <<listing, approved, setting, people, cases>>

\* What becomes of it: a payment, an end with or without a dispute, the dispute's end.
PayBooking(b) ==
  /\ booking[b].status = "open" /\ ~booking[b].paid
  /\ booking[b].terms.scenario = "FAKE_SAFE_DEAL" /\ scenario = "FAKE_SAFE_DEAL"
  /\ booking' = [booking EXCEPT ![b].paid = TRUE]
  /\ UNCHANGED <<listing, approved, call, setting, people, cases>>

EndBooking(b, status) ==
  /\ \/ booking[b].status = "open"
     \/ booking[b].status = "disputed" /\ status = "ended"
  /\ booking' = [booking EXCEPT ![b].status = status]
  /\ UNCHANGED <<listing, approved, call, setting, people, cases>>

-----------------------------------------------------------------------------
(***************************************************************************)
(* Closing an account.                                                     *)
(***************************************************************************)

\* deleteMe: findActiveUser ...
BeginClosure(c, u) ==
  /\ call[c].pc = "idle" /\ Active(u)
  /\ GoOn(c, [pc |-> "snapshot", user |-> u])
  /\ UNCHANGED <<listing, booking, approved, setting, people, cases>>

\* ... then a serializable transaction looks for what keeps the account ...
SnapshotClosure(c) ==
  /\ call[c].pc = "snapshot"
  /\ GoOn(c, [pc |-> "close", user |-> call[c].user, seen |-> account[call[c].user],
              keep |-> Obliged])
  /\ UNCHANGED <<listing, booking, approved, setting, people, cases>>

\* ... and closes it, anonymized at once if nothing does.
CommitClosure(c) ==
  LET u == call[c].user IN
  /\ call[c].pc = "close"
  /\ account' = IF account[u] # call[c].seen THEN account
                ELSE [account EXCEPT ![u].closed = TRUE,
                                     ![u].anonymized = @ \/ ~call[c].keep]
  /\ Answer(c)
  /\ UNCHANGED <<listing, booking, approved, setting, sweep, failures, cases>>

\* As if the finalizer left out those who were blocked.
ToFinalizeUnblocked == {u \in Users : account[u].closed /\ ~account[u].anonymized
                                        /\ ~account[u].blocked}

\* Accounts the finalizer takes up.
ToFinalize == {u \in Users : account[u].closed /\ ~account[u].anonymized}

\* Every 15 minutes, and when the process starts.
StartSweep ==
  /\ sweep = NotSweeping
  /\ ToFinalize # {}
  /\ sweep' = [left |-> ToFinalize, user |-> NoUser]
  /\ UNCHANGED <<listing, account, booking, approved, call, failures, setting, cases>>

\* One transaction per account; one that is still obliged is passed over.
SweepAccount(u) ==
  /\ u \in sweep.left /\ sweep.user = NoUser
  /\ sweep' = IF Obliged THEN [sweep EXCEPT !.left = @ \ {u}]
              ELSE [left |-> sweep.left, user |-> u, seen |-> account[u]]
  /\ UNCHANGED <<listing, account, booking, approved, call, failures, setting, cases>>

\* A row that has changed meanwhile ends the run.
CommitSweep ==
  LET u == sweep.user IN
  /\ u # NoUser
  /\ IF account[u] # sweep.seen
     THEN sweep' = NotSweeping /\ UNCHANGED account
     ELSE /\ account' = IF account[u].closed THEN [account EXCEPT ![u].anonymized = TRUE]
                        ELSE account
          /\ sweep' = [left |-> sweep.left \ {u}, user |-> NoUser]
  /\ UNCHANGED <<listing, booking, approved, call, failures, setting, cases>>

\* Any other error, too, ends the run and leaves the rest to the next one.
SweepFails ==
  /\ sweep # NotSweeping
  /\ failures < MaxFailures
  /\ failures' = failures + 1 /\ sweep' = NotSweeping
  /\ UNCHANGED <<listing, account, booking, approved, call, setting, cases>>

\* A category is disabled, which no operation takes back, whatever is listed in it.
DisableCategory ==
  /\ listable /\ switches < MaxSwitches
  /\ listable' = FALSE /\ switches' = switches + 1
  /\ UNCHANGED <<listing, scenario, booking, approved, call, people, cases>>

\* The process restarts with the other payment scenario, and its calls are lost.
Restart ==
  /\ switches < MaxSwitches
  /\ switches' = switches + 1
  /\ scenario' \in Scenarios \ {scenario}
  /\ call' = [c \in Calls |-> Idle]
  /\ sweep' = NotSweeping
  /\ UNCHANGED <<listing, listable, account, booking, approved, failures, cases>>

-----------------------------------------------------------------------------
OwnerCall(c) ==
  \/ /\ "owner" \in Serves[c]
     /\ \/ \E o \in Offers : BeginListing(c, o) \/ BeginChange(c, "edit", o)
        \/ \E change \in {"photo", "hide"} : BeginChange(c, change, listing.offer)
  \/ InsertListing(c) \/ CheckBookings(c) \/ WriteEdit(c) \/ WritePhoto(c) \/ WriteHide(c)

ModeratorCall(c) ==
  \/ /\ "moderation" \in Serves[c]
     /\ \E verdict \in {"APPROVED", "REJECTED"} : BeginModeration(c, verdict)
  \/ /\ "blocking" \in Serves[c]
     /\ \E u \in Subjects : BeginBlock(c, u)
  \/ /\ "reports" \in Serves[c]
     /\ \E r \in Reports, decision \in {"dismiss", "act"} : BeginDecision(c, r, decision)
  \/ Moderate(c) \/ Block(c) \/ CommitDecision(c)

BorrowerCall(c) ==
  \/ /\ "requests" \in Serves[c]
     /\ \E b \in Bookings, stay \in Stays : BeginBooking(c, b, stay)
  \/ ReadListing(c) \/ StoreBooking(c)

ClosureCall(c) ==
  \/ /\ "closure" \in Serves[c]
     /\ \E u \in Subjects : BeginClosure(c, u)
  \/ SnapshotClosure(c) \/ CommitClosure(c)

Finalizer ==
  \/ StartSweep \/ CommitSweep
  \/ \E u \in Users : SweepAccount(u)

Rental ==
  \E b \in Bookings :
    \/ PayBooking(b)
    \/ \E status \in {"ended", "disputed"} : EndBooking(b, status)

ListingsNext ==
  \/ \E c \in Calls : OwnerCall(c) \/ ModeratorCall(c) \/ BorrowerCall(c) \/ ClosureCall(c)
  \/ \E r \in Reports, target \in Targets : FileReport(r, target)
  \/ Rental \/ Finalizer \/ SweepFails \/ DisableCategory \/ Restart

\* The finalizer's timer goes on firing, and each of its runs ends.
ListingsSpec == ListingsInit /\ [][ListingsNext]_listingsVars /\ WF_listingsVars(Finalizer)

-----------------------------------------------------------------------------
(***************************************************************************)
(* Properties                                                              *)
(***************************************************************************)

\* The listing as the catalogue asks for it.  Of the unfinished bookings the returned ones
\* no longer hold their days in it; any of them may be one.
Entries ==
  {[status |-> listing.status, listable |-> listable, active |-> Active(Owner),
    price |-> listing.offer.price, stays |-> stays] :
     stays \in SUBSET {booking[b].stay : b \in {k \in Bookings : booking[k].status = "open"}}}

\* What the catalogue offers, and what a booking was made from, is content a moderator
\* approved after its last edit or photo, although neither the owner's calls nor the
\* moderators' nor create lock the listing against each other (an approval does not even
\* name what it approves); and the price of a booking is the one that was offered.
OfferedAsApproved ==
  /\ \A entry \in Entries : PublicById(entry) => listing \in approved
  /\ \A b \in Bookings : booking[b].status # "NONE" =>
       /\ booking[b].source \in approved
       /\ booking[b].terms.perDay = booking[b].source.offer.price

Asked == {q \in Queries : Accepted(q) /\ q.at # Absent}
Within(place, q) == Distance(SparseCellCenter(place, First, Last), q.at) <= Radius(q)
PlacesAgree ==
  \A q \in Asked, place \in Places :
    LET told == GeoResponse(place, q, First, Last)
    IN /\ told.place \in First .. Last
       /\ Within(place, q) => told.bucket = DistanceBucket(Distance(told.place, q.at))
       /\ Within(place, q) => told.bucket # Absent

\* The search around a point finds, within its radius, the same listings as the search
\* without one, none of those on a page are lost when they are read once more, and the distance
\* it tells is the one to the place it tells; a favorite is shown while its page can be opened.
SearchesAgree ==
  /\ \A q \in Asked, entry \in Entries :
       \A place \in Places :
         /\ FoundByGeo(entry, place, q, First, Last) <=> PublicWhere(entry, q) /\ Within(place, q)
         /\ RawConditions(entry, q) => PublicWhere(entry, q)
  /\ \A entry \in Entries : Favorite(entry) <=> PublicById(entry)
  /\ PlacesAgree

\* The terms that listForParticipant and getForParticipant show; the acts, the checkout and
\* the cancellation read them in the same way.
ParticipantTerms(b) ==
  ReadBound(booking[b].terms, Borrower, Owner, booking[b].stay, booking[b].total)

\* Every snapshot that create stores is one its readers accept, at every rounding of the
\* fee, with a deposit of NULL, 0 or more, and whatever the scenario of the process is by
\* then; otherwise the rental could not be handed over.
TermsReadBack ==
  \A b \in Bookings : booking[b].status # "NONE" =>
    ParticipantTerms(b) = booking[b].terms

\* Two moderators may read the same open report; one decision is taken, and recorded.
ReportDecidedOnce ==
  \A r \in Reports :
    decisions[r] = CASE report[r].status = "DISMISSED" -> <<"dismiss">>
                     [] report[r].status = "ACTIONED" -> <<"act">>
                     [] OTHER -> <<>>

\* A closed account is anonymized once nothing keeps it, although an error ends a run of
\* the finalizer for all the accounts that were left in it.  (No others are ever closed.)
ClosureCompletes ==
  \A u \in Subjects :
    (account[u].closed /\ ~Obliged) ~> (account[u].anonymized \/ Obliged)
=============================================================================
