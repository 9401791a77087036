--------------------------- MODULE BookingDialogue ---------------------------
(***************************************************************************)
(* What the two parties of a booking write to each other and about each    *)
(* other: the messages of the booking's chat with their rate limits, and   *)
(* the reviews after it was completed, which stay hidden until both are    *)
(* there or the time for them is over.                                     *)
(*                                                                         *)
(* A message is sent in a READ COMMITTED transaction under three advisory  *)
(* locks.  A review is created in a SERIALIZABLE one, whose snapshot is    *)
(* taken by the statement that asks for the first of its two locks: who    *)
(* waits for a lock reads what was there before.  Of two such transactions *)
(* that did not see each other's review the later one fails.               *)
(*                                                                         *)
(* Texts are left out, and so is whatever else turns a message away: a     *)
(* block between the parties (BookingCalendar) or a closed account         *)
(* (Listings) is a refusal that may come at any time.                      *)
(***************************************************************************)
EXTENDS Naturals, Sequences, FiniteSets

CONSTANTS
  Calls,           \* concurrent calls of the API
  Bookings,        \* bookings of the same two parties
  Writers,         \* bound: the parties who write messages
  Ending,          \* bound: the bookings that are completed, and reviewed
  Keys,            \* clientMessageId
  MaxPerBooking, MaxPerActor,   \* messages of one author in a window
  RateWindow,      \* BOOKING_CHAT_RATE_WINDOW_MS
  ReviewWindow,    \* REVIEW_WINDOW_MS
  PageSize,        \* limit of a page of messages
  MaxClock         \* bound: the time

Parties == {"borrower", "lender"}
Other(party) == IF party = "borrower" THEN "lender" ELSE "borrower"

ASSUME DialogueAssumption ==
  /\ Writers \subseteq Parties /\ Ending \subseteq Bookings
  /\ MaxPerBooking \in Nat /\ MaxPerActor \in Nat
  /\ RateWindow \in Nat /\ ReviewWindow \in Nat /\ MaxClock \in Nat
  /\ Keys \subseteq Nat /\ PageSize \in Nat \ {0}

VARIABLES
  clock,
  completed,     \* Booking: when the history says it was completed, or Never
  messages,      \* BookingMessage rows of the parties
  reviews,       \* Review rows
  lock,          \* advisory locks that are held, and by which call
  call           \* the calls being served

vars == <<clock, completed, messages, reviews, lock, call>>

Never == MaxClock + 1

Message == [booking : Bookings, author : Parties, key : Keys, at : 0 .. MaxClock]
Review == [booking : Bookings, author : Parties, publishAt : 0 .. MaxClock + ReviewWindow,
           hidden : BOOLEAN]

Idle == [pc |-> "idle"]

TypeOK ==
  /\ clock \in 0 .. MaxClock
  /\ completed \in [Bookings -> 0 .. Never]
  /\ messages \subseteq Message /\ reviews \subseteq Review
  /\ \A l \in DOMAIN lock : lock[l] \in Calls
  /\ DOMAIN call = Calls

Init ==
  /\ clock = 0
  /\ completed = [b \in Bookings |-> Never]
  /\ messages = {} /\ reviews = {}
  /\ lock = <<>>
  /\ call = [c \in Calls |-> Idle]

Tick ==
  /\ clock < MaxClock
  /\ clock' = clock + 1
  /\ UNCHANGED <<completed, messages, reviews, lock, call>>

Goto(c, work) == call' = [call EXCEPT ![c] = work]

\* The transaction ends, and its locks are free.
Finish(c) ==
  /\ Goto(c, Idle)
  /\ lock' = [l \in {k \in DOMAIN lock : lock[k] # c} |-> lock[l]]

BookingLock(b) == <<"booking", b>>

\* Asks for the next lock of the transaction.
Lock(c) ==
  /\ call[c].pc = "lock" /\ call[c].locks # <<>>
  /\ LET l == Head(call[c].locks) IN
       /\ l \in DOMAIN lock => lock[l] = c
       /\ lock' = [k \in DOMAIN lock \cup {l} |-> IF k = l THEN c ELSE lock[k]]
  /\ Goto(c, [call[c] EXCEPT !.locks = Tail(@)])
  /\ UNCHANGED <<clock, completed, messages, reviews>>

\* Whatever completes a booking holds its lock.
Complete(b) ==
  /\ completed[b] = Never
  /\ BookingLock(b) \notin DOMAIN lock
  /\ completed' = [completed EXCEPT ![b] = clock]
  /\ UNCHANGED <<clock, messages, reviews, lock, call>>

-----------------------------------------------------------------------------
(***************************************************************************)
(* Messages.                                                               *)
(***************************************************************************)

\* As if the author's bookings were not locked against each other.
SendLocksOfBooking(author, b, key) == <<<<"key", author, key>>, BookingLock(b)>>

SendLocks(author, b, key) ==
  <<<<"rate", author>>, <<"key", author, key>>, BookingLock(b)>>

\* send reads the clock and begins its transaction.
BeginSend(c, author, b, key) ==
  /\ call[c] = Idle
  /\ Goto(c, [pc |-> "lock", does |-> "send", author |-> author, booking |-> b, key |-> key,
              now |-> clock, locks |-> SendLocks(author, b, key)])
  /\ UNCHANGED <<clock, completed, messages, reviews, lock>>

\* Messages of the author that count against one sent now.
Recent(author, now) == {m \in messages : m.author = author /\ m.at + RateWindow >= now}

\* With all locks, send looks for the key, the booking and the rates; a repeated message is
\* returned, and any other obstacle ends the call, too.
CheckSend(c) ==
  LET w == call[c]
      sent == Recent(w.author, w.now)
  IN
  /\ w.pc = "lock" /\ w.does = "send" /\ w.locks = <<>>
  /\ \/ /\ ~\E m \in messages : m.author = w.author /\ m.key = w.key
        /\ completed[w.booking] = Never
        /\ Cardinality({m \in sent : m.booking = w.booking}) < MaxPerBooking
        /\ Cardinality(sent) < MaxPerActor
        /\ Goto(c, [w EXCEPT !.pc = "insert"])
        /\ UNCHANGED lock
     \/ Finish(c)
  /\ UNCHANGED <<clock, completed, messages, reviews>>

\* createdAt is a time between the call's own and the insertion.
InsertMessage(c) ==
  LET w == call[c] IN
  /\ w.pc = "insert"
  /\ \E at \in w.now .. clock :
       messages' = messages \cup {[booking |-> w.booking, author |-> w.author,
                                   key |-> w.key, at |-> at]}
  /\ Finish(c)
  /\ UNCHANGED <<clock, completed, reviews>>

-----------------------------------------------------------------------------
(***************************************************************************)
(* Reviews.                                                                *)
(***************************************************************************)

Deadline(b) == completed[b] + ReviewWindow

Written(rows, b, author) == \E r \in rows : r.booking = b /\ r.author = author

\* create has read the clock ...
BeginReview(c, author, b) ==
  /\ call[c] = Idle
  /\ Goto(c, [pc |-> "snapshot", author |-> author, booking |-> b, now |-> clock])
  /\ UNCHANGED <<clock, completed, messages, reviews, lock>>

\* ... then the transaction's first statement takes the snapshot.
SnapshotReview(c) ==
  LET w == call[c] IN
  /\ w.pc = "snapshot"
  /\ Goto(c, [pc |-> "lock", does |-> "review", author |-> w.author, booking |-> w.booking,
              now |-> w.now, completed |-> completed[w.booking], seen |-> reviews,
              locks |-> <<<<"review", w.author>>, BookingLock(w.booking)>>])
  /\ UNCHANGED <<clock, completed, messages, reviews, lock>>

\* The reviews after the transaction: with the other party's in the snapshot, all that are
\* still to be published are published.
After(w) ==
  LET deadline == w.completed + ReviewWindow
      created == reviews \cup {[booking |-> w.booking, author |-> w.author,
                                publishAt |-> deadline, hidden |-> FALSE]}
  IN IF Written(w.seen, w.booking, Other(w.author))
     THEN {IF r.booking = w.booking /\ r.publishAt > w.now THEN [r EXCEPT !.publishAt = w.now]
           ELSE r : r \in created}
     ELSE created

\* The transaction may create the review: the snapshot shows a completed booking, the time
\* is not over, and there is none of this party yet, whatever the snapshot says.
Reviewable(w) ==
  /\ w.completed # Never /\ w.now <= w.completed + ReviewWindow
  /\ ~Written(reviews, w.booking, w.author)

\* As if it were REPEATABLE READ.
CreateReviewUnserialized(c) ==
  LET w == call[c] IN
  /\ w.pc = "lock" /\ w.does = "review" /\ w.locks = <<>>
  /\ reviews' = IF Reviewable(w) THEN After(w) ELSE reviews
  /\ Finish(c)
  /\ UNCHANGED <<clock, completed, messages>>

\* It fails if the other party's review was committed after the snapshot.
CreateReview(c) ==
  LET w == call[c]
      missed == /\ Written(reviews, w.booking, Other(w.author))
                /\ ~Written(w.seen, w.booking, Other(w.author))
  IN
  /\ w.pc = "lock" /\ w.does = "review" /\ w.locks = <<>>
  /\ reviews' = IF Reviewable(w) /\ ~missed THEN After(w) ELSE reviews
  /\ Finish(c)
  /\ UNCHANGED <<clock, completed, messages>>

\* A moderator hides a published review upon a report.
HideReview(r) ==
  /\ r.publishAt <= clock /\ ~r.hidden
  /\ reviews' = (reviews \ {r}) \cup {[r EXCEPT !.hidden = TRUE]}
  /\ UNCHANGED <<clock, completed, messages, lock, call>>

-----------------------------------------------------------------------------
(***************************************************************************)
(* What readers see.                                                       *)
(***************************************************************************)

\* Pages go from the newest createdAt to the oldest, and by id among equals.  Ids are random:
\* any order of them does.
Id(m) == 2 * m.key + (IF m.author = "lender" THEN 1 ELSE 0)
Newer(m, n) == m.at > n.at \/ (m.at = n.at /\ Id(m) > Id(n))

\* As if the cursor were its time.
BeyondTime(m, cursor) == \A n \in cursor : n.at > m.at

\* The cursor is a message, or there is none.
Beyond(m, cursor) == \A n \in cursor : Newer(n, m)

\* One page of a booking's messages, and the cursor of the next one.
MessagePage(b, cursor) ==
  LET rows == {m \in messages : m.booking = b /\ Beyond(m, cursor)}
      items == {m \in rows : Cardinality({n \in rows : Newer(n, m)}) < PageSize}
  IN [items |-> items,
      next |-> IF items = rows THEN {} ELSE {m \in items : \A n \in items \ {m} : Newer(n, m)}]

\* Reviews a party of the booking gets, those of a public profile, and what is shown of them.
Visible(r) == r.publishAt <= clock /\ ~r.hidden
ReviewsOf(actor, b) == {r \in reviews : r.booking = b /\ (r.author = actor \/ Visible(r))}
PublicReviews(target) == {r \in reviews : Other(r.author) = target /\ Visible(r)}

\* What a party exports of its bookings: the messages, and its own and published reviews,
\* among them the hidden ones.
ExportOf(actor) ==
  [messages |-> messages,
   reviews |-> {r \in reviews : r.author = actor \/ r.publishAt <= clock}]

-----------------------------------------------------------------------------
Next ==
  \/ \E c \in Calls :
       \/ \E author \in Writers, b \in Bookings, key \in Keys : BeginSend(c, author, b, key)
       \/ \E author \in Parties, b \in Ending : BeginReview(c, author, b)
       \/ Lock(c) \/ CheckSend(c) \/ InsertMessage(c)
       \/ SnapshotReview(c) \/ CreateReview(c)
  \/ \E b \in Ending : Complete(b)
  \/ \E r \in reviews : HideReview(r)
  \/ Tick

Spec == Init /\ [][Next]_vars

-----------------------------------------------------------------------------
(***************************************************************************)
(* Properties                                                              *)
(***************************************************************************)

\* In every window no author has more messages than the limits allow, in one booking and
\* over all of them, although a call counts by the time it was begun and inserts after it
\* may have waited for locks.
RateHolds ==
  \A author \in Parties, t \in 0 .. MaxClock :
    LET window == {m \in messages : m.author = author /\ m.at \in t .. t + RateWindow} IN
    /\ Cardinality(window) <= MaxPerActor
    /\ \A b \in Bookings : Cardinality({m \in window : m.booking = b}) <= MaxPerBooking

\* The other party's review can be read, in the list of the booking, on the public profile or
\* in an export, exactly if both have written one or the time for that is over: two parties
\* who review at once do not both wait for the deadline, and nobody reads a review of himself
\* before he has answered it or may no longer do so.  A hidden one stays in exports only.
BlindUntilBoth ==
  \A r \in reviews :
    LET open == \/ Written(reviews, r.booking, Other(r.author))
                \/ clock >= Deadline(r.booking)
        target == Other(r.author)
    IN /\ r \in ExportOf(target).reviews <=> open
       /\ r \in ReviewsOf(target, r.booking) <=> open /\ ~r.hidden
       /\ r \in PublicReviews(target) <=> open /\ ~r.hidden
       /\ r \in ReviewsOf(r.author, r.booking)

\* Who follows the cursors of a booking's messages gets each of them once, even if several
\* were created at the same time, and the same messages as in an export: what is left after a
\* page is on it or after its own cursor, and not both.
PagesLoseNothing ==
  \A b \in Bookings :
    LET rows == {m \in ExportOf("borrower").messages : m.booking = b} IN
    \A cursor \in {{}} \cup {{m} : m \in rows} :
      LET page == MessagePage(b, cursor)
          left == IF page.next = {} THEN {} ELSE {m \in rows : Beyond(m, page.next)}
      IN /\ page.items \cap left = {}
         /\ page.items \cup left = rows \ (cursor \cup {m \in rows : \E n \in cursor : Newer(m, n)})
=============================================================================
