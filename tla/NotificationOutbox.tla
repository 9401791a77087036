-------------------------- MODULE NotificationOutbox --------------------------
(***************************************************************************)
(* Notifications: the transactional outbox and its processor, the inbox,   *)
(* the push tokens of devices and the push delivery processor.             *)
(*                                                                         *)
(* Both processors poll on a timer that does not wait for the previous     *)
(* poll, and several processes may run them, so runs overlap.  A run is a  *)
(* process of its own: it lists a batch and then handles one row after the *)
(* other, and is cut at each of its awaits.                                *)
(*                                                                         *)
(* Time is relative.  An instant stored in a row is kept as the time still *)
(* to pass until it, and what a run calls "now", the instant it started,   *)
(* as its age.  So a run sees an instant as passed when its time to pass   *)
(* is at most minus the age of the run.                                    *)
(***************************************************************************)
EXTENDS Integers, FiniteSets, Sequences, Functions

CONSTANTS
  Users, Installations, Tokens,
  NoOne,
  Events,        \* rows the other components may add to the outbox
  Address,       \* recipientId, participants of bookingId, author of supportTicketId
  RowIds,        \* bound: ids of DevicePushToken rows, in the order they are given out
  OutboxRuns, PushRuns,
  BatchSize,     \* OUTBOX_BATCH_SIZE
  Lease,         \* PUSH_PROCESSING_LEASE_MS, in time units
  InitialRetry,  \* PUSH_INITIAL_RETRY_MS
  MaxRetry,      \* PUSH_MAX_RETRY_MS
  MaxAge,        \* bound: how long a push run may take
  MaxAttempts,   \* bound: where the count of attempts stops growing
  MaxDead,       \* bound: tokens that may be revoked
  MaxCrashes     \* bound: runs that end with their process

ASSUME NotificationAssumption ==
  /\ NoOne \notin Users
  /\ Address \in [Events -> [recipient : Users \cup {NoOne}, participants : SUBSET Users,
                             author : Users \cup {NoOne}]]
  /\ RowIds \subseteq Nat \ {0}
  /\ BatchSize \in Nat \ {0}
  /\ Lease \in Nat \ {0} /\ InitialRetry \in Nat \ {0} /\ MaxRetry \in Nat \ {0}
  /\ MaxAge \in Nat /\ MaxAttempts \in Nat \ {0} /\ MaxDead \in Nat /\ MaxCrashes \in Nat

\* Who gets an event: the recipient it names, else the two participants of its booking,
\* else the author of its support ticket.
Recipients(e) ==
  LET a == Address[e]
  IN  IF a.recipient # NoOne THEN {a.recipient}
      ELSE IF a.participants # {} THEN a.participants
      ELSE {a.author} \ {NoOne}

\* Every component that adds an event names one of the three; the code throws otherwise.
ASSUME EntityAssumption == \A e \in Events : Recipients(e) # {}

DeviceRow == [user : Users, installation : Installations, token : Tokens]

Deliveries == Events \X RowIds
Instant == -MaxAge .. (IF Lease > MaxRetry THEN Lease ELSE MaxRetry)
Delivery == [status : {"PENDING", "PROCESSING", "RETRY", "DELIVERED"},
             attempts : 0 .. MaxAttempts, wait : Instant]
NewDelivery == [status |-> "PENDING", attempts |-> 0, wait |-> 0]

VARIABLES
  published,  \* NotificationOutboxEvent rows, by createdAt
  processed,  \* those with processedAt
  inbox,      \* InboxEvent: absent, unread or read
  rows,       \* DevicePushToken, a function on the ids in the table
  nextRow,    \* the next id
  push,       \* PushDelivery, a function on the keys <<eventId, tokenId>> in the table
  dead,       \* tokens the provider no longer accepts
  accepted,   \* deliveries the provider has accepted
  outboxRun, pushRun,
  crashes

vars == <<published, processed, inbox, rows, nextRow, push, dead, accepted,
          outboxRun, pushRun, crashes>>

\* A run of the outbox holds its batch as positions of published; at is the one in hand.
IdleOutbox == [pc |-> "idle", todo |-> {}, at |-> 0, devices |-> {}]
IdlePush == [pc |-> "idle", age |-> 0, todo |-> {}, at |-> <<>>, attempts |-> 0,
             token |-> NoOne, answer |-> "NONE"]

Answers == {"NONE", "DELIVERED", "INVALID_TOKEN", "RETRY"}

OutboxState == [pc : {"idle", "next", "fill", "commit"},
                todo : SUBSET Nat, at : Nat, devices : SUBSET RowIds]
PushState == [pc : {"idle", "next", "load", "send", "record"},
              age : 0 .. MaxAge, todo : SUBSET Deliveries,
              at : Deliveries \cup {<<>>}, attempts : 0 .. MaxAttempts,
              token : Tokens \cup {NoOne}, answer : Answers]

TypeOK ==
  /\ published \in Seq(Events)
  /\ processed \subseteq Range(published)
  /\ inbox \in [Events \X Users -> {"none", "unread", "read"}]
  /\ DOMAIN rows \subseteq RowIds /\ \A r \in DOMAIN rows : rows[r] \in DeviceRow
  /\ nextRow \in Nat \ {0}
  /\ DOMAIN push \subseteq Deliveries /\ \A d \in DOMAIN push : push[d] \in Delivery
  /\ dead \subseteq Tokens
  /\ accepted \subseteq Deliveries
  /\ outboxRun \in [OutboxRuns -> OutboxState]
  /\ pushRun \in [PushRuns -> PushState]
  /\ crashes \in 0 .. MaxCrashes

Init ==
  /\ published = <<>>
  /\ processed = {}
  /\ inbox = [k \in Events \X Users |-> "none"]
  /\ rows = <<>>
  /\ nextRow = 1
  /\ push = <<>>
  /\ dead = {} /\ accepted = {}
  /\ outboxRun = [o \in OutboxRuns |-> IdleOutbox]
  /\ pushRun = [p \in PushRuns |-> IdlePush]
  /\ crashes = 0

(***************************************************************************)
(* The outbox.                                                             *)
(***************************************************************************)

\* A component commits a transaction with its event.
Publish(e) ==
  /\ e \notin Range(published)
  /\ published' = Append(published, e)
  /\ UNCHANGED <<processed, inbox, rows, nextRow, push, dead, accepted, outboxRun, pushRun, crashes>>

outboxUnchanged == <<published, rows, nextRow, dead, accepted, pushRun>>

\* processPending: the oldest unprocessed events, up to the size of a batch.
OutboxList(o) ==
  LET pending == {i \in DOMAIN published : published[i] \notin processed}
  IN  /\ outboxRun[o].pc = "idle" /\ pending # {}
      /\ outboxRun' = [outboxRun EXCEPT
           ![o] = [@ EXCEPT !.pc = "next",
                            !.todo = {i \in pending :
                                        Cardinality({j \in pending : j < i}) < BatchSize}]]
      /\ UNCHANGED <<processed, inbox, push, crashes>> /\ UNCHANGED outboxUnchanged

\* A run goes on with the rest of its batch.
OutboxRest(o, i) ==
  IF outboxRun[o].todo = {i} THEN IdleOutbox
  ELSE [IdleOutbox EXCEPT !.pc = "next", !.todo = outboxRun[o].todo \ {i}]

\* deliver, in the order of the batch: its transaction looks for the event, which another
\* run may have handled.
OutboxBegin(o, i) ==
  /\ outboxRun[o].pc = "next" /\ i \in outboxRun[o].todo
  /\ \A j \in outboxRun[o].todo : i <= j
  /\ outboxRun' = [outboxRun EXCEPT
       ![o] = IF published[i] \in processed THEN OutboxRest(o, i)
              ELSE [@ EXCEPT !.pc = "fill", !.at = i]]
  /\ UNCHANGED <<processed, inbox, push, crashes>> /\ UNCHANGED outboxUnchanged

\* The event a transaction is about.
InHand(o) == published[outboxRun[o].at]

\* The inbox rows are inserted, which waits for a transaction that has inserted the same
\* keys, and then the devices of the recipients are read.
OutboxFill(o) ==
  LET e == InHand(o)
  IN  /\ outboxRun[o].pc = "fill"
      /\ \A q \in OutboxRuns : outboxRun[q].pc = "commit" => InHand(q) # e
      /\ outboxRun' = [outboxRun EXCEPT
           ![o] = [@ EXCEPT !.pc = "commit",
                            !.devices = {r \in DOMAIN rows : rows[r].user \in Recipients(e)}]]
      /\ UNCHANGED <<processed, inbox, push, crashes>> /\ UNCHANGED outboxUnchanged

\* Mutant of OutboxCommit: existing inbox rows are written again.
OutboxCommitUpserting(o) ==
  LET e == InHand(o)
      new == {<<e, r>> : r \in outboxRun[o].devices} \ DOMAIN push
  IN  /\ outboxRun[o].pc = "commit"
      /\ outboxRun[o].devices \subseteq DOMAIN rows
      /\ inbox' = [k \in Events \X Users |->
                     IF k[1] = e /\ k[2] \in Recipients(e) THEN "unread" ELSE inbox[k]]
      /\ push' = [d \in DOMAIN push \cup new |-> IF d \in new THEN NewDelivery ELSE push[d]]
      /\ processed' = processed \cup {e}
      /\ outboxRun' = [outboxRun EXCEPT ![o] = OutboxRest(o, outboxRun[o].at)]
      /\ UNCHANGED crashes /\ UNCHANGED outboxUnchanged

\* The transaction commits: existing inbox rows and deliveries are skipped.
OutboxCommit(o) ==
  LET e == InHand(o)
      new == {<<e, r>> : r \in outboxRun[o].devices} \ DOMAIN push
  IN  /\ outboxRun[o].pc = "commit"
      /\ outboxRun[o].devices \subseteq DOMAIN rows
      /\ inbox' = [k \in Events \X Users |->
                     IF k[1] = e /\ k[2] \in Recipients(e) /\ inbox[k] = "none"
                     THEN "unread" ELSE inbox[k]]
      /\ push' = [d \in DOMAIN push \cup new |-> IF d \in new THEN NewDelivery ELSE push[d]]
      /\ processed' = processed \cup {e}
      /\ outboxRun' = [outboxRun EXCEPT ![o] = OutboxRest(o, outboxRun[o].at)]
      /\ UNCHANGED crashes /\ UNCHANGED outboxUnchanged

\* Mutant of OutboxAbort: the run tries again with the devices it has read.
OutboxAbortRetrying(o) ==
  /\ outboxRun[o].pc = "commit"
  /\ ~ (outboxRun[o].devices \subseteq DOMAIN rows)
  /\ UNCHANGED <<processed, inbox, push, outboxRun, crashes>> /\ UNCHANGED outboxUnchanged

\* A device whose row was removed since it was read breaks the foreign key of its delivery:
\* the transaction is rolled back and the error ends the whole run.
OutboxAbort(o) ==
  /\ outboxRun[o].pc = "commit"
  /\ ~ (outboxRun[o].devices \subseteq DOMAIN rows)
  /\ outboxRun' = [outboxRun EXCEPT ![o] = IdleOutbox]
  /\ UNCHANGED <<processed, inbox, push, crashes>> /\ UNCHANGED outboxUnchanged

OutboxCrash(o) ==
  /\ outboxRun[o].pc # "idle" /\ crashes < MaxCrashes
  /\ crashes' = crashes + 1
  /\ outboxRun' = [outboxRun EXCEPT ![o] = IdleOutbox]
  /\ UNCHANGED <<processed, inbox, push>> /\ UNCHANGED outboxUnchanged

(***************************************************************************)
(* The inbox.                                                              *)
(***************************************************************************)
inboxUnchanged == <<published, processed, rows, nextRow, push, dead, accepted,
                    outboxRun, pushRun, crashes>>

MarkRead(u, e) ==
  /\ inbox[<<e, u>>] # "none"
  /\ inbox' = [inbox EXCEPT ![<<e, u>>] = "read"]
  /\ UNCHANGED inboxUnchanged

MarkAllRead(u) ==
  /\ inbox' = [k \in Events \X Users |->
                 IF k[2] = u /\ inbox[k] = "unread" THEN "read" ELSE inbox[k]]
  /\ UNCHANGED inboxUnchanged

(***************************************************************************)
(* Devices.                                                                *)
(***************************************************************************)
deviceUnchanged == <<published, processed, inbox, dead, accepted, outboxRun, pushRun, crashes>>

\* Deleting rows deletes their deliveries.
Cascade(gone) == Restrict(push, {d \in DOMAIN push : d[2] \notin gone})

\* Mutants of Register: the row that has the token passes to the new account; the token is
\* not taken from the others.
RegisterReassigning(u, i, t) ==
  LET holder == {r \in DOMAIN rows : rows[r].token = t}
      row == [user |-> u, installation |-> i, token |-> t]
  IN  /\ t \notin dead
      /\ IF holder # {}
         THEN /\ rows' = [r \in DOMAIN rows |-> IF r \in holder THEN row ELSE rows[r]]
              /\ UNCHANGED nextRow
         ELSE /\ nextRow \in RowIds
              /\ rows' = [r \in DOMAIN rows \cup {nextRow} |->
                            IF r = nextRow THEN row ELSE rows[r]]
              /\ nextRow' = nextRow + 1
      /\ UNCHANGED push /\ UNCHANGED deviceUnchanged
RegisterAlongside(u, i, t) ==
  /\ t \notin dead /\ nextRow \in RowIds
  /\ rows' = [r \in DOMAIN rows \cup {nextRow} |->
                IF r = nextRow THEN [user |-> u, installation |-> i, token |-> t] ELSE rows[r]]
  /\ nextRow' = nextRow + 1
  /\ UNCHANGED push /\ UNCHANGED deviceUnchanged

\* register: a serializable transaction takes the token from every other device or account
\* and then inserts or updates the row of this one.
Register(u, i, t) ==
  LET taken == {r \in DOMAIN rows : /\ rows[r].token = t
                                    /\ ~ (rows[r].user = u /\ rows[r].installation = i)}
      own == {r \in DOMAIN rows : rows[r].user = u /\ rows[r].installation = i}
      row == [user |-> u, installation |-> i, token |-> t]
      kept == DOMAIN rows \ taken
  IN  /\ t \notin dead
      /\ push' = Cascade(taken)
      /\ \/ /\ own = {} /\ nextRow \in RowIds
            /\ rows' = [r \in kept \cup {nextRow} |-> IF r = nextRow THEN row ELSE rows[r]]
            /\ nextRow' = nextRow + 1
         \/ /\ own # {}
            /\ rows' = [r \in kept |-> IF r \in own THEN row ELSE rows[r]]
            /\ UNCHANGED nextRow
      /\ UNCHANGED deviceUnchanged

\* remove: the user's own rows only.
RemoveDevice(u, r) ==
  /\ r \in DOMAIN rows /\ rows[r].user = u
  /\ rows' = Restrict(rows, DOMAIN rows \ {r})
  /\ push' = Cascade({r})
  /\ UNCHANGED nextRow /\ UNCHANGED deviceUnchanged

\* The application is uninstalled or its token rotated: the provider stops accepting it.
TokenDies(t) ==
  /\ t \notin dead /\ Cardinality(dead) < MaxDead
  /\ dead' = dead \cup {t}
  /\ UNCHANGED <<published, processed, inbox, rows, nextRow, push, accepted,
                 outboxRun, pushRun, crashes>>

(***************************************************************************)
(* Push deliveries.                                                        *)
(***************************************************************************)
pushUnchanged == <<published, processed, inbox, nextRow, dead, outboxRun>>

\* Mutant of Claimable: a lease that has run out is not looked at.
ClaimableUnleased(d, age) ==
  /\ d \in DOMAIN push
  /\ push[d].status \in {"PENDING", "RETRY"}
  /\ push[d].wait <= -age

\* The condition of both the listing and the claim, for a run of the given age.
Claimable(d, age) ==
  /\ d \in DOMAIN push
  /\ push[d].status \in {"PENDING", "RETRY", "PROCESSING"}
  /\ push[d].wait <= -age

\* processPending: the deliveries that are due, or whose lease is over.
PushList(p) ==
  LET due == {d \in Deliveries : Claimable(d, 0)}
  IN  /\ pushRun[p].pc = "idle" /\ due # {}
      /\ pushRun' = [pushRun EXCEPT ![p] = [@ EXCEPT !.pc = "next", !.todo = due]]
      /\ UNCHANGED <<rows, push, accepted, crashes>> /\ UNCHANGED pushUnchanged

PushRest(p, d) ==
  IF pushRun[p].todo = {d} THEN IdlePush
  ELSE [IdlePush EXCEPT !.pc = "next", !.age = pushRun[p].age, !.todo = pushRun[p].todo \ {d}]

\* deliver: the claim is conditional; its lease counts from the start of the run.
PushClaim(p, d) ==
  /\ pushRun[p].pc = "next" /\ d \in pushRun[p].todo
  /\ IF Claimable(d, pushRun[p].age)
     THEN /\ push' = [push EXCEPT ![d].status = "PROCESSING", ![d].wait = Lease - pushRun[p].age]
          /\ pushRun' = [pushRun EXCEPT ![p] = [@ EXCEPT !.pc = "load", !.at = d]]
     ELSE /\ pushRun' = [pushRun EXCEPT ![p] = PushRest(p, d)]
          /\ UNCHANGED push
  /\ UNCHANGED <<rows, accepted, crashes>> /\ UNCHANGED pushUnchanged

\* The attempts and the token are read after the claim; the delivery may be gone.
PushLoad(p) ==
  LET d == pushRun[p].at
  IN  /\ pushRun[p].pc = "load"
      /\ pushRun' = [pushRun EXCEPT
           ![p] = IF d \in DOMAIN push
                  THEN [@ EXCEPT !.pc = "send", !.attempts = push[d].attempts,
                                 !.token = rows[d[2]].token]
                  ELSE PushRest(p, d)]
      /\ UNCHANGED <<rows, push, accepted, crashes>> /\ UNCHANGED pushUnchanged

\* The provider answers; an error of the call counts as RETRY, also when it came too late
\* and the message was accepted.
PushSend(p) ==
  LET d == pushRun[p].at
  IN  /\ pushRun[p].pc = "send"
      /\ \E answer \in {"DELIVERED", "INVALID_TOKEN", "RETRY"}, taken \in BOOLEAN :
           /\ answer = "DELIVERED" => taken
           /\ answer = "INVALID_TOKEN" => ~ taken
           /\ pushRun[p].token \in dead <=> answer = "INVALID_TOKEN"
           /\ accepted' = IF taken THEN accepted \cup {d} ELSE accepted
           /\ pushRun' = [pushRun EXCEPT ![p] = [@ EXCEPT !.pc = "record", !.answer = answer]]
      /\ UNCHANGED <<rows, push, crashes>> /\ UNCHANGED pushUnchanged

\* 2 ** k for k from 0 to 10, at the places 1 to 11.
PowersOfTwo == <<1, 2, 4, 8, 16, 32, 64, 128, 256, 512, 1024>>

\* PUSH_INITIAL_RETRY_MS * 2 ** min(n - 1, 10), at most PUSH_MAX_RETRY_MS.
Backoff(n) ==
  LET delay == InitialRetry * PowersOfTwo[IF n < 11 THEN n ELSE 11]
  IN  IF delay < MaxRetry THEN delay ELSE MaxRetry

Attempted(n) == IF n < MaxAttempts THEN n + 1 ELSE MaxAttempts

\* updateMany where id and status PROCESSING: the claim may meanwhile be another run's.
Update(d, fields) ==
  IF d \in DOMAIN push /\ push[d].status = "PROCESSING"
  THEN push' = [push EXCEPT ![d] = [fields EXCEPT !.attempts = Attempted(push[d].attempts)]]
  ELSE UNCHANGED push

RecordDelivered(p) ==
  LET d == pushRun[p].at
  IN  /\ pushRun[p].pc = "record" /\ pushRun[p].answer = "DELIVERED"
      /\ Update(d, [status |-> "DELIVERED", attempts |-> 0, wait |-> 0])
      /\ pushRun' = [pushRun EXCEPT ![p] = PushRest(p, d)]
      /\ UNCHANGED <<rows, accepted, crashes>> /\ UNCHANGED pushUnchanged

\* Mutant of RecordInvalid: the row is deleted by its id alone.
RecordInvalidById(p) ==
  LET d == pushRun[p].at
      gone == {d[2]} \cap DOMAIN rows
  IN  /\ pushRun[p].pc = "record" /\ pushRun[p].answer = "INVALID_TOKEN"
      /\ rows' = Restrict(rows, DOMAIN rows \ gone)
      /\ push' = Cascade(gone)
      /\ pushRun' = [pushRun EXCEPT ![p] = PushRest(p, d)]
      /\ UNCHANGED <<accepted, crashes>> /\ UNCHANGED pushUnchanged

\* The row goes, if it still has the token that was sent.
RecordInvalid(p) ==
  LET d == pushRun[p].at
      gone == {r \in DOMAIN rows : r = d[2] /\ rows[r].token = pushRun[p].token}
  IN  /\ pushRun[p].pc = "record" /\ pushRun[p].answer = "INVALID_TOKEN"
      /\ rows' = Restrict(rows, DOMAIN rows \ gone)
      /\ push' = Cascade(gone)
      /\ pushRun' = [pushRun EXCEPT ![p] = PushRest(p, d)]
      /\ UNCHANGED <<accepted, crashes>> /\ UNCHANGED pushUnchanged

\* The next attempt counts from the start of the run and from the attempts it has read.
RecordRetry(p) ==
  LET d == pushRun[p].at
  IN  /\ pushRun[p].pc = "record" /\ pushRun[p].answer = "RETRY"
      /\ Update(d, [status |-> "RETRY", attempts |-> 0,
                    wait |-> Backoff(pushRun[p].attempts + 1) - pushRun[p].age])
      /\ pushRun' = [pushRun EXCEPT ![p] = PushRest(p, d)]
      /\ UNCHANGED <<rows, accepted, crashes>> /\ UNCHANGED pushUnchanged

PushCrash(p) ==
  /\ pushRun[p].pc # "idle" /\ crashes < MaxCrashes
  /\ crashes' = crashes + 1
  /\ pushRun' = [pushRun EXCEPT ![p] = IdlePush]
  /\ UNCHANGED <<rows, push, accepted>> /\ UNCHANGED pushUnchanged

\* A unit of time passes, unless a run would outlive its bound.
Tick ==
  /\ \A p \in PushRuns : pushRun[p].pc # "idle" => pushRun[p].age < MaxAge
  /\ pushRun' = [p \in PushRuns |-> IF pushRun[p].pc = "idle" THEN pushRun[p]
                                    ELSE [pushRun[p] EXCEPT !.age = @ + 1]]
  /\ push' = [d \in DOMAIN push |->
                IF push[d].status # "DELIVERED" /\ push[d].wait > -MaxAge
                THEN [push[d] EXCEPT !.wait = @ - 1] ELSE push[d]]
  /\ UNCHANGED <<rows, accepted, crashes>> /\ UNCHANGED pushUnchanged

(***************************************************************************)
(* The specification.                                                      *)
(***************************************************************************)
OutboxStep(o) ==
  \/ OutboxList(o) \/ \E i \in outboxRun[o].todo : OutboxBegin(o, i)
  \/ OutboxFill(o) \/ OutboxCommit(o) \/ OutboxAbort(o)

PushStep(p) ==
  \/ PushList(p) \/ \E d \in pushRun[p].todo : PushClaim(p, d)
  \/ PushLoad(p) \/ PushSend(p)
  \/ RecordDelivered(p) \/ RecordInvalid(p) \/ RecordRetry(p)

Next ==
  \/ \E e \in Events : Publish(e)
  \/ \E o \in OutboxRuns : OutboxStep(o) \/ OutboxCrash(o)
  \/ \E u \in Users : MarkAllRead(u) \/ \E e \in Events : MarkRead(u, e)
  \/ \E u \in Users, i \in Installations, t \in Tokens : Register(u, i, t)
  \/ \E u \in Users, r \in RowIds : RemoveDevice(u, r)
  \/ \E t \in Tokens : TokenDies(t)
  \/ \E p \in PushRuns : PushStep(p) \/ PushCrash(p)
  \/ Tick

Spec == Init /\ [][Next]_vars

\* The timers start a run again and again, each run goes on, and time passes.
FairSpec ==
  /\ Spec
  /\ \A o \in OutboxRuns : WF_vars(OutboxStep(o))
  /\ \A p \in PushRuns : WF_vars(PushStep(p))
  /\ WF_vars(Tick)

(***************************************************************************)
(* Properties.                                                             *)
(***************************************************************************)

\* Every delivery in the table is that of an event which its device's owner has in his own
\* inbox: a device that changes hands takes no delivery of its former account along.
DeliveriesFollowTheInbox ==
  \A d \in DOMAIN push :
    d[2] \in DOMAIN rows /\ inbox[<<d[1], rows[d[2]].user>>] # "none"

\* A provider's token belongs to one account on one device.
OneDevicePerToken ==
  \A r, q \in DOMAIN rows : rows[r].token = rows[q].token => r = q

\* The push processor removes a device only for a token the provider no longer accepts: a
\* token that was registered while the answer about its predecessor was on the way stays.
RejectedTokensOnly ==
  [][\A p \in PushRuns : pushRun[p].pc = "record" /\ pushRun'[p].pc # "record" =>
       \A r \in DOMAIN rows \ DOMAIN rows' : rows[r].token \in dead]_vars

\* A delivery that a crashed or stalled run has claimed does not stay claimed: again and
\* again there is a moment at which it is not.
NothingStaysClaimed ==
  \A e \in Events, r \in RowIds :
    LET claimed == <<e, r>> \in DOMAIN push /\ push[<<e, r>>].status = "PROCESSING"
    IN  []<> ~ claimed

\* Every published event reaches the inbox of each of its recipients, although a run that
\* meets an error abandons the rest of its batch.
EventsArrive ==
  \A e \in Events, u \in Users :
    e \in Range(published) /\ u \in Recipients(e) ~> inbox[<<e, u>>] # "none"

\* The outbox implements the inbox feed it promises.
Feed == INSTANCE InboxFeed WITH
  Addressees <- [e \in Events |-> Recipients(e)],
  announced <- Range(published),
  entry <- inbox

ImplementsFeed == Feed!Spec
=============================================================================
