----------------------- MODULE NotificationOutboxProofs -----------------------
(***************************************************************************)
(* Theorems about NotificationOutbox, for every set of users, devices,     *)
(* tokens, events and runs, every batch, lease and back-off, and every     *)
(* number of crashes.                                                      *)
(***************************************************************************)
EXTENDS NotificationOutbox, TLAPS

-----------------------------------------------------------------------------
(* The inductive invariant. *)

\* What a run has in hand is a row that exists, or existed when the run read it.
RunsKnowTheirRows ==
  /\ \A o \in OutboxRuns :
       /\ outboxRun[o].todo \subseteq DOMAIN published
       /\ outboxRun[o].pc \in {"fill", "commit"} => outboxRun[o].at \in DOMAIN published
  /\ \A p \in PushRuns :
       pushRun[p].pc \in {"load", "send", "record"} => pushRun[p].at \in Deliveries

\* The id of a removed row is never given out again.
IdsAreNew == \A r \in DOMAIN rows : r < nextRow

\* The unique key of user and installation.
OneRowPerInstallation ==
  \A r, q \in DOMAIN rows :
    rows[r].user = rows[q].user /\ rows[r].installation = rows[q].installation => r = q

\* The devices a transaction has read are, those removed meanwhile aside, devices of the
\* recipients still.
DevicesOfRecipients ==
  \A o \in OutboxRuns : outboxRun[o].pc = "commit" =>
    \A r \in outboxRun[o].devices :
      r < nextRow /\ (r \in DOMAIN rows => rows[r].user \in Recipients(InHand(o)))

\* A rejection that has not been recorded yet was not mistaken.
RejectionsAreTrue ==
  \A p \in PushRuns :
    pushRun[p].pc = "record" /\ pushRun[p].answer = "INVALID_TOKEN" => pushRun[p].token \in dead

\* An event is in the inbox of all of its recipients or of none.
AllOrNone ==
  \A e \in Events : \A u, v \in Recipients(e) :
    inbox[<<e, u>>] = "none" => inbox[<<e, v>>] = "none"

Inv ==
  /\ RunsKnowTheirRows
  /\ IdsAreNew /\ OneRowPerInstallation /\ OneDevicePerToken
  /\ DevicesOfRecipients /\ DeliveriesFollowTheInbox
  /\ RejectionsAreTrue
  /\ AllOrNone

-----------------------------------------------------------------------------
(* The operators of the model. *)

\* Events go to users.
LEMMA RecipientsAreUsers == \A e \in Events : Recipients(e) \subseteq Users
BY NotificationAssumption DEF Recipients

\* A delay of the back-off is positive and at most PUSH_MAX_RETRY_MS.
LEMMA BackoffBounds == \A n \in Nat \ {0} : Backoff(n) \in 1 .. MaxRetry
<1> SUFFICES ASSUME NEW n \in Nat \ {0} PROVE Backoff(n) \in 1 .. MaxRetry
  OBVIOUS
<1> DEFINE k == IF n < 11 THEN n ELSE 11
<1> DEFINE factor == PowersOfTwo[k]
<1>1. k \in 1 .. 11
  OBVIOUS
<1>2. \A j \in 1 .. 11 : PowersOfTwo[j] \in Nat \ {0}
  <2>1. \A j \in 1 .. 11 : \/ j = 1 \/ j = 2 \/ j = 3 \/ j = 4 \/ j = 5 \/ j = 6
                           \/ j = 7 \/ j = 8 \/ j = 9 \/ j = 10 \/ j = 11
    OBVIOUS
  <2>2. QED
    BY <2>1 DEF PowersOfTwo
<1>3. factor \in Nat \ {0}
  BY <1>1, <1>2
<1>4. Backoff(n) = IF InitialRetry * factor < MaxRetry THEN InitialRetry * factor ELSE MaxRetry
  BY DEF Backoff
<1> HIDE DEF factor
<1>5. InitialRetry * factor \in Nat \ {0}
  BY <1>3, NotificationAssumption
<1>6. QED
  BY <1>4, <1>5, NotificationAssumption

\* The instants a push run of a given age writes.
LEMMA InstantTypes ==
  /\ 0 \in Instant
  /\ \A a \in 0 .. MaxAge :
       /\ Lease - a \in Instant
       /\ \A n \in Nat \ {0} : Backoff(n) - a \in Instant
  /\ \A w \in Instant : w > -MaxAge => w - 1 \in Instant
<1> USE NotificationAssumption DEF Instant
<1>1. ASSUME NEW a \in 0 .. MaxAge, NEW n \in Nat \ {0} PROVE Backoff(n) - a \in Instant
  <2>1. PICK b \in 1 .. MaxRetry : Backoff(n) = b
    BY BackoffBounds
  <2>2. QED
    BY <2>1
<1>2. QED
  BY <1>1

\* Rows that outlive a deletion are unchanged.
LEMMA Restricted ==
  ASSUME NEW f, NEW S
  PROVE  DOMAIN Restrict(f, S) = S /\ \A x \in S : Restrict(f, S)[x] = f[x]
BY DEF Restrict

\* A deletion of devices deletes their deliveries and no other.
LEMMA CascadeOf ==
  ASSUME NEW gone
  PROVE  /\ DOMAIN Cascade(gone) = {d \in DOMAIN push : d[2] \notin gone}
         /\ \A d \in DOMAIN Cascade(gone) : Cascade(gone)[d] = push[d]
BY Restricted DEF Cascade

\* The positions and the events of the outbox after an event was added.
LEMMA Appended ==
  ASSUME NEW s \in Seq(Events), NEW e \in Events
  PROVE  /\ Append(s, e) \in Seq(Events)
         /\ DOMAIN s \subseteq DOMAIN Append(s, e)
         /\ \A i \in DOMAIN s : Append(s, e)[i] = s[i]
         /\ Range(Append(s, e)) = Range(s) \cup {e}
<1>1. Append(s, e) \in Seq(Events) /\ Len(Append(s, e)) = Len(s) + 1 /\ Len(s) \in Nat
  OBVIOUS
<1>2. DOMAIN s = 1 .. Len(s) /\ DOMAIN Append(s, e) = 1 .. Len(s) + 1
  BY <1>1
<1>3. \A i \in 1 .. Len(s) : Append(s, e)[i] = s[i]
  OBVIOUS
<1>4. Append(s, e)[Len(s) + 1] = e
  OBVIOUS
<1>5. Range(Append(s, e)) = Range(s) \cup {e}
  BY <1>1, <1>2, <1>3, <1>4 DEF Range
<1>6. QED
  BY <1>1, <1>2, <1>3, <1>5

\* A run that ends, or goes on with the rest of its batch, is a run at rest.
LEMMA RestTypes ==
  ASSUME TypeOK
  PROVE  /\ IdleOutbox \in OutboxState
         /\ \A o \in OutboxRuns, i \in Nat :
              /\ OutboxRest(o, i) \in OutboxState
              /\ OutboxRest(o, i).pc \in {"idle", "next"}
              /\ OutboxRest(o, i).todo \subseteq outboxRun[o].todo
         /\ IdlePush \in PushState
         /\ \A p \in PushRuns, d \in Deliveries :
              /\ PushRest(p, d) \in PushState
              /\ PushRest(p, d).pc \in {"idle", "next"}
<1> USE NotificationAssumption DEF TypeOK, OutboxState, PushState, Answers
<1>1. IdleOutbox \in OutboxState
  BY DEF IdleOutbox
<1>2. IdlePush \in PushState
  BY DEF IdlePush
<1>3. ASSUME NEW o \in OutboxRuns, NEW i \in Nat
      PROVE  /\ OutboxRest(o, i) \in OutboxState
             /\ OutboxRest(o, i).pc \in {"idle", "next"}
             /\ OutboxRest(o, i).todo \subseteq outboxRun[o].todo
  BY DEF OutboxRest, IdleOutbox
<1>4. ASSUME NEW p \in PushRuns, NEW d \in Deliveries
      PROVE  PushRest(p, d) \in PushState /\ PushRest(p, d).pc \in {"idle", "next"}
  <2>1. pushRun[p].todo \in SUBSET Deliveries /\ pushRun[p].age \in 0 .. MaxAge
    OBVIOUS
  <2>2. \A r \in PushState, a \in 0 .. MaxAge, todo \in SUBSET Deliveries :
          [r EXCEPT !.pc = "next", !.age = a, !.todo = todo] \in PushState
    OBVIOUS
  <2>3. PushRest(p, d) \in PushState
    BY <1>2, <2>1, <2>2 DEF PushRest
  <2>4. PushRest(p, d).pc \in {"idle", "next"}
    BY DEF PushRest, IdlePush
  <2>5. QED
    BY <2>3, <2>4
<1>5. QED
  BY <1>1, <1>2, <1>3, <1>4

\* An update of a delivery, whether its claim still stands or not.
LEMMA UpdateTypes ==
  ASSUME TypeOK, NEW d, NEW fields \in Delivery, Update(d, fields)
  PROVE  DOMAIN push' = DOMAIN push /\ \A x \in DOMAIN push : push'[x] \in Delivery
<1>1. \A x \in DOMAIN push : push[x] \in Delivery
  BY DEF TypeOK
<1>2. CASE d \in DOMAIN push /\ push[d].status = "PROCESSING"
  <2>1. push[d].attempts \in 0 .. MaxAttempts
    BY <1>1, <1>2 DEF Delivery
  <2>2. Attempted(push[d].attempts) \in 0 .. MaxAttempts
    BY <2>1, NotificationAssumption DEF Attempted
  <2>3. \A a \in 0 .. MaxAttempts : [fields EXCEPT !.attempts = a] \in Delivery
    BY DEF Delivery
  <2>4. push' = [push EXCEPT ![d] = [fields EXCEPT !.attempts = Attempted(push[d].attempts)]]
    BY <1>2 DEF Update
  <2>5. QED
    BY <1>1, <2>2, <2>3, <2>4
<1>3. CASE ~ (d \in DOMAIN push /\ push[d].status = "PROCESSING")
  BY <1>1, <1>3 DEF Update
<1>4. QED
  BY <1>2, <1>3

-----------------------------------------------------------------------------
(* Type correctness. *)

\* At first no run is under way and the tables are empty.
LEMMA InitTypes == Init => TypeOK
<1> SUFFICES ASSUME Init PROVE TypeOK
  OBVIOUS
<1>1. IdleOutbox \in OutboxState
  BY DEF IdleOutbox, OutboxState
<1>2. IdlePush \in PushState
  BY NotificationAssumption DEF IdlePush, PushState, Answers
<1>3. DOMAIN rows = {} /\ DOMAIN push = {}
  BY DEF Init
<1>4. published \in Seq(Events) /\ processed \subseteq Range(published)
  BY DEF Init
<1>5. outboxRun \in [OutboxRuns -> OutboxState] /\ pushRun \in [PushRuns -> PushState]
  BY <1>1, <1>2 DEF Init
<1>6. inbox \in [Events \X Users -> {"none", "unread", "read"}]
  BY DEF Init
<1>7. nextRow \in Nat \ {0} /\ dead \subseteq Tokens /\ accepted \subseteq Deliveries
  BY DEF Init
<1>8. crashes \in 0 .. MaxCrashes
  BY NotificationAssumption DEF Init
<1>9. QED
  BY <1>3, <1>4, <1>5, <1>6, <1>7, <1>8 DEF TypeOK

\* The steps of the outbox processor keep the types of what they write.
LEMMA OutboxStepTypes ==
  ASSUME TypeOK, Inv, NEW o \in OutboxRuns, OutboxStep(o) \/ OutboxCrash(o)
  PROVE  TypeOK'
<1> USE NotificationAssumption
<1> USE DEF TypeOK, outboxUnchanged
<1>r. outboxRun[o] \in OutboxState /\ outboxRun \in [OutboxRuns -> OutboxState]
  OBVIOUS
<1>w. ASSUME NEW run \in OutboxState, outboxRun' = [outboxRun EXCEPT ![o] = run]
      PROVE  outboxRun' \in [OutboxRuns -> OutboxState]
  BY <1>w
<1>1. CASE OutboxList(o)
  <2> DEFINE pending == {i \in DOMAIN published : published[i] \notin processed}
             batch == {i \in pending : Cardinality({j \in pending : j < i}) < BatchSize}
             run == [outboxRun[o] EXCEPT !.pc = "next", !.todo = batch]
  <2>1. outboxRun' = [outboxRun EXCEPT ![o] = run]
    BY <1>1 DEF OutboxList
  <2>2. batch \in SUBSET Nat
    OBVIOUS
  <2> HIDE DEF batch
  <2>3. run \in OutboxState
    BY <1>r, <2>2 DEF OutboxState
  <2> HIDE DEF run
  <2>4. outboxRun' \in [OutboxRuns -> OutboxState]
    BY <2>1, <2>3, <1>w
  <2>5. QED
    BY <1>1, <2>4 DEF OutboxList
<1>2. ASSUME NEW i \in outboxRun[o].todo, OutboxBegin(o, i) PROVE TypeOK'
  <2> DEFINE run == IF published[i] \in processed THEN OutboxRest(o, i)
                    ELSE [outboxRun[o] EXCEPT !.pc = "fill", !.at = i]
  <2>1. i \in Nat
    BY <1>r DEF OutboxState
  <2>2. outboxRun' = [outboxRun EXCEPT ![o] = run]
    BY <1>2 DEF OutboxBegin
  <2>3. [outboxRun[o] EXCEPT !.pc = "fill", !.at = i] \in OutboxState
    BY <1>r, <2>1 DEF OutboxState
  <2>4. run \in OutboxState
    BY <2>1, <2>3, RestTypes
  <2> HIDE DEF run
  <2>5. outboxRun' \in [OutboxRuns -> OutboxState]
    BY <2>2, <2>4, <1>w
  <2>6. QED
    BY <1>2, <2>5 DEF OutboxBegin
<1>3. CASE OutboxFill(o)
  <2> DEFINE devices == {r \in DOMAIN rows : rows[r].user \in Recipients(InHand(o))}
             run == [outboxRun[o] EXCEPT !.pc = "commit", !.devices = devices]
  <2>1. outboxRun' = [outboxRun EXCEPT ![o] = run]
    BY <1>3 DEF OutboxFill
  <2>2. devices \in SUBSET RowIds
    OBVIOUS
  <2> HIDE DEF devices
  <2>3. run \in OutboxState
    BY <1>r, <2>2 DEF OutboxState
  <2> HIDE DEF run
  <2>4. outboxRun' \in [OutboxRuns -> OutboxState]
    BY <2>1, <2>3, <1>w
  <2>5. QED
    BY <1>3, <2>4 DEF OutboxFill
<1>4. CASE OutboxCommit(o)
  <2> DEFINE e == InHand(o)
             new == {<<e, r>> : r \in outboxRun[o].devices} \ DOMAIN push
  <2>1. outboxRun[o].at \in DOMAIN published
    BY <1>4 DEF OutboxCommit, Inv, RunsKnowTheirRows
  <2>2. e \in Events /\ e \in Range(published)
    BY <2>1 DEF InHand, Range
  <2> HIDE DEF e
  <2>3. outboxRun' \in [OutboxRuns -> OutboxState]
    <3>1. outboxRun[o].at \in Nat
      BY <1>r DEF OutboxState
    <3>2. OutboxRest(o, outboxRun[o].at) \in OutboxState
      BY <3>1, RestTypes
    <3>3. QED
      BY <1>4, <3>2, <1>w DEF OutboxCommit
  <2>4. new \subseteq Deliveries
    BY <1>r, <2>2 DEF OutboxState, Deliveries
  <2>5. NewDelivery \in Delivery
    BY InstantTypes DEF NewDelivery, Delivery
  <2>6. push' = [d \in DOMAIN push \cup new |-> IF d \in new THEN NewDelivery ELSE push[d]]
    BY <1>4 DEF OutboxCommit, e
  <2> HIDE DEF new
  <2>7. DOMAIN push' \subseteq Deliveries /\ \A d \in DOMAIN push' : push'[d] \in Delivery
    BY <2>4, <2>5, <2>6
  <2>8. inbox' \in [Events \X Users -> {"none", "unread", "read"}]
    BY <1>4 DEF OutboxCommit
  <2>9. processed' \subseteq Range(published)
    BY <1>4, <2>2 DEF OutboxCommit, e
  <2>10. QED
    BY <1>4, <2>3, <2>7, <2>8, <2>9 DEF OutboxCommit
<1>5. CASE OutboxAbort(o)
  BY <1>5, <1>w, RestTypes DEF OutboxAbort
<1>6. CASE OutboxCrash(o)
  BY <1>6, <1>w, RestTypes DEF OutboxCrash
<1>7. QED
  BY <1>1, <1>2, <1>3, <1>4, <1>5, <1>6 DEF OutboxStep

\* The steps of the push processor keep the types of what they write.
LEMMA PushStepTypes ==
  ASSUME TypeOK, Inv, NEW p \in PushRuns, PushStep(p) \/ PushCrash(p)
  PROVE  TypeOK'
<1> USE NotificationAssumption
<1> USE DEF TypeOK, pushUnchanged
<1>r. pushRun[p] \in PushState
  OBVIOUS
<1>w. ASSUME NEW run \in PushState, pushRun' = [pushRun EXCEPT ![p] = run]
      PROVE  pushRun' \in [PushRuns -> PushState]
  BY <1>w
<1>b. ASSUME pushRun[p].pc \in {"load", "send", "record"}
      PROVE  pushRun[p].at \in Deliveries
  BY <1>b DEF Inv, RunsKnowTheirRows
<1>a. pushRun[p].age \in 0 .. MaxAge
  BY <1>r DEF PushState
<1>1. CASE PushList(p)
  <2> DEFINE due == {d \in Deliveries : Claimable(d, 0)}
             run == [pushRun[p] EXCEPT !.pc = "next", !.todo = due]
  <2>1. pushRun' = [pushRun EXCEPT ![p] = run]
    BY <1>1 DEF PushList
  <2>2. due \in SUBSET Deliveries
    OBVIOUS
  <2> HIDE DEF due
  <2>3. run \in PushState
    BY <1>r, <2>2 DEF PushState
  <2> HIDE DEF run
  <2>4. pushRun' \in [PushRuns -> PushState]
    BY <2>1, <2>3, <1>w
  <2>5. QED
    BY <1>1, <2>4 DEF PushList
<1>2. ASSUME NEW d \in pushRun[p].todo, PushClaim(p, d) PROVE TypeOK'
  <2>1. d \in Deliveries
    BY <1>r DEF PushState
  <2>2. CASE Claimable(d, pushRun[p].age)
    <3> DEFINE run == [pushRun[p] EXCEPT !.pc = "load", !.at = d]
    <3>1. pushRun' = [pushRun EXCEPT ![p] = run]
      BY <1>2, <2>2 DEF PushClaim
    <3>2. run \in PushState
      BY <1>r, <2>1 DEF PushState
    <3> HIDE DEF run
    <3>3. pushRun' \in [PushRuns -> PushState]
      BY <3>1, <3>2, <1>w
    <3>4. Lease - pushRun[p].age \in Instant
      BY <1>a, InstantTypes
    <3>5. \A x \in Delivery, t \in Instant :
            [x EXCEPT !.status = "PROCESSING", !.wait = t] \in Delivery
      BY DEF Delivery
    <3>6. push' = [push EXCEPT ![d] = [push[d] EXCEPT !.status = "PROCESSING",
                                                      !.wait = Lease - pushRun[p].age]]
      BY <1>2, <2>2 DEF PushClaim
    <3>7. DOMAIN push' = DOMAIN push /\ \A x \in DOMAIN push : push'[x] \in Delivery
      BY <2>2, <3>4, <3>5, <3>6 DEF Claimable
    <3>8. QED
      BY <1>2, <3>3, <3>7 DEF PushClaim
  <2>3. CASE ~ Claimable(d, pushRun[p].age)
    <3>1. pushRun' \in [PushRuns -> PushState]
      BY <1>2, <2>1, <2>3, <1>w, RestTypes DEF PushClaim
    <3>2. QED
      BY <1>2, <2>3, <3>1 DEF PushClaim
  <2>4. QED
    BY <2>2, <2>3
<1>3. CASE PushLoad(p)
  <2> DEFINE d == pushRun[p].at
  <2>1. d \in Deliveries
    BY <1>3, <1>b DEF PushLoad
  <2>2. CASE d \in DOMAIN push
    <3> DEFINE run == [pushRun[p] EXCEPT !.pc = "send", !.attempts = push[d].attempts,
                                         !.token = rows[d[2]].token]
    <3>1. pushRun' = [pushRun EXCEPT ![p] = run]
      BY <1>3, <2>2 DEF PushLoad
    <3>2. d[2] \in DOMAIN rows
      BY <2>2 DEF Inv, DeliveriesFollowTheInbox
    <3>3. rows[d[2]].token \in Tokens /\ push[d].attempts \in 0 .. MaxAttempts
      BY <2>2, <3>2 DEF DeviceRow, Delivery
    <3>4. \A run0 \in PushState, a \in 0 .. MaxAttempts, t \in Tokens :
            [run0 EXCEPT !.pc = "send", !.attempts = a, !.token = t] \in PushState
      BY DEF PushState
    <3>5. run \in PushState
      BY <1>r, <3>3, <3>4
    <3> HIDE DEF run
    <3>6. pushRun' \in [PushRuns -> PushState]
      BY <3>1, <3>5, <1>w
    <3>7. QED
      BY <1>3, <3>6 DEF PushLoad
  <2>3. CASE d \notin DOMAIN push
    <3>1. pushRun' \in [PushRuns -> PushState]
      BY <1>3, <2>1, <2>3, <1>w, RestTypes DEF PushLoad
    <3>2. QED
      BY <1>3, <3>1 DEF PushLoad
  <2>4. QED
    BY <2>2, <2>3
<1>4. CASE PushSend(p)
  <2>1. pushRun[p].at \in Deliveries
    BY <1>4, <1>b DEF PushSend
  <2>2. PICK answer \in {"DELIVERED", "INVALID_TOKEN", "RETRY"}, taken \in BOOLEAN :
          /\ accepted' = IF taken THEN accepted \cup {pushRun[p].at} ELSE accepted
          /\ pushRun' = [pushRun EXCEPT
               ![p] = [pushRun[p] EXCEPT !.pc = "record", !.answer = answer]]
    BY <1>4 DEF PushSend
  <2>3. \A run0 \in PushState : [run0 EXCEPT !.pc = "record", !.answer = answer] \in PushState
    BY DEF PushState, Answers
  <2>4. pushRun' \in [PushRuns -> PushState]
    BY <1>r, <2>2, <2>3, <1>w
  <2>5. accepted' \subseteq Deliveries
    BY <2>1, <2>2
  <2>6. QED
    BY <1>4, <2>4, <2>5 DEF PushSend
<1>5. CASE RecordDelivered(p)
  <2> DEFINE fields == [status |-> "DELIVERED", attempts |-> 0, wait |-> 0]
  <2>1. pushRun[p].at \in Deliveries
    BY <1>5, <1>b DEF RecordDelivered
  <2>2. fields \in Delivery
    BY InstantTypes DEF Delivery
  <2>3. Update(pushRun[p].at, fields)
    BY <1>5 DEF RecordDelivered
  <2> HIDE DEF fields
  <2>4. DOMAIN push' = DOMAIN push /\ \A x \in DOMAIN push : push'[x] \in Delivery
    BY <2>2, <2>3, UpdateTypes
  <2>5. pushRun' \in [PushRuns -> PushState]
    BY <1>5, <2>1, <1>w, RestTypes DEF RecordDelivered
  <2>6. QED
    BY <1>5, <2>4, <2>5 DEF RecordDelivered
<1>6. CASE RecordInvalid(p)
  <2> DEFINE gone == {r \in DOMAIN rows :
                        r = pushRun[p].at[2] /\ rows[r].token = pushRun[p].token}
  <2>1. pushRun[p].at \in Deliveries
    BY <1>6, <1>b DEF RecordInvalid
  <2>2. rows' = Restrict(rows, DOMAIN rows \ gone) /\ push' = Cascade(gone)
    BY <1>6 DEF RecordInvalid
  <2> HIDE DEF gone
  <2>3. DOMAIN rows' \subseteq RowIds /\ \A r \in DOMAIN rows' : rows'[r] \in DeviceRow
    BY <2>2, Restricted
  <2>4. DOMAIN push' \subseteq Deliveries /\ \A d \in DOMAIN push' : push'[d] \in Delivery
    BY <2>2, CascadeOf
  <2>5. pushRun' \in [PushRuns -> PushState]
    BY <1>6, <2>1, <1>w, RestTypes DEF RecordInvalid
  <2>6. QED
    BY <1>6, <2>3, <2>4, <2>5 DEF RecordInvalid
<1>7. CASE RecordRetry(p)
  <2> DEFINE delay == Backoff(pushRun[p].attempts + 1) - pushRun[p].age
             fields == [status |-> "RETRY", attempts |-> 0, wait |-> delay]
  <2>1. pushRun[p].at \in Deliveries
    BY <1>7, <1>b DEF RecordRetry
  <2>2. pushRun[p].attempts + 1 \in Nat \ {0}
    BY <1>r DEF PushState
  <2>3. delay \in Instant
    BY <1>a, <2>2, InstantTypes
  <2> HIDE DEF delay
  <2>4. fields \in Delivery
    BY <2>3, NotificationAssumption DEF Delivery
  <2>5. Update(pushRun[p].at, fields)
    BY <1>7 DEF RecordRetry, delay
  <2> HIDE DEF fields
  <2>6. DOMAIN push' = DOMAIN push /\ \A x \in DOMAIN push : push'[x] \in Delivery
    BY <2>4, <2>5, UpdateTypes
  <2>7. pushRun' \in [PushRuns -> PushState]
    BY <1>7, <2>1, <1>w, RestTypes DEF RecordRetry
  <2>8. QED
    BY <1>7, <2>6, <2>7 DEF RecordRetry
<1>8. CASE PushCrash(p)
  BY <1>8, <1>w, RestTypes DEF PushCrash
<1>9. QED
  BY <1>1, <1>2, <1>3, <1>4, <1>5, <1>6, <1>7, <1>8 DEF PushStep

\* Time keeps the types of the leases and of the ages.
LEMMA TickTypes == TypeOK /\ Tick => TypeOK'
<1> SUFFICES ASSUME TypeOK, Tick PROVE TypeOK'
  OBVIOUS
<1> USE NotificationAssumption DEF TypeOK
<1>1. ASSUME NEW q \in PushRuns, pushRun[q].pc # "idle"
      PROVE  [pushRun[q] EXCEPT !.age = pushRun[q].age + 1] \in PushState
  <2>1. pushRun[q].age + 1 \in 0 .. MaxAge
    BY <1>1 DEF Tick, PushState
  <2>2. \A run \in PushState, a \in 0 .. MaxAge : [run EXCEPT !.age = a] \in PushState
    BY DEF PushState
  <2>3. QED
    BY <2>1, <2>2
<1>2. pushRun' = [q \in PushRuns |-> IF pushRun[q].pc = "idle" THEN pushRun[q]
                                     ELSE [pushRun[q] EXCEPT !.age = pushRun[q].age + 1]]
  BY DEF Tick
<1>3. pushRun' \in [PushRuns -> PushState]
  BY <1>1, <1>2
<1>4. ASSUME NEW d \in DOMAIN push, push[d].wait > -MaxAge
      PROVE  [push[d] EXCEPT !.wait = push[d].wait - 1] \in Delivery
  <2>1. push[d] \in Delivery /\ push[d].wait \in Instant
    BY DEF Delivery
  <2>2. push[d].wait - 1 \in Instant
    BY <1>4, <2>1, InstantTypes
  <2>3. \A x \in Delivery, t \in Instant : [x EXCEPT !.wait = t] \in Delivery
    BY DEF Delivery
  <2>4. QED
    BY <2>1, <2>2, <2>3
<1>5. push' = [d \in DOMAIN push |->
                 IF push[d].status # "DELIVERED" /\ push[d].wait > -MaxAge
                 THEN [push[d] EXCEPT !.wait = push[d].wait - 1] ELSE push[d]]
  BY DEF Tick
<1>6. DOMAIN push' = DOMAIN push /\ \A d \in DOMAIN push : push'[d] \in Delivery
  BY <1>4, <1>5
<1>7. QED
  BY <1>3, <1>6 DEF Tick, pushUnchanged

-----------------------------------------------------------------------------
(* What happens to the rows of the devices. *)

\* Rows come and go, but a row that stays is its user's for good, a new one has a new id,
\* and a delivery goes with its device.
DevicesMove ==
  /\ nextRow' \in Nat /\ nextRow <= nextRow'
  /\ \A r \in DOMAIN rows' :
       /\ r < nextRow'
       /\ r \in DOMAIN rows => rows'[r].user = rows[r].user
       /\ r \notin DOMAIN rows => r >= nextRow
  /\ \A d \in DOMAIN push' : d \in DOMAIN push /\ d[2] \in DOMAIN rows'

\* Removing rows.
LEMMA RemovalOf ==
  ASSUME TypeOK, Inv, NEW gone, UNCHANGED nextRow,
         rows' = Restrict(rows, DOMAIN rows \ gone), push' = Cascade(gone)
  PROVE  /\ DevicesMove
         /\ DOMAIN rows' \subseteq RowIds /\ \A r \in DOMAIN rows' : rows'[r] \in DeviceRow
         /\ DOMAIN push' \subseteq Deliveries /\ \A d \in DOMAIN push' : push'[d] \in Delivery
         /\ OneRowPerInstallation' /\ OneDevicePerToken'
<1>1. DOMAIN rows' = DOMAIN rows \ gone /\ \A r \in DOMAIN rows' : rows'[r] = rows[r]
  BY Restricted
<1>2. /\ DOMAIN push' = {d \in DOMAIN push : d[2] \notin gone}
      /\ \A d \in DOMAIN push' : push'[d] = push[d]
  BY CascadeOf
<1>3. \A d \in DOMAIN push : d[2] \in DOMAIN rows
  BY DEF Inv, DeliveriesFollowTheInbox
<1>4. nextRow \in Nat /\ \A r \in DOMAIN rows : r < nextRow
  BY DEF TypeOK, Inv, IdsAreNew
<1>5. DevicesMove
  BY <1>1, <1>2, <1>3, <1>4 DEF DevicesMove
<1>6. OneRowPerInstallation' /\ OneDevicePerToken'
  <2>1. \A r \in DOMAIN rows' : r \in DOMAIN rows /\ rows'[r] = rows[r]
    BY <1>1
  <2>2. OneRowPerInstallation'
    BY <2>1 DEF Inv, OneRowPerInstallation
  <2>3. OneDevicePerToken'
    BY <2>1 DEF Inv, OneDevicePerToken
  <2>4. QED
    BY <2>2, <2>3
<1>7. QED
  BY <1>1, <1>2, <1>5, <1>6 DEF TypeOK

\* Registering a device: every other row keeps its content, has another token and is of
\* another installation or account.
LEMMA RegistrationOf ==
  ASSUME TypeOK, Inv, NEW u \in Users, NEW i \in Installations, NEW t \in Tokens,
         Register(u, i, t)
  PROVE  /\ DevicesMove
         /\ DOMAIN rows' \subseteq RowIds /\ \A r \in DOMAIN rows' : rows'[r] \in DeviceRow
         /\ DOMAIN push' \subseteq Deliveries /\ \A d \in DOMAIN push' : push'[d] \in Delivery
         /\ OneRowPerInstallation' /\ OneDevicePerToken'
         /\ nextRow' \in Nat \ {0}
<1> DEFINE taken == {r \in DOMAIN rows : /\ rows[r].token = t
                                         /\ ~ (rows[r].user = u /\ rows[r].installation = i)}
           own == {r \in DOMAIN rows : rows[r].user = u /\ rows[r].installation = i}
           row == [user |-> u, installation |-> i, token |-> t]
           kept == DOMAIN rows \ taken
<1>1. /\ push' = Cascade(taken)
      /\ \/ /\ own = {} /\ nextRow \in RowIds
            /\ rows' = [r \in kept \cup {nextRow} |-> IF r = nextRow THEN row ELSE rows[r]]
            /\ nextRow' = nextRow + 1
         \/ /\ own # {}
            /\ rows' = [r \in kept |-> IF r \in own THEN row ELSE rows[r]]
            /\ nextRow' = nextRow
  BY DEF Register
<1>2. /\ nextRow \in Nat \ {0} /\ \A r \in DOMAIN rows : r \in Nat /\ r < nextRow
      /\ RowIds \subseteq Nat
  BY NotificationAssumption DEF TypeOK, Inv, IdsAreNew
<1>3. /\ DOMAIN push' = {d \in DOMAIN push : d[2] \notin taken}
      /\ \A d \in DOMAIN push' : push'[d] = push[d]
  BY <1>1, CascadeOf
<1>4. \A d \in DOMAIN push : d[2] \in DOMAIN rows
  BY DEF Inv, DeliveriesFollowTheInbox
<1>5. row \in DeviceRow /\ row.user = u /\ row.installation = i /\ row.token = t
  BY DEF DeviceRow
<1>6. \A r \in kept \ own : /\ r \in DOMAIN rows /\ rows[r].token # t
                            /\ ~ (rows[r].user = u /\ rows[r].installation = i)
  OBVIOUS
<1>7. \A r, q \in own : r = q
  BY DEF Inv, OneRowPerInstallation
<1>8. \A r \in own : r \in kept /\ rows[r].user = u
  OBVIOUS
<1>9. \A r \in kept : r \in DOMAIN rows /\ rows[r] \in DeviceRow /\ r \in RowIds
  BY DEF TypeOK
<1>10. \A r, q \in kept :
         /\ rows[r].token = rows[q].token => r = q
         /\ rows[r].user = rows[q].user /\ rows[r].installation = rows[q].installation => r = q
  BY DEF Inv, OneDevicePerToken, OneRowPerInstallation
<1>11. DOMAIN rows \ taken = kept
  OBVIOUS
<1> HIDE DEF row, own, taken
<1>12. CASE own = {}
  <2>1. /\ DOMAIN rows' = kept \cup {nextRow} /\ nextRow \in RowIds /\ nextRow \notin kept
        /\ rows'[nextRow] = row
        /\ \A r \in kept : rows'[r] = rows[r] /\ rows[r].token # t
                           /\ ~ (rows[r].user = u /\ rows[r].installation = i)
        /\ nextRow' = nextRow + 1
    BY <1>1, <1>2, <1>6, <1>9, <1>12
  <2>2. DevicesMove
    <3>1. \A r \in DOMAIN rows' :
            /\ r < nextRow'
            /\ r \in DOMAIN rows => rows'[r].user = rows[r].user
            /\ r \notin DOMAIN rows => r >= nextRow
      BY <1>2, <1>9, <2>1
    <3>2. \A d \in DOMAIN push' : d \in DOMAIN push /\ d[2] \in DOMAIN rows'
      BY <1>3, <1>4, <2>1
    <3>3. QED
      BY <1>2, <2>1, <3>1, <3>2 DEF DevicesMove
  <2>3. OneDevicePerToken'
    BY <1>5, <1>10, <2>1 DEF OneDevicePerToken
  <2>4. OneRowPerInstallation'
    BY <1>5, <1>10, <2>1 DEF OneRowPerInstallation
  <2>5. DOMAIN rows' \subseteq RowIds /\ \A r \in DOMAIN rows' : rows'[r] \in DeviceRow
    BY <1>5, <1>9, <2>1
  <2>6. QED
    BY <1>2, <1>3, <2>1, <2>2, <2>3, <2>4, <2>5 DEF TypeOK
<1>13. CASE own # {}
  <2>1. /\ DOMAIN rows' = kept /\ nextRow' = nextRow
        /\ \A r \in kept : /\ r \in own => rows'[r] = row
                           /\ r \notin own => /\ rows'[r] = rows[r] /\ rows[r].token # t
                                              /\ ~ (rows[r].user = u /\ rows[r].installation = i)
    BY <1>1, <1>6, <1>13
  <2>2. DevicesMove
    <3>1. \A r \in DOMAIN rows' : r < nextRow'
      BY <1>2, <1>9, <2>1
    <3>2. \A r \in DOMAIN rows' : r \in DOMAIN rows /\ rows'[r].user = rows[r].user
      BY <1>5, <1>8, <1>9, <2>1
    <3>3. \A d \in DOMAIN push' : d \in DOMAIN push /\ d[2] \in DOMAIN rows'
      BY <1>3, <1>4, <2>1
    <3>4. QED
      BY <1>2, <2>1, <3>1, <3>2, <3>3 DEF DevicesMove
  <2>3. OneDevicePerToken'
    BY <1>5, <1>7, <1>10, <2>1 DEF OneDevicePerToken
  <2>4. OneRowPerInstallation'
    BY <1>5, <1>7, <1>10, <2>1 DEF OneRowPerInstallation
  <2>5. DOMAIN rows' \subseteq RowIds /\ \A r \in DOMAIN rows' : rows'[r] \in DeviceRow
    BY <1>5, <1>9, <2>1
  <2>6. QED
    BY <1>2, <1>3, <2>1, <2>2, <2>3, <2>4, <2>5 DEF TypeOK
<1>14. QED
  BY <1>12, <1>13

\* Every step keeps the types of the rows and runs it writes.
LEMMA StepTypes == TypeOK /\ Inv /\ [Next]_vars => TypeOK'
<1> SUFFICES ASSUME TypeOK, Inv, [Next]_vars PROVE TypeOK'
  OBVIOUS
<1>1. ASSUME NEW e \in Events, Publish(e) PROVE TypeOK'
  <2>1. published' = Append(published, e) /\ published \in Seq(Events)
    BY <1>1 DEF Publish, TypeOK
  <2>2. published' \in Seq(Events) /\ Range(published') = Range(published) \cup {e}
    BY <2>1, Appended
  <2>3. processed' \subseteq Range(published')
    BY <1>1, <2>2 DEF Publish, TypeOK
  <2>4. QED
    BY <1>1, <2>2, <2>3 DEF Publish, TypeOK
<1>2. ASSUME NEW o \in OutboxRuns, OutboxStep(o) \/ OutboxCrash(o) PROVE TypeOK'
  BY <1>2, OutboxStepTypes
<1>3. ASSUME NEW u \in Users, MarkAllRead(u) PROVE TypeOK'
  <2>1. inbox' \in [Events \X Users -> {"none", "unread", "read"}]
    BY <1>3 DEF MarkAllRead, TypeOK
  <2>2. QED
    BY <1>3, <2>1 DEF MarkAllRead, inboxUnchanged, TypeOK
<1>4. ASSUME NEW u \in Users, NEW e \in Events, MarkRead(u, e) PROVE TypeOK'
  <2>1. inbox' \in [Events \X Users -> {"none", "unread", "read"}]
    BY <1>4 DEF MarkRead, TypeOK
  <2>2. QED
    BY <1>4, <2>1 DEF MarkRead, inboxUnchanged, TypeOK
<1>5. ASSUME NEW u \in Users, NEW i \in Installations, NEW t \in Tokens, Register(u, i, t)
      PROVE  TypeOK'
  <2>1. /\ DOMAIN rows' \subseteq RowIds /\ \A r \in DOMAIN rows' : rows'[r] \in DeviceRow
        /\ DOMAIN push' \subseteq Deliveries /\ \A d \in DOMAIN push' : push'[d] \in Delivery
        /\ nextRow' \in Nat \ {0}
    BY <1>5, RegistrationOf
  <2>2. UNCHANGED deviceUnchanged
    BY <1>5 DEF Register
  <2>3. QED
    BY <2>1, <2>2 DEF deviceUnchanged, TypeOK
<1>6. ASSUME NEW u \in Users, NEW r \in RowIds, RemoveDevice(u, r) PROVE TypeOK'
  <2>1. /\ DOMAIN rows' \subseteq RowIds /\ \A q \in DOMAIN rows' : rows'[q] \in DeviceRow
        /\ DOMAIN push' \subseteq Deliveries /\ \A d \in DOMAIN push' : push'[d] \in Delivery
    BY <1>6, RemovalOf DEF RemoveDevice
  <2>2. UNCHANGED deviceUnchanged /\ UNCHANGED nextRow
    BY <1>6 DEF RemoveDevice
  <2>3. QED
    BY <2>1, <2>2 DEF deviceUnchanged, TypeOK
<1>7. ASSUME NEW t \in Tokens, TokenDies(t) PROVE TypeOK'
  BY <1>7 DEF TokenDies, TypeOK
<1>8. ASSUME NEW p \in PushRuns, PushStep(p) \/ PushCrash(p) PROVE TypeOK'
  BY <1>8, PushStepTypes
<1>9. CASE Tick
  BY <1>9, TickTypes
<1>10. CASE UNCHANGED vars
  BY <1>10 DEF vars, TypeOK
<1>11. QED
  BY <1>1, <1>2, <1>3, <1>4, <1>5, <1>6, <1>7, <1>8, <1>9, <1>10 DEF Next

-----------------------------------------------------------------------------
(* The invariant, one clause after the other. *)

\* At first all tables are empty and no run is under way.
LEMMA InitInv == Init => Inv
<1> SUFFICES ASSUME Init PROVE Inv
  OBVIOUS
<1>1. DOMAIN rows = {} /\ DOMAIN push = {}
  BY DEF Init
<1>2. /\ \A o \in OutboxRuns : outboxRun[o].pc = "idle" /\ outboxRun[o].todo = {}
      /\ \A p \in PushRuns : pushRun[p].pc = "idle"
  BY DEF Init, IdleOutbox, IdlePush
<1>3. RunsKnowTheirRows /\ DevicesOfRecipients /\ RejectionsAreTrue
  BY <1>2 DEF RunsKnowTheirRows, DevicesOfRecipients, RejectionsAreTrue
<1>4. IdsAreNew /\ OneRowPerInstallation /\ OneDevicePerToken /\ DeliveriesFollowTheInbox
  BY <1>1 DEF IdsAreNew, OneRowPerInstallation, OneDevicePerToken, DeliveriesFollowTheInbox
<1>5. AllOrNone
  BY RecipientsAreUsers DEF Init, AllOrNone
<1>6. QED
  BY <1>3, <1>4, <1>5 DEF Inv

\* Steps other than those of Register, RemoveDevice and RecordInvalid leave the devices alone.
LEMMA DevicesChange ==
  ASSUME TypeOK, Inv, [Next]_vars
  PROVE  \/ UNCHANGED <<rows, nextRow>>
         \/ /\ DevicesMove /\ OneRowPerInstallation' /\ OneDevicePerToken'
            /\ UNCHANGED <<published, inbox, outboxRun>>
<1>1. ASSUME NEW u \in Users, NEW i \in Installations, NEW t \in Tokens, Register(u, i, t)
      PROVE  /\ DevicesMove /\ OneRowPerInstallation' /\ OneDevicePerToken'
             /\ UNCHANGED <<published, inbox, outboxRun>>
  BY <1>1, RegistrationOf DEF Register, deviceUnchanged
<1>2. ASSUME NEW u \in Users, NEW r \in RowIds, RemoveDevice(u, r)
      PROVE  /\ DevicesMove /\ OneRowPerInstallation' /\ OneDevicePerToken'
             /\ UNCHANGED <<published, inbox, outboxRun>>
  BY <1>2, RemovalOf DEF RemoveDevice, deviceUnchanged
<1>3. ASSUME NEW p \in PushRuns, RecordInvalid(p)
      PROVE  /\ DevicesMove /\ OneRowPerInstallation' /\ OneDevicePerToken'
             /\ UNCHANGED <<published, inbox, outboxRun>>
  BY <1>3, RemovalOf DEF RecordInvalid, pushUnchanged
<1>4. ASSUME NEW o \in OutboxRuns, OutboxStep(o) \/ OutboxCrash(o)
      PROVE  UNCHANGED <<rows, nextRow>>
  BY <1>4 DEF OutboxStep, OutboxList, OutboxBegin, OutboxFill, OutboxCommit, OutboxAbort,
              OutboxCrash, outboxUnchanged
<1>5. ASSUME NEW p \in PushRuns, PushStep(p) \/ PushCrash(p), ~ RecordInvalid(p)
      PROVE  UNCHANGED <<rows, nextRow>>
  BY <1>5 DEF PushStep, PushList, PushClaim, PushLoad, PushSend, RecordDelivered, RecordRetry,
              PushCrash, pushUnchanged
<1>6. ASSUME NEW u \in Users, MarkAllRead(u) \/ \E e \in Events : MarkRead(u, e)
      PROVE  UNCHANGED <<rows, nextRow>>
  BY <1>6 DEF MarkAllRead, MarkRead, inboxUnchanged
<1>7. QED
  BY <1>1, <1>2, <1>3, <1>4, <1>5, <1>6 DEF Next, Publish, TokenDies, Tick, pushUnchanged, vars

\* New ids, one row per installation, one per token.
LEMMA RowsInv ==
  ASSUME TypeOK, Inv, [Next]_vars
  PROVE  IdsAreNew' /\ OneRowPerInstallation' /\ OneDevicePerToken'
<1>1. CASE UNCHANGED <<rows, nextRow>>
  BY <1>1 DEF Inv, IdsAreNew, OneRowPerInstallation, OneDevicePerToken
<1>2. CASE DevicesMove /\ OneRowPerInstallation' /\ OneDevicePerToken'
  BY <1>2 DEF DevicesMove, IdsAreNew
<1>3. QED
  BY <1>1, <1>2, DevicesChange

\* What has reached an inbox stays there.
LEMMA InboxKept ==
  ASSUME TypeOK, Inv, [Next]_vars
  PROVE  \A k \in Events \X Users : inbox[k] # "none" => inbox'[k] # "none"
<1>1. ASSUME NEW u \in Users, MarkAllRead(u)
      PROVE  \A k \in Events \X Users : inbox[k] # "none" => inbox'[k] # "none"
  BY <1>1 DEF MarkAllRead
<1>2. ASSUME NEW u \in Users, NEW e \in Events, MarkRead(u, e)
      PROVE  \A k \in Events \X Users : inbox[k] # "none" => inbox'[k] # "none"
  BY <1>2 DEF MarkRead, TypeOK
<1>3. ASSUME NEW o \in OutboxRuns, OutboxCommit(o)
      PROVE  \A k \in Events \X Users : inbox[k] # "none" => inbox'[k] # "none"
  BY <1>3 DEF OutboxCommit
<1>4. ASSUME NEW o \in OutboxRuns, OutboxStep(o) \/ OutboxCrash(o), ~ OutboxCommit(o)
      PROVE  UNCHANGED inbox
  BY <1>4 DEF OutboxStep, OutboxList, OutboxBegin, OutboxFill, OutboxAbort, OutboxCrash
<1>5. ASSUME NEW p \in PushRuns, PushStep(p) \/ PushCrash(p)
      PROVE  UNCHANGED inbox
  BY <1>5 DEF PushStep, PushList, PushClaim, PushLoad, PushSend, RecordDelivered, RecordInvalid,
              RecordRetry, PushCrash, pushUnchanged
<1>6. ASSUME NEW u \in Users,
             \/ \E i \in Installations, t \in Tokens : Register(u, i, t)
             \/ \E r \in RowIds : RemoveDevice(u, r)
      PROVE  UNCHANGED inbox
  BY <1>6 DEF Register, RemoveDevice, deviceUnchanged
<1>7. QED
  BY <1>1, <1>2, <1>3, <1>4, <1>5, <1>6 DEF Next, Publish, TokenDies, Tick, pushUnchanged, vars

\* Only a commit of the outbox adds deliveries.
LEMMA DeliveriesAdded ==
  ASSUME TypeOK, Inv, [Next]_vars
  PROVE  \/ DOMAIN push' \subseteq DOMAIN push
         \/ \E o \in OutboxRuns : OutboxCommit(o)
<1>1. ASSUME NEW o \in OutboxRuns, OutboxStep(o) \/ OutboxCrash(o), ~ OutboxCommit(o)
      PROVE  UNCHANGED push
  BY <1>1 DEF OutboxStep, OutboxList, OutboxBegin, OutboxFill, OutboxAbort, OutboxCrash
<1>2. ASSUME NEW p \in PushRuns, PushStep(p) \/ PushCrash(p)
      PROVE  DOMAIN push' \subseteq DOMAIN push
  <2>1. \A d, fields : Update(d, fields) => DOMAIN push' = DOMAIN push
    BY DEF Update
  <2>2. CASE RecordDelivered(p) \/ RecordRetry(p)
    BY <2>1, <2>2 DEF RecordDelivered, RecordRetry
  <2>3. CASE RecordInvalid(p)
    BY <2>3, CascadeOf DEF RecordInvalid
  <2>4. ASSUME NEW d \in pushRun[p].todo, PushClaim(p, d)
        PROVE  DOMAIN push' = DOMAIN push
    BY <2>4 DEF PushClaim
  <2>5. CASE PushList(p) \/ PushLoad(p) \/ PushSend(p) \/ PushCrash(p)
    BY <2>5 DEF PushList, PushLoad, PushSend, PushCrash
  <2>6. QED
    BY <1>2, <2>2, <2>3, <2>4, <2>5 DEF PushStep
<1>3. ASSUME NEW u \in Users,
             \/ \E i \in Installations, t \in Tokens : Register(u, i, t)
             \/ \E r \in RowIds : RemoveDevice(u, r)
      PROVE  DOMAIN push' \subseteq DOMAIN push
  BY <1>3, CascadeOf DEF Register, RemoveDevice
<1>4. ASSUME NEW u \in Users, MarkAllRead(u) \/ \E e \in Events : MarkRead(u, e)
      PROVE  UNCHANGED push
  BY <1>4 DEF MarkAllRead, MarkRead, inboxUnchanged
<1>5. CASE Tick
  BY <1>5 DEF Tick
<1>6. QED
  BY <1>1, <1>2, <1>3, <1>4, <1>5 DEF Next, Publish, TokenDies, vars

\* A new delivery goes to a device of a recipient, whose inbox has its event from the same
\* transaction on.
LEMMA DeliveriesInv ==
  ASSUME TypeOK, Inv, [Next]_vars
  PROVE  DeliveriesFollowTheInbox'
<1>1. \A d \in DOMAIN push :
        /\ d[2] \in DOMAIN rows /\ inbox[<<d[1], rows[d[2]].user>>] # "none"
        /\ d[1] \in Events /\ rows[d[2]].user \in Users
  BY DEF Inv, DeliveriesFollowTheInbox, TypeOK, Deliveries, DeviceRow
<1>2. CASE \E o \in OutboxRuns : OutboxCommit(o)
  <2>1. PICK o \in OutboxRuns : OutboxCommit(o)
    BY <1>2
  <2> DEFINE e == InHand(o)
             new == {<<e, r>> : r \in outboxRun[o].devices} \ DOMAIN push
  <2>2. e \in Events
    BY <2>1 DEF OutboxCommit, Inv, RunsKnowTheirRows, TypeOK, InHand
  <2>3. outboxRun[o].devices \subseteq DOMAIN rows /\ rows' = rows
    BY <2>1 DEF OutboxCommit, outboxUnchanged
  <2>4. \A r \in outboxRun[o].devices : rows[r].user \in Recipients(e)
    BY <2>1, <2>3 DEF OutboxCommit, Inv, DevicesOfRecipients
  <2>5. \A u \in Recipients(e) : u \in Users /\ inbox'[<<e, u>>] # "none"
    <3>1. \A u \in Recipients(e) : u \in Users
      BY <2>2, RecipientsAreUsers
    <3>2. inbox' = [k \in Events \X Users |->
                     IF k[1] = e /\ k[2] \in Recipients(e) /\ inbox[k] = "none"
                     THEN "unread" ELSE inbox[k]]
      BY <2>1 DEF OutboxCommit
    <3> HIDE DEF e
    <3>3. QED
      BY <2>2, <3>1, <3>2
  <2>6. DOMAIN push' = DOMAIN push \cup new
    BY <2>1 DEF OutboxCommit
  <2>7. \A d \in DOMAIN push : inbox'[<<d[1], rows[d[2]].user>>] # "none"
    BY <1>1, InboxKept
  <2>8. ASSUME NEW d \in new
        PROVE  d[2] \in DOMAIN rows /\ inbox'[<<d[1], rows[d[2]].user>>] # "none"
    <3>1. PICK r \in outboxRun[o].devices : d = <<e, r>>
      OBVIOUS
    <3>2. d[1] = e /\ d[2] = r
      BY <3>1
    <3> HIDE DEF e
    <3>3. QED
      BY <2>3, <2>4, <2>5, <3>2
  <2> HIDE DEF new
  <2>9. QED
    BY <1>1, <2>3, <2>6, <2>7, <2>8 DEF DeliveriesFollowTheInbox
<1>3. CASE DOMAIN push' \subseteq DOMAIN push /\ UNCHANGED <<rows, nextRow>>
  <2>1. \A d \in DOMAIN push : inbox'[<<d[1], rows[d[2]].user>>] # "none"
    BY <1>1, InboxKept
  <2>2. QED
    BY <1>1, <1>3, <2>1 DEF DeliveriesFollowTheInbox
<1>4. CASE DevicesMove /\ UNCHANGED <<published, inbox, outboxRun>>
  <2>1. \A d \in DOMAIN push' : /\ d \in DOMAIN push /\ d[2] \in DOMAIN rows'
                                /\ rows'[d[2]].user = rows[d[2]].user
    BY <1>1, <1>4 DEF DevicesMove
  <2>2. QED
    BY <1>1, <1>4, <2>1 DEF DeliveriesFollowTheInbox
<1>5. QED
  BY <1>2, <1>3, <1>4, DevicesChange, DeliveriesAdded

\* What a run of the outbox is about to handle, and the devices it has read when it commits.
Informed(run) ==
  /\ run.todo \subseteq DOMAIN published
  /\ run.pc \in {"fill", "commit"} => run.at \in DOMAIN published
  /\ run.pc = "commit" =>
       run.devices = {r \in DOMAIN rows : rows[r].user \in Recipients(published[run.at])}

\* A step of a run of the outbox concerns that run alone.
LEMMA OutboxRunOf ==
  ASSUME TypeOK, Inv, NEW o \in OutboxRuns, OutboxStep(o) \/ OutboxCrash(o)
  PROVE  \E run : outboxRun' = [outboxRun EXCEPT ![o] = run] /\ Informed(run)
<1> USE DEF Informed
<1>r. outboxRun[o] \in OutboxState
  BY DEF TypeOK
<1>t. outboxRun[o].todo \subseteq DOMAIN published
  BY DEF Inv, RunsKnowTheirRows
<1>n. \A i \in outboxRun[o].todo : i \in Nat
  BY <1>r DEF OutboxState
<1>i. Informed(IdleOutbox)
  BY DEF IdleOutbox
<1>q. \A i \in Nat : Informed(OutboxRest(o, i))
  BY <1>t, RestTypes
<1>1. CASE OutboxList(o)
  <2> DEFINE pending == {i \in DOMAIN published : published[i] \notin processed}
             batch == {i \in pending : Cardinality({j \in pending : j < i}) < BatchSize}
             run == [outboxRun[o] EXCEPT !.pc = "next", !.todo = batch]
  <2>1. outboxRun' = [outboxRun EXCEPT ![o] = run]
    BY <1>1 DEF OutboxList
  <2>2. batch \subseteq DOMAIN published
    OBVIOUS
  <2> HIDE DEF batch
  <2>3. run.todo = batch /\ run.pc = "next"
    BY <1>r DEF OutboxState
  <2> HIDE DEF run
  <2>4. QED
    BY <2>1, <2>2, <2>3
<1>2. ASSUME NEW i \in outboxRun[o].todo, OutboxBegin(o, i)
      PROVE  \E run : outboxRun' = [outboxRun EXCEPT ![o] = run] /\ Informed(run)
  <2> DEFINE filling == [outboxRun[o] EXCEPT !.pc = "fill", !.at = i]
  <2>1. outboxRun' = [outboxRun EXCEPT
          ![o] = IF published[i] \in processed THEN OutboxRest(o, i) ELSE filling]
    BY <1>2 DEF OutboxBegin
  <2>2. filling.pc = "fill" /\ filling.at = i /\ filling.todo = outboxRun[o].todo
    BY <1>r DEF OutboxState
  <2> HIDE DEF filling
  <2>3. Informed(filling)
    BY <1>t, <2>2
  <2>4. QED
    BY <1>n, <1>q, <2>1, <2>3
<1>3. CASE OutboxFill(o)
  <2> DEFINE devices == {r \in DOMAIN rows : rows[r].user \in Recipients(InHand(o))}
             run == [outboxRun[o] EXCEPT !.pc = "commit", !.devices = devices]
  <2>1. outboxRun' = [outboxRun EXCEPT ![o] = run] /\ outboxRun[o].pc = "fill"
    BY <1>3 DEF OutboxFill
  <2>2. /\ run.pc = "commit" /\ run.at = outboxRun[o].at /\ run.todo = outboxRun[o].todo
        /\ run.devices = devices
    BY <1>r DEF OutboxState
  <2>3. outboxRun[o].at \in DOMAIN published
    BY <2>1 DEF Inv, RunsKnowTheirRows
  <2> HIDE DEF run
  <2>4. Informed(run)
    BY <1>t, <2>2, <2>3 DEF InHand
  <2>5. QED
    BY <2>1, <2>4
<1>4. CASE OutboxCommit(o)
  <2>1. outboxRun[o].at \in Nat
    BY <1>r DEF OutboxState
  <2>2. outboxRun' = [outboxRun EXCEPT ![o] = OutboxRest(o, outboxRun[o].at)]
    BY <1>4 DEF OutboxCommit
  <2>3. QED
    BY <1>q, <2>1, <2>2
<1>5. CASE OutboxAbort(o) \/ OutboxCrash(o)
  BY <1>5, <1>i DEF OutboxAbort, OutboxCrash
<1>6. QED
  BY <1>1, <1>2, <1>3, <1>4, <1>5 DEF OutboxStep

\* A run of the outbox changes by its own steps, and published only grows.
LEMMA OutboxRunsChange ==
  ASSUME TypeOK, Inv, [Next]_vars
  PROVE  \/ /\ UNCHANGED outboxRun
            /\ DOMAIN published \subseteq DOMAIN published'
            /\ \A i \in DOMAIN published : published'[i] = published[i]
         \/ /\ UNCHANGED <<published, rows, nextRow>>
            /\ \E o \in OutboxRuns : \E run :
                 outboxRun' = [outboxRun EXCEPT ![o] = run] /\ Informed(run)
<1>1. ASSUME NEW o \in OutboxRuns, OutboxStep(o) \/ OutboxCrash(o)
      PROVE  /\ UNCHANGED <<published, rows, nextRow>>
             /\ \E q \in OutboxRuns : \E run :
                  outboxRun' = [outboxRun EXCEPT ![q] = run] /\ Informed(run)
  <2>1. UNCHANGED <<published, rows, nextRow>>
    BY <1>1 DEF OutboxStep, OutboxList, OutboxBegin, OutboxFill, OutboxCommit, OutboxAbort,
                OutboxCrash, outboxUnchanged
  <2>2. QED
    BY <1>1, <2>1, OutboxRunOf
<1>2. ASSUME NEW e \in Events, Publish(e)
      PROVE  /\ UNCHANGED outboxRun
             /\ DOMAIN published \subseteq DOMAIN published'
             /\ \A i \in DOMAIN published : published'[i] = published[i]
  <2>1. published \in Seq(Events) /\ published' = Append(published, e)
    BY <1>2 DEF Publish, TypeOK
  <2>2. QED
    BY <1>2, <2>1, Appended DEF Publish
<1>3. ASSUME NEW p \in PushRuns, PushStep(p) \/ PushCrash(p)
      PROVE  UNCHANGED <<outboxRun, published>>
  BY <1>3 DEF PushStep, PushList, PushClaim, PushLoad, PushSend, RecordDelivered, RecordInvalid,
              RecordRetry, PushCrash, pushUnchanged
<1>4. ASSUME NEW u \in Users,
             \/ \E i \in Installations, t \in Tokens : Register(u, i, t)
             \/ \E r \in RowIds : RemoveDevice(u, r)
             \/ MarkAllRead(u) \/ \E e \in Events : MarkRead(u, e)
      PROVE  UNCHANGED <<outboxRun, published>>
  BY <1>4 DEF Register, RemoveDevice, deviceUnchanged, MarkAllRead, MarkRead, inboxUnchanged
<1>5. QED
  BY <1>1, <1>2, <1>3, <1>4 DEF Next, TokenDies, Tick, pushUnchanged, vars

\* The runs of the outbox keep to events that were published and to devices of recipients.
LEMMA OutboxRunsInv ==
  ASSUME TypeOK, Inv, [Next]_vars
  PROVE  /\ \A o \in OutboxRuns :
              /\ outboxRun'[o].todo \subseteq DOMAIN published'
              /\ outboxRun'[o].pc \in {"fill", "commit"} => outboxRun'[o].at \in DOMAIN published'
         /\ DevicesOfRecipients'
<1>1. \A o \in OutboxRuns :
        /\ outboxRun[o].todo \subseteq DOMAIN published
        /\ outboxRun[o].pc \in {"fill", "commit"} => outboxRun[o].at \in DOMAIN published
  BY DEF Inv, RunsKnowTheirRows
<1>2. \A o \in OutboxRuns : outboxRun[o].pc = "commit" =>
        \A r \in outboxRun[o].devices :
          /\ r < nextRow /\ r \in Nat
          /\ r \in DOMAIN rows => rows[r].user \in Recipients(published[outboxRun[o].at])
  <2>1. \A o \in OutboxRuns : \A r \in outboxRun[o].devices : r \in Nat
    BY NotificationAssumption DEF TypeOK, OutboxState
  <2>2. QED
    BY <2>1 DEF Inv, DevicesOfRecipients, InHand
<1>3. \A r \in DOMAIN rows : r < nextRow
  BY DEF Inv, IdsAreNew
<1>4. nextRow \in Nat /\ outboxRun \in [OutboxRuns -> OutboxState]
  BY DEF TypeOK
<1>5. CASE /\ UNCHANGED outboxRun
           /\ DOMAIN published \subseteq DOMAIN published'
           /\ \A i \in DOMAIN published : published'[i] = published[i]
  <2>1. /\ nextRow' \in Nat /\ nextRow <= nextRow'
        /\ \A r \in DOMAIN rows' : r \in DOMAIN rows => rows'[r].user = rows[r].user
        /\ \A r \in DOMAIN rows' : r \notin DOMAIN rows => r >= nextRow
    BY <1>4, DevicesChange DEF DevicesMove
  <2>2. ASSUME NEW o \in OutboxRuns, outboxRun[o].pc = "commit", NEW r \in outboxRun[o].devices
        PROVE  /\ r < nextRow'
               /\ r \in DOMAIN rows' => rows'[r].user \in Recipients(published'[outboxRun[o].at])
    <3>1. r < nextRow' /\ (r \in DOMAIN rows' => r \in DOMAIN rows)
      BY <1>2, <1>4, <2>1, <2>2
    <3>2. published'[outboxRun[o].at] = published[outboxRun[o].at]
      BY <1>1, <1>5, <2>2
    <3>3. QED
      BY <1>2, <2>1, <2>2, <3>1, <3>2
  <2>3. DevicesOfRecipients'
    BY <1>5, <2>2 DEF DevicesOfRecipients, InHand
  <2>4. QED
    BY <1>1, <1>5, <2>3
<1>6. CASE /\ UNCHANGED <<published, rows, nextRow>>
           /\ \E o \in OutboxRuns : \E run :
                outboxRun' = [outboxRun EXCEPT ![o] = run] /\ Informed(run)
  <2>o. PICK o \in OutboxRuns :
          \E run : outboxRun' = [outboxRun EXCEPT ![o] = run] /\ Informed(run)
    BY <1>6
  <2>1. PICK run : outboxRun' = [outboxRun EXCEPT ![o] = run] /\ Informed(run)
    BY <2>o
  <2>2. outboxRun'[o] = run /\ \A q \in OutboxRuns \ {o} : outboxRun'[q] = outboxRun[q]
    BY <1>4, <2>1
  <2>3. \A q \in OutboxRuns :
          /\ outboxRun'[q].todo \subseteq DOMAIN published
          /\ outboxRun'[q].pc \in {"fill", "commit"} => outboxRun'[q].at \in DOMAIN published
    BY <1>1, <2>1, <2>2 DEF Informed
  <2>4. ASSUME NEW q \in OutboxRuns, outboxRun'[q].pc = "commit", NEW r \in outboxRun'[q].devices
        PROVE  /\ r < nextRow
               /\ r \in DOMAIN rows => rows[r].user \in Recipients(published[outboxRun'[q].at])
    <3>1. CASE q = o
      BY <1>3, <2>1, <2>2, <2>4, <3>1 DEF Informed
    <3>2. CASE q # o
      BY <1>2, <2>2, <2>4, <3>2
    <3>3. QED
      BY <3>1, <3>2
  <2>5. DevicesOfRecipients'
    BY <1>6, <2>4 DEF DevicesOfRecipients, InHand
  <2>6. QED
    BY <1>6, <2>3, <2>5
<1>7. QED
  BY <1>5, <1>6, OutboxRunsChange

\* What a push run has in hand is a delivery, and a rejection it is about to record is true.
Sound(run) ==
  /\ run.pc \in {"load", "send", "record"} => run.at \in Deliveries
  /\ run.pc = "record" /\ run.answer = "INVALID_TOKEN" => run.token \in dead

\* A step of a push run concerns that run alone.
LEMMA PushRunOf ==
  ASSUME TypeOK, Inv, NEW p \in PushRuns, PushStep(p) \/ PushCrash(p)
  PROVE  \E run : pushRun' = [pushRun EXCEPT ![p] = run] /\ Sound(run)
<1> USE DEF Sound
<1>r. pushRun[p] \in PushState
  BY DEF TypeOK
<1>i. Sound(IdlePush)
  BY DEF IdlePush
<1>q. \A d \in Deliveries : Sound(PushRest(p, d))
  BY RestTypes
<1>b. pushRun[p].pc \in {"load", "send", "record"} => pushRun[p].at \in Deliveries
  BY DEF Inv, RunsKnowTheirRows
<1>1. CASE PushList(p)
  <2> DEFINE due == {d \in Deliveries : Claimable(d, 0)}
             run == [pushRun[p] EXCEPT !.pc = "next", !.todo = due]
  <2>1. pushRun' = [pushRun EXCEPT ![p] = run]
    BY <1>1 DEF PushList
  <2> HIDE DEF due
  <2>2. run.pc = "next"
    BY <1>r DEF PushState
  <2> HIDE DEF run
  <2>3. QED
    BY <2>1, <2>2
<1>2. ASSUME NEW d \in pushRun[p].todo, PushClaim(p, d)
      PROVE  \E run : pushRun' = [pushRun EXCEPT ![p] = run] /\ Sound(run)
  <2> DEFINE claiming == [pushRun[p] EXCEPT !.pc = "load", !.at = d]
  <2>1. d \in Deliveries
    BY <1>r DEF PushState
  <2>2. \/ pushRun' = [pushRun EXCEPT ![p] = claiming]
        \/ pushRun' = [pushRun EXCEPT ![p] = PushRest(p, d)]
    BY <1>2 DEF PushClaim
  <2>3. claiming.pc = "load" /\ claiming.at = d
    BY <1>r DEF PushState
  <2> HIDE DEF claiming
  <2>4. QED
    BY <1>q, <2>1, <2>2, <2>3
<1>3. CASE PushLoad(p)
  <2> DEFINE d == pushRun[p].at
             loaded == [pushRun[p] EXCEPT !.pc = "send", !.attempts = push[d].attempts,
                                          !.token = rows[d[2]].token]
  <2>1. d \in Deliveries
    BY <1>3, <1>b DEF PushLoad
  <2>2. \/ pushRun' = [pushRun EXCEPT ![p] = loaded]
        \/ pushRun' = [pushRun EXCEPT ![p] = PushRest(p, d)]
    BY <1>3 DEF PushLoad
  <2>3. loaded.pc = "send" /\ loaded.at = d
    BY <1>r DEF PushState
  <2> HIDE DEF loaded, d
  <2>4. QED
    BY <1>q, <2>1, <2>2, <2>3
<1>4. CASE PushSend(p)
  <2>1. pushRun[p].at \in Deliveries
    BY <1>4, <1>b DEF PushSend
  <2>2. PICK answer \in {"DELIVERED", "INVALID_TOKEN", "RETRY"} :
          /\ pushRun[p].token \in dead <=> answer = "INVALID_TOKEN"
          /\ pushRun' = [pushRun EXCEPT
               ![p] = [pushRun[p] EXCEPT !.pc = "record", !.answer = answer]]
    BY <1>4 DEF PushSend
  <2> DEFINE run == [pushRun[p] EXCEPT !.pc = "record", !.answer = answer]
  <2>3. /\ run.pc = "record" /\ run.answer = answer
        /\ run.at = pushRun[p].at /\ run.token = pushRun[p].token
    BY <1>r DEF PushState
  <2>4. pushRun' = [pushRun EXCEPT ![p] = run]
    BY <2>2
  <2> HIDE DEF run
  <2>5. QED
    BY <2>1, <2>2, <2>3, <2>4
<1>5. CASE RecordDelivered(p) \/ RecordInvalid(p) \/ RecordRetry(p)
  <2>1. pushRun[p].at \in Deliveries
    BY <1>5, <1>b DEF RecordDelivered, RecordInvalid, RecordRetry
  <2>2. pushRun' = [pushRun EXCEPT ![p] = PushRest(p, pushRun[p].at)]
    BY <1>5 DEF RecordDelivered, RecordInvalid, RecordRetry
  <2>3. QED
    BY <1>q, <2>1, <2>2
<1>6. CASE PushCrash(p)
  BY <1>6, <1>i DEF PushCrash
<1>7. QED
  BY <1>1, <1>2, <1>3, <1>4, <1>5, <1>6 DEF PushStep

\* A push run changes by its own steps, but for its age; a dead token stays dead.
LEMMA PushRunsChange ==
  ASSUME TypeOK, Inv, [Next]_vars
  PROVE  /\ dead \subseteq dead'
         /\ \/ \A p \in PushRuns : /\ pushRun'[p].pc = pushRun[p].pc
                                   /\ pushRun'[p].at = pushRun[p].at
                                   /\ pushRun'[p].answer = pushRun[p].answer
                                   /\ pushRun'[p].token = pushRun[p].token
            \/ \E p \in PushRuns : /\ PushStep(p) \/ PushCrash(p)
                                   /\ \E run : /\ pushRun' = [pushRun EXCEPT ![p] = run]
                                               /\ Sound(run)
<1>1. ASSUME NEW p \in PushRuns, PushStep(p) \/ PushCrash(p)
      PROVE  /\ dead \subseteq dead'
             /\ \E run : pushRun' = [pushRun EXCEPT ![p] = run] /\ Sound(run)
  <2>1. UNCHANGED dead
    BY <1>1 DEF PushStep, PushList, PushClaim, PushLoad, PushSend, RecordDelivered,
                RecordInvalid, RecordRetry, PushCrash, pushUnchanged
  <2>2. QED
    BY <1>1, <2>1, PushRunOf
<1>2. CASE Tick
  <2>1. pushRun' = [p \in PushRuns |-> IF pushRun[p].pc = "idle" THEN pushRun[p]
                                       ELSE [pushRun[p] EXCEPT !.age = pushRun[p].age + 1]]
    BY <1>2 DEF Tick
  <2>2. ASSUME NEW p \in PushRuns
        PROVE  /\ pushRun'[p].pc = pushRun[p].pc /\ pushRun'[p].at = pushRun[p].at
               /\ pushRun'[p].answer = pushRun[p].answer
               /\ pushRun'[p].token = pushRun[p].token
    <3>1. \A run \in PushState : \A a :
            LET older == [run EXCEPT !.age = a]
            IN  /\ older.pc = run.pc /\ older.at = run.at
                /\ older.answer = run.answer /\ older.token = run.token
      BY DEF PushState
    <3>2. QED
      BY <2>1, <3>1 DEF TypeOK
  <2>3. QED
    BY <1>2, <2>2 DEF Tick, pushUnchanged
<1>3. ASSUME NEW o \in OutboxRuns, OutboxStep(o) \/ OutboxCrash(o)
      PROVE  UNCHANGED <<pushRun, dead>>
  BY <1>3 DEF OutboxStep, OutboxList, OutboxBegin, OutboxFill, OutboxCommit, OutboxAbort,
              OutboxCrash, outboxUnchanged
<1>4. ASSUME NEW u \in Users,
             \/ \E i \in Installations, t \in Tokens : Register(u, i, t)
             \/ \E r \in RowIds : RemoveDevice(u, r)
             \/ MarkAllRead(u) \/ \E e \in Events : MarkRead(u, e)
      PROVE  UNCHANGED <<pushRun, dead>>
  BY <1>4 DEF Register, RemoveDevice, deviceUnchanged, MarkAllRead, MarkRead, inboxUnchanged
<1>5. ASSUME NEW t \in Tokens, TokenDies(t)
      PROVE  dead \subseteq dead' /\ UNCHANGED pushRun
  BY <1>5 DEF TokenDies
<1>6. QED
  BY <1>1, <1>2, <1>3, <1>4, <1>5 DEF Next, Publish, vars

\* The push runs hold deliveries, and true rejections.
LEMMA PushRunsInv ==
  ASSUME TypeOK, Inv, [Next]_vars
  PROVE  /\ \A p \in PushRuns :
              pushRun'[p].pc \in {"load", "send", "record"} => pushRun'[p].at \in Deliveries
         /\ RejectionsAreTrue'
<1>1. \A p \in PushRuns : Sound(pushRun[p])
  BY DEF Inv, RunsKnowTheirRows, RejectionsAreTrue, Sound
<1>2. dead \subseteq dead'
  BY PushRunsChange
<1>3. \A p \in PushRuns : pushRun'[p].pc \in {"load", "send", "record"} =>
                            pushRun'[p].at \in Deliveries
  BY <1>1, PushRunsChange DEF Sound, TypeOK
<1>4. \A p \in PushRuns : pushRun'[p].pc = "record" /\ pushRun'[p].answer = "INVALID_TOKEN" =>
                            pushRun'[p].token \in dead
  BY <1>1, PushRunsChange DEF Sound, TypeOK
<1>5. RejectionsAreTrue'
  BY <1>2, <1>4 DEF RejectionsAreTrue
<1>6. QED
  BY <1>3, <1>5

\* The inbox rows of an event are inserted together.
LEMMA AllOrNoneInv ==
  ASSUME TypeOK, Inv, [Next]_vars
  PROVE  AllOrNone'
<1>1. \A e \in Events : \A u \in Recipients(e) : u \in Users
  BY RecipientsAreUsers
<1>2. CASE \A k \in Events \X Users : (inbox[k] = "none") <=> (inbox'[k] = "none")
  <2>1. \A e \in Events : \A u \in Recipients(e) :
          (inbox[<<e, u>>] = "none") <=> (inbox'[<<e, u>>] = "none")
    BY <1>1, <1>2
  <2>2. QED
    BY <2>1 DEF AllOrNone, Inv
<1>3. ASSUME NEW o \in OutboxRuns, OutboxCommit(o) PROVE AllOrNone'
  <2> DEFINE e == InHand(o)
  <2>1. inbox' = [k \in Events \X Users |->
                    IF k[1] = e /\ k[2] \in Recipients(e) /\ inbox[k] = "none"
                    THEN "unread" ELSE inbox[k]]
    BY <1>3 DEF OutboxCommit
  <2> HIDE DEF e
  <2>2. ASSUME NEW f \in Events, NEW u \in Recipients(f), NEW v \in Recipients(f),
               inbox'[<<f, u>>] = "none"
        PROVE  inbox'[<<f, v>>] = "none"
    <3>1. u \in Users /\ v \in Users
      BY <1>1
    <3>2. f # e /\ inbox[<<f, u>>] = "none"
      BY <2>1, <2>2, <3>1
    <3>3. inbox[<<f, v>>] = "none"
      BY <3>2 DEF Inv, AllOrNone
    <3>4. QED
      BY <2>1, <3>1, <3>2, <3>3
  <2>3. QED
    BY <2>2 DEF AllOrNone
<1>4. ASSUME NEW u \in Users, MarkAllRead(u) \/ \E e \in Events : MarkRead(u, e)
      PROVE  \A k \in Events \X Users : (inbox[k] = "none") <=> (inbox'[k] = "none")
  BY <1>4 DEF MarkAllRead, MarkRead, TypeOK
<1>5. ASSUME NEW o \in OutboxRuns, OutboxStep(o) \/ OutboxCrash(o), ~ OutboxCommit(o)
      PROVE  UNCHANGED inbox
  BY <1>5 DEF OutboxStep, OutboxList, OutboxBegin, OutboxFill, OutboxAbort, OutboxCrash
<1>6. ASSUME NEW p \in PushRuns, PushStep(p) \/ PushCrash(p)
      PROVE  UNCHANGED inbox
  BY <1>6 DEF PushStep, PushList, PushClaim, PushLoad, PushSend, RecordDelivered, RecordInvalid,
              RecordRetry, PushCrash, pushUnchanged
<1>7. ASSUME NEW u \in Users,
             \/ \E i \in Installations, t \in Tokens : Register(u, i, t)
             \/ \E r \in RowIds : RemoveDevice(u, r)
      PROVE  UNCHANGED inbox
  BY <1>7 DEF Register, RemoveDevice, deviceUnchanged
<1>8. CASE UNCHANGED inbox
  BY <1>2, <1>8
<1>9. QED
  BY <1>2, <1>3, <1>4, <1>5, <1>6, <1>7, <1>8 DEF Next, Publish, TokenDies, Tick, pushUnchanged, vars

\* Every step keeps the invariant.
LEMMA StepInv == TypeOK /\ Inv /\ [Next]_vars => TypeOK' /\ Inv'
<1> SUFFICES ASSUME TypeOK, Inv, [Next]_vars PROVE TypeOK' /\ Inv'
  OBVIOUS
<1>1. TypeOK'
  BY StepTypes
<1>2. RunsKnowTheirRows'
  BY OutboxRunsInv, PushRunsInv DEF RunsKnowTheirRows
<1>3. IdsAreNew' /\ OneRowPerInstallation' /\ OneDevicePerToken'
  BY RowsInv
<1>4. DevicesOfRecipients' /\ DeliveriesFollowTheInbox' /\ RejectionsAreTrue' /\ AllOrNone'
  BY OutboxRunsInv, DeliveriesInv, PushRunsInv, AllOrNoneInv
<1>5. QED
  BY <1>1, <1>2, <1>3, <1>4 DEF Inv

-----------------------------------------------------------------------------
(* The theorems. *)

\* The rows of the outbox, the inbox, the devices and the deliveries, and the runs of both
\* processors, always have their types.
THEOREM TypeCorrect == Spec => []TypeOK
<1>1. Init => TypeOK /\ Inv
  BY InitTypes, InitInv
<1>2. QED
  BY <1>1, StepInv, PTL DEF Spec

\* deliver of the outbox inserts the deliveries of an event for the devices it has read, in the
\* transaction that inserts its inbox rows; register moves a token to another account by
\* deleting its row.  So no delivery is ever that of an event its device's owner has not got.
THEOREM DeliveriesStayWithTheirUser == Spec => []DeliveriesFollowTheInbox
<1>1. Init => TypeOK /\ Inv
  BY InitTypes, InitInv
<1>2. Inv => DeliveriesFollowTheInbox
  BY DEF Inv
<1>3. QED
  BY <1>1, <1>2, StepInv, PTL DEF Spec

\* register takes a token from every other device before it gives it to one, whatever devices
\* were registered, removed or rejected before.
THEOREM TokensAreUnique == Spec => []OneDevicePerToken
<1>1. Init => TypeOK /\ Inv
  BY InitTypes, InitInv
<1>2. Inv => OneDevicePerToken
  BY DEF Inv
<1>3. QED
  BY <1>1, <1>2, StepInv, PTL DEF Spec

\* deliver of the push processor removes a device by id and token, so that however late it
\* learns of a rejection it removes only devices whose token is not accepted any more.
THEOREM OnlyRejectedDevicesGo == Spec => RejectedTokensOnly
<1> DEFINE Removal == \A p \in PushRuns :
             pushRun[p].pc = "record" /\ pushRun'[p].pc # "record" =>
               \A r \in DOMAIN rows \ DOMAIN rows' : rows[r].token \in dead
<1>1. Init => TypeOK /\ Inv
  BY InitTypes, InitInv
<1>2. TypeOK /\ Inv /\ [Next]_vars => [Removal]_vars
  <2> SUFFICES ASSUME TypeOK, Inv, [Next]_vars, NEW p \in PushRuns,
                      pushRun[p].pc = "record", pushRun'[p].pc # "record",
                      NEW r \in DOMAIN rows \ DOMAIN rows'
               PROVE  rows[r].token \in dead
    OBVIOUS
  <2>1. PushStep(p) \/ PushCrash(p)
    BY PushRunsChange DEF TypeOK
  <2>2. CASE RecordInvalid(p)
    <3> DEFINE gone == {q \in DOMAIN rows :
                          q = pushRun[p].at[2] /\ rows[q].token = pushRun[p].token}
    <3>1. rows' = Restrict(rows, DOMAIN rows \ gone) /\ pushRun[p].answer = "INVALID_TOKEN"
      BY <2>2 DEF RecordInvalid
    <3>2. DOMAIN rows' = DOMAIN rows \ gone
      BY <3>1, Restricted
    <3>3. rows[r].token = pushRun[p].token
      BY <3>2
    <3>4. pushRun[p].token \in dead
      BY <3>1 DEF Inv, RejectionsAreTrue
    <3>5. QED
      BY <3>3, <3>4
  <2>3. CASE ~ RecordInvalid(p)
    <3>1. UNCHANGED rows
      BY <2>1, <2>3 DEF PushStep, PushList, PushClaim, PushLoad, PushSend, RecordDelivered,
                        RecordRetry, PushCrash, pushUnchanged
    <3>2. QED
      BY <3>1
  <2>4. QED
    BY <2>2, <2>3
<1>3. QED
  BY <1>1, <1>2, StepInv, PTL DEF Spec, RejectedTokensOnly

\* What a step of the notifications does to the inbox is what the feed allows, or nothing.
LEMMA FeedStep == TypeOK /\ Inv /\ [Next]_vars => [Feed!Next]_Feed!feedVars
<1> SUFFICES ASSUME TypeOK, Inv, [Next]_vars PROVE [Feed!Next]_Feed!feedVars
  OBVIOUS
<1> USE DEF Feed!Next, Feed!feedVars
<1>t. inbox \in [Events \X Users -> {"none", "unread", "read"}]
  BY DEF TypeOK
<1>1. ASSUME NEW e \in Events, Publish(e) PROVE Feed!Announce(e)
  <2>1. published \in Seq(Events) /\ published' = Append(published, e)
        /\ e \notin Range(published) /\ UNCHANGED inbox
    BY <1>1 DEF Publish, TypeOK
  <2>2. Range(published') = Range(published) \cup {e}
    BY <2>1, Appended
  <2>3. QED
    BY <2>1, <2>2 DEF Feed!Announce
<1>2. ASSUME NEW o \in OutboxRuns, OutboxCommit(o)
      PROVE  UNCHANGED Feed!feedVars \/ \E e \in Events : Feed!Arrive(e)
  <2> DEFINE e == InHand(o)
  <2>1. outboxRun[o].at \in DOMAIN published
    BY <1>2 DEF OutboxCommit, Inv, RunsKnowTheirRows
  <2>2. e \in Events /\ e \in Range(published)
    BY <2>1 DEF InHand, Range, TypeOK
  <2>3. inbox' = [k \in Events \X Users |->
                    IF k[1] = e /\ k[2] \in Recipients(e) /\ inbox[k] = "none"
                    THEN "unread" ELSE inbox[k]]
    BY <1>2 DEF OutboxCommit
  <2>4. UNCHANGED published
    BY <1>2 DEF OutboxCommit, outboxUnchanged
  <2> HIDE DEF e
  <2>5. \A u \in Recipients(e) : u \in Users
    BY <2>2, RecipientsAreUsers
  <2>6. CASE \A u \in Recipients(e) : inbox[<<e, u>>] = "none"
    <3>1. \A k \in Events \X Users : k[1] = e /\ k[2] \in Recipients(e) => inbox[k] = "none"
      BY <2>6
    <3>2. inbox' = [k \in Events \X Users |->
                      IF k[1] = e /\ k[2] \in Recipients(e) THEN "unread" ELSE inbox[k]]
      BY <2>3, <3>1
    <3>3. [f \in Events |-> Recipients(f)][e] = Recipients(e)
      BY <2>2
    <3>4. Feed!Arrive(e)
      BY <2>2, <2>4, <2>6, <3>2, <3>3 DEF Feed!Arrive
    <3>5. QED
      BY <2>2, <3>4
  <2>7. CASE ~ \A u \in Recipients(e) : inbox[<<e, u>>] = "none"
    <3>1. \A u \in Recipients(e) : inbox[<<e, u>>] # "none"
      BY <2>2, <2>7 DEF Inv, AllOrNone
    <3>2. \A k \in Events \X Users : k[1] = e /\ k[2] \in Recipients(e) => inbox[k] # "none"
      BY <3>1
    <3>3. inbox' = inbox
      BY <1>t, <2>3, <3>2
    <3>4. QED
      BY <2>4, <3>3
  <2>8. QED
    BY <2>6, <2>7
<1>3. ASSUME NEW u \in Users, NEW e \in Events, MarkRead(u, e) PROVE Feed!Read(u)
  <2>1. inbox[<<e, u>>] # "none" /\ UNCHANGED published
    BY <1>3 DEF MarkRead, inboxUnchanged
  <2>2. inbox' = [k \in Events \X Users |->
                    IF k[1] \in {e} /\ k[2] = u THEN "read" ELSE inbox[k]]
    <3>1. \A k \in Events \X Users : (k[1] \in {e} /\ k[2] = u) <=> k = <<e, u>>
      OBVIOUS
    <3>2. inbox' = [inbox EXCEPT ![<<e, u>>] = "read"]
      BY <1>3 DEF MarkRead
    <3>3. inbox' = [k \in Events \X Users |-> IF k = <<e, u>> THEN "read" ELSE inbox[k]]
      BY <1>t, <3>2
    <3>4. QED
      BY <3>1, <3>3
  <2>3. {e} \in SUBSET Events /\ \A f \in {e} : inbox[<<f, u>>] # "none"
    BY <2>1
  <2>4. QED
    BY <2>1, <2>2, <2>3 DEF Feed!Read
<1>4. ASSUME NEW u \in Users, MarkAllRead(u) PROVE Feed!Read(u)
  <2> DEFINE E == {e \in Events : inbox[<<e, u>>] = "unread"}
  <2>1. UNCHANGED published
    BY <1>4 DEF MarkAllRead, inboxUnchanged
  <2>2. E \in SUBSET Events /\ \A e \in E : inbox[<<e, u>>] # "none"
    OBVIOUS
  <2>3. \A k \in Events \X Users :
          (k[1] \in E /\ k[2] = u) <=> (k[2] = u /\ inbox[k] = "unread")
    OBVIOUS
  <2> HIDE DEF E
  <2>4. inbox' = [k \in Events \X Users |->
                    IF k[1] \in E /\ k[2] = u THEN "read" ELSE inbox[k]]
    BY <1>4, <2>3 DEF MarkAllRead
  <2>5. QED
    BY <2>1, <2>2, <2>4 DEF Feed!Read
<1>5. ASSUME NEW o \in OutboxRuns, OutboxStep(o) \/ OutboxCrash(o), ~ OutboxCommit(o)
      PROVE  UNCHANGED <<inbox, published>>
  BY <1>5 DEF OutboxStep, OutboxList, OutboxBegin, OutboxFill, OutboxAbort, OutboxCrash,
              outboxUnchanged
<1>6. ASSUME NEW p \in PushRuns, PushStep(p) \/ PushCrash(p)
      PROVE  UNCHANGED <<inbox, published>>
  BY <1>6 DEF PushStep, PushList, PushClaim, PushLoad, PushSend, RecordDelivered, RecordInvalid,
              RecordRetry, PushCrash, pushUnchanged
<1>7. ASSUME NEW u \in Users,
             \/ \E i \in Installations, t \in Tokens : Register(u, i, t)
             \/ \E r \in RowIds : RemoveDevice(u, r)
      PROVE  UNCHANGED <<inbox, published>>
  BY <1>7 DEF Register, RemoveDevice, deviceUnchanged
<1>8. CASE UNCHANGED <<inbox, published>>
  BY <1>8
<1>9. QED
  BY <1>1, <1>2, <1>3, <1>4, <1>5, <1>6, <1>7, <1>8
     DEF Next, TokenDies, Tick, pushUnchanged, vars

\* The outbox with its overlapping and crashing runs implements the inbox feed: an event
\* reaches all of its recipients in one step, once, and what was read stays read.
THEOREM OutboxImplementsFeed == Spec => ImplementsFeed
<1>1. Init => TypeOK /\ Inv
  BY InitTypes, InitInv
<1>2. Init => Feed!Init
  BY DEF Init, Feed!Init, Range
<1>3. QED
  BY <1>1, <1>2, StepInv, FeedStep, PTL DEF Spec, ImplementsFeed, Feed!Spec

=============================================================================
