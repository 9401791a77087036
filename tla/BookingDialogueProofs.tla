------------------------ MODULE BookingDialogueProofs ------------------------
(***************************************************************************)
(* Theorems about BookingDialogue, for every number of overlapping calls,  *)
(* any bookings, limits and windows: the types, the rate of messages, when *)
(* reviews can be read, and that the pages of a chat lose no message.      *)
(***************************************************************************)
EXTENDS BookingDialogue, FiniteSetTheorems, WellFoundedInduction, TLAPS

\* What is left of the locks a call asks for.
SendPlans(author, b, key) ==
  {SendLocks(author, b, key), <<<<"key", author, key>>, BookingLock(b)>>, <<BookingLock(b)>>, <<>>}
ReviewPlans(author, b) == {<<<<"review", author>>, BookingLock(b)>>, <<BookingLock(b)>>, <<>>}
Plans ==
  UNION ({SendPlans(author, b, key) : author \in Parties, b \in Bookings, key \in Keys}
         \cup {ReviewPlans(author, b) : author \in Parties, b \in Bookings})

SendRecord == [pc : {"lock", "insert"}, does : {"send"}, author : Writers, booking : Bookings,
               key : Keys, now : 0 .. MaxClock, locks : Plans]
SnapshotRecord == [pc : {"snapshot"}, author : Parties, booking : Bookings, now : 0 .. MaxClock]
ReviewRecord == [pc : {"lock"}, does : {"review"}, author : Parties, booking : Bookings,
                 now : 0 .. MaxClock, completed : 0 .. Never, seen : SUBSET Review,
                 locks : Plans]
CallRecord == {Idle} \cup SendRecord \cup SnapshotRecord \cup ReviewRecord

\* The lock that orders an author's messages, and who holds it.
RateLock(author) == <<"rate", author>>
HoldsRate(c, author) == RateLock(author) \in DOMAIN lock /\ lock[RateLock(author)] = c

\* There is room for one more message of the call's author.
Room(w) ==
  LET sent == Recent(w.author, w.now)
  IN  /\ Cardinality({m \in sent : m.booking = w.booking}) < MaxPerBooking
      /\ Cardinality(sent) < MaxPerActor

\* A call that sends holds the lock of its author once it has asked for it, and what it has
\* counted stays true until it inserts.
Sending(c) ==
  LET w == call[c] IN
  w \in SendRecord =>
    /\ w.now <= clock
    /\ w.locks \in SendPlans(w.author, w.booking, w.key)
    /\ w.locks # SendLocks(w.author, w.booking, w.key) => HoldsRate(c, w.author)
    /\ w.pc = "insert" => w.locks = <<>> /\ Room(w)

\* What a review's snapshot shows stays true, except that there may be more.
Reviewing(c) ==
  LET w == call[c] IN
  /\ w \in SnapshotRecord => w.now <= clock
  /\ w \in ReviewRecord =>
       /\ w.now <= clock
       /\ w.completed # Never => completed[w.booking] = w.completed
       /\ \A r \in w.seen : Written(reviews, r.booking, r.author)

\* A review is published when both are there, and otherwise at the deadline.
Due(r) ==
  /\ completed[r.booking] # Never
  /\ Written(reviews, r.booking, Other(r.author)) => r.publishAt <= clock
  /\ ~Written(reviews, r.booking, Other(r.author)) => r.publishAt = Deadline(r.booking)

Kept ==
  /\ TypeOK
  /\ call \in [Calls -> CallRecord]
  /\ IsFiniteSet(messages)
  /\ \A c \in Calls : Sending(c) /\ Reviewing(c)
  /\ \A r \in reviews : Due(r)
  /\ RateHolds

-----------------------------------------------------------------------------
(***************************************************************************)
(* Works and their locks                                                   *)
(***************************************************************************)

\* What a call is doing tells what it is.
LEMMA Kinds ==
  ASSUME NEW w \in CallRecord
  PROVE  /\ w.pc \in {"idle", "snapshot", "lock", "insert"}
         /\ w.pc = "snapshot" => w \in SnapshotRecord
         /\ w.pc = "insert" => w \in SendRecord
         /\ w.pc = "lock" /\ w.does = "send" => w \in SendRecord
         /\ w.pc = "lock" /\ w.does = "review" => w \in ReviewRecord
         /\ w.pc = "lock" => w \in SendRecord \/ w \in ReviewRecord
<1>1. CASE w = Idle
  BY <1>1 DEF Idle
<1>2. CASE w \in SendRecord
  BY <1>2 DEF SendRecord
<1>3. CASE w \in SnapshotRecord
  BY <1>3 DEF SnapshotRecord
<1>4. CASE w \in ReviewRecord
  BY <1>4 DEF ReviewRecord
<1> QED BY <1>1, <1>2, <1>3, <1>4 DEF CallRecord

\* A call sends or reviews, and not both.
LEMMA KindsDiffer ==
  /\ Idle \notin SendRecord /\ Idle \notin SnapshotRecord /\ Idle \notin ReviewRecord
  /\ \A w \in SendRecord : w \notin SnapshotRecord /\ w \notin ReviewRecord
  /\ \A w \in SnapshotRecord : w \notin ReviewRecord
<1>1. Idle.pc = "idle"
  BY DEF Idle
<1>2. \A w \in SendRecord : w.pc \in {"lock", "insert"} /\ w.does = "send"
  BY DEF SendRecord
<1>3. \A w \in SnapshotRecord : w.pc = "snapshot"
  BY DEF SnapshotRecord
<1>4. \A w \in ReviewRecord : w.pc = "lock" /\ w.does = "review"
  BY DEF ReviewRecord
<1> QED BY <1>1, <1>2, <1>3, <1>4

\* The plans of locks, one by one.
LEMMA SendPlan ==
  ASSUME NEW a, NEW b, NEW k, NEW p \in SendPlans(a, b, k), p # <<>>
  PROVE  /\ Tail(p) \in SendPlans(a, b, k)
         /\ p = SendLocks(a, b, k) => Head(p) = RateLock(a)
<1> DEFINE x == RateLock(a)
           y == <<"key", a, k>>
           z == BookingLock(b)
<1>1. SendPlans(a, b, k) = {<<x, y, z>>, <<y, z>>, <<z>>, <<>>} /\ SendLocks(a, b, k) = <<x, y, z>>
  BY DEF SendPlans, SendLocks, RateLock
<1> HIDE DEF x, y, z
<1>2. /\ Tail(<<x, y, z>>) = <<y, z>> /\ Tail(<<y, z>>) = <<z>> /\ Tail(<<z>>) = <<>>
      /\ Head(<<x, y, z>>) = x
  OBVIOUS
<1>3. Tail(p) \in SendPlans(a, b, k)
  BY <1>1, <1>2
<1>4. p = SendLocks(a, b, k) => Head(p) = x
  BY <1>1, <1>2
<1> QED BY <1>3, <1>4 DEF x

\* Those of a review.
LEMMA ReviewPlan ==
  ASSUME NEW a, NEW b, NEW p \in ReviewPlans(a, b), p # <<>>
  PROVE  Tail(p) \in ReviewPlans(a, b)
<1> DEFINE y == <<"review", a>>
           z == BookingLock(b)
<1>1. ReviewPlans(a, b) = {<<y, z>>, <<z>>, <<>>}
  BY DEF ReviewPlans
<1> HIDE DEF y, z
<1>2. Tail(<<y, z>>) = <<z>> /\ Tail(<<z>>) = <<>>
  OBVIOUS
<1> QED BY <1>1, <1>2

\* Every plan is one of these, and so is what is left of it.
LEMMA PlanTypes ==
  /\ \A a \in Parties, b \in Bookings, k \in Keys : SendPlans(a, b, k) \subseteq Plans
  /\ \A a \in Parties, b \in Bookings : ReviewPlans(a, b) \subseteq Plans
  /\ \A p \in Plans : p # <<>> => Tail(p) \in Plans
<1>1. \A a \in Parties, b \in Bookings, k \in Keys : SendPlans(a, b, k) \subseteq Plans
  BY DEF Plans
<1>2. \A a \in Parties, b \in Bookings : ReviewPlans(a, b) \subseteq Plans
  BY DEF Plans
<1>3. ASSUME NEW p \in Plans, p # <<>> PROVE Tail(p) \in Plans
  <2>1. CASE \E a \in Parties, b \in Bookings, k \in Keys : p \in SendPlans(a, b, k)
    BY <1>1, <1>3, <2>1, SendPlan
  <2>2. CASE \E a \in Parties, b \in Bookings : p \in ReviewPlans(a, b)
    BY <1>2, <1>3, <2>2, ReviewPlan
  <2> QED BY <2>1, <2>2 DEF Plans
<1> QED BY <1>1, <1>2, <1>3

\* Writers are parties, and nobody is the other party of himself.
LEMMA Sides ==
  /\ Writers \subseteq Parties
  /\ \A a \in Parties : Other(a) \in Parties /\ Other(a) # a /\ Other(Other(a)) = a
  /\ \A a, b \in Parties : a # b => b = Other(a)
BY DialogueAssumption DEF Parties, Other

\* The steps of a sending call.
LEMMA SendSteps ==
  ASSUME NEW w \in SendRecord
  PROVE  /\ [w EXCEPT !.pc = "insert"] \in SendRecord
         /\ [w EXCEPT !.pc = "insert"].pc = "insert"
         /\ [w EXCEPT !.pc = "insert"].author = w.author
         /\ [w EXCEPT !.pc = "insert"].booking = w.booking
         /\ [w EXCEPT !.pc = "insert"].key = w.key
         /\ [w EXCEPT !.pc = "insert"].now = w.now
         /\ [w EXCEPT !.pc = "insert"].locks = w.locks
         /\ \A p \in Plans :
              /\ [w EXCEPT !.locks = p] \in SendRecord
              /\ [w EXCEPT !.locks = p].pc = w.pc
              /\ [w EXCEPT !.locks = p].author = w.author
              /\ [w EXCEPT !.locks = p].booking = w.booking
              /\ [w EXCEPT !.locks = p].key = w.key
              /\ [w EXCEPT !.locks = p].now = w.now
              /\ [w EXCEPT !.locks = p].locks = p
BY DEF SendRecord

\* Those of a reviewing call.
LEMMA ReviewSteps ==
  ASSUME NEW w \in ReviewRecord, NEW p \in Plans
  PROVE  /\ [w EXCEPT !.locks = p] \in ReviewRecord
         /\ [w EXCEPT !.locks = p].booking = w.booking
         /\ [w EXCEPT !.locks = p].now = w.now
         /\ [w EXCEPT !.locks = p].completed = w.completed
         /\ [w EXCEPT !.locks = p].seen = w.seen
BY DEF ReviewRecord

\* A call that ends frees its own locks and nobody else's.
LEMMA FinishLocks ==
  ASSUME TypeOK, NEW c \in Calls, Finish(c)
  PROVE  /\ \A l \in DOMAIN lock' : lock'[l] \in Calls
         /\ \A d \in Calls \ {c} : \A a : HoldsRate(d, a) => HoldsRate(d, a)'
<1>1. DOMAIN lock' = {k \in DOMAIN lock : lock[k] # c}
  BY DEF Finish
<1>2. \A l \in DOMAIN lock' : lock'[l] = lock[l]
  BY DEF Finish
<1>3. \A l \in DOMAIN lock' : lock'[l] \in Calls
  BY <1>1, <1>2 DEF TypeOK
<1>4. ASSUME NEW d \in Calls \ {c}, NEW a, HoldsRate(d, a) PROVE HoldsRate(d, a)'
  BY <1>1, <1>2, <1>4 DEF HoldsRate
<1> QED BY <1>3, <1>4

\* A call that takes a lock takes it from nobody.
LEMMA LockTaken ==
  ASSUME TypeOK, NEW c \in Calls, Lock(c)
  PROVE  /\ \A l \in DOMAIN lock' : lock'[l] \in Calls
         /\ \A d \in Calls \ {c} : \A a : HoldsRate(d, a) => HoldsRate(d, a)'
         /\ Head(call[c].locks) \in DOMAIN lock' /\ lock'[Head(call[c].locks)] = c
         /\ \A a : HoldsRate(c, a) => HoldsRate(c, a)'
<1> DEFINE l == Head(call[c].locks)
<1>1. /\ l \in DOMAIN lock => lock[l] = c
      /\ lock' = [k \in DOMAIN lock \cup {l} |-> IF k = l THEN c ELSE lock[k]]
  BY DEF Lock
<1> HIDE DEF l
<1>2. DOMAIN lock' = DOMAIN lock \cup {l} /\ lock'[l] = c
      /\ \A k \in DOMAIN lock : lock'[k] = lock[k]
  BY <1>1
<1>3. \A k \in DOMAIN lock' : lock'[k] \in Calls
  BY <1>2 DEF TypeOK
<1>4. \A d \in Calls : \A a : HoldsRate(d, a) => HoldsRate(d, a)'
  BY <1>2 DEF HoldsRate
<1> QED BY <1>2, <1>3, <1>4 DEF l

-----------------------------------------------------------------------------
(***************************************************************************)
(* What other steps leave of a call and of a review                        *)
(***************************************************************************)

\* The types that arithmetic needs.
LEMMA Numbers ==
  ASSUME TypeOK
  PROVE  /\ clock \in Nat /\ clock <= MaxClock
         /\ MaxClock \in Nat /\ RateWindow \in Nat /\ ReviewWindow \in Nat
         /\ MaxPerBooking \in Nat /\ MaxPerActor \in Nat
         /\ \A m \in messages : m \in Message /\ m.at \in Nat /\ m.at <= MaxClock
         /\ \A b \in Bookings : completed[b] \in 0 .. MaxClock \cup {Never}
         /\ Never \notin 0 .. MaxClock
BY DialogueAssumption DEF TypeOK, Message, Never

\* A call that another step does not touch goes on as it was, if nothing it relies on changes.
LEMMA OtherCall ==
  ASSUME NEW d \in Calls, NEW w \in CallRecord, call[d] = w, call'[d] = w,
         Sending(d), Reviewing(d),
         clock \in Nat, clock' \in Nat, clock <= clock',
         w \in SendRecord => (HoldsRate(d, w.author) => HoldsRate(d, w.author)'),
         w \in SendRecord /\ w.pc = "insert" => (Room(w) => Room(w)'),
         w \in ReviewRecord /\ w.completed # Never => completed'[w.booking] = completed[w.booking],
         \A b, a : Written(reviews, b, a) => Written(reviews', b, a)
  PROVE  Sending(d)' /\ Reviewing(d)'
<1>0. MaxClock \in Nat
  BY DialogueAssumption
<1>1. CASE w \in SendRecord
  <2>1. w.now \in Nat
    BY <1>0, <1>1 DEF SendRecord
  <2>2. /\ w.now <= clock'
        /\ w.locks \in SendPlans(w.author, w.booking, w.key)
        /\ w.locks # SendLocks(w.author, w.booking, w.key) => HoldsRate(d, w.author)'
        /\ w.pc = "insert" => w.locks = <<>> /\ Room(w)'
    BY <1>1, <2>1 DEF Sending
  <2>3. w \notin SnapshotRecord /\ w \notin ReviewRecord
    BY <1>1, KindsDiffer
  <2>4. Sending(d)'
    BY <2>2 DEF Sending
  <2>5. Reviewing(d)'
    BY <2>3 DEF Reviewing
  <2> QED BY <2>4, <2>5
<1>2. CASE w \in SnapshotRecord
  <2>1. w.now \in Nat /\ w.now <= clock
    BY <1>0, <1>2 DEF SnapshotRecord, Reviewing
  <2>2. w \notin SendRecord /\ w \notin ReviewRecord
    BY <1>2, KindsDiffer
  <2> QED BY <2>1, <2>2 DEF Sending, Reviewing
<1>3. CASE w \in ReviewRecord
  <2>1. w.now \in Nat /\ w.now <= clock
    BY <1>0, <1>3 DEF ReviewRecord, Reviewing
  <2>2. w \notin SendRecord /\ w \notin SnapshotRecord
    BY <1>3, KindsDiffer
  <2>3. w.completed # Never => completed'[w.booking] = w.completed
    BY <1>3 DEF Reviewing
  <2>4. \A r \in w.seen : Written(reviews', r.booking, r.author)
    BY <1>3 DEF Reviewing
  <2> QED BY <2>1, <2>2, <2>3, <2>4 DEF Sending, Reviewing
<1>4. CASE w = Idle
  BY <1>4, KindsDiffer DEF Sending, Reviewing
<1> QED BY <1>1, <1>2, <1>3, <1>4 DEF CallRecord

\* A step of one call that changes nothing but the call and its locks.
LEMMA CallKept ==
  ASSUME Kept, NEW c \in Calls, NEW w \in CallRecord, call' = [call EXCEPT ![c] = w],
         UNCHANGED <<clock, completed, messages, reviews>>,
         \A l \in DOMAIN lock' : lock'[l] \in Calls,
         \A d \in Calls \ {c} : \A a : HoldsRate(d, a) => HoldsRate(d, a)',
         Sending(c)', Reviewing(c)'
  PROVE  Kept'
<1>1. /\ call' \in [Calls -> CallRecord] /\ call'[c] = w
      /\ \A d \in Calls \ {c} : call'[d] = call[d]
  BY DEF Kept
<1>2. TypeOK'
  BY <1>1 DEF Kept, TypeOK
<1>3. ASSUME NEW d \in Calls PROVE Sending(d)' /\ Reviewing(d)'
  <2>1. CASE d = c
    BY <2>1
  <2>2. CASE d # c
    <3>1. PICK v \in CallRecord : call[d] = v
      BY DEF Kept
    <3>2. call'[d] = v
      BY <1>1, <2>2, <3>1
    <3>3. Room(v) => Room(v)'
      BY DEF Room, Recent
    <3>4. clock \in Nat /\ clock' \in Nat /\ clock <= clock'
      BY DialogueAssumption DEF Kept, TypeOK
    <3>5. \A b, a : Written(reviews, b, a) => Written(reviews', b, a)
      OBVIOUS
    <3>6. HoldsRate(d, v.author) => HoldsRate(d, v.author)'
      BY <2>2
    <3>7. Sending(d) /\ Reviewing(d) /\ completed'[v.booking] = completed[v.booking]
      BY DEF Kept
    <3> QED BY <3>1, <3>2, <3>3, <3>4, <3>5, <3>6, <3>7, OtherCall
  <2> QED BY <2>1, <2>2
<1>4. \A r \in reviews' : Due(r)'
  BY DEF Kept, Due, Deadline
<1>5. RateHolds'
  BY DEF Kept, RateHolds
<1> QED BY <1>1, <1>2, <1>3, <1>4, <1>5 DEF Kept

\* A call that is idle again keeps nothing.
LEMMA IdleKept == \A c \in Calls : call[c] = Idle => Sending(c) /\ Reviewing(c)
BY KindsDiffer DEF Sending, Reviewing

-----------------------------------------------------------------------------
(***************************************************************************)
(* Steps                                                                   *)
(***************************************************************************)

\* A new call has all its locks to ask for.
LEMMA BeginKept ==
  ASSUME Kept, NEW c \in Calls,
         \/ \E author \in Writers, b \in Bookings, key \in Keys : BeginSend(c, author, b, key)
         \/ \E author \in Parties, b \in Ending : BeginReview(c, author, b)
  PROVE  Kept'
<1>1. /\ \A l \in DOMAIN lock : lock[l] \in Calls
      /\ clock \in 0 .. MaxClock /\ clock \in Nat
  BY DialogueAssumption DEF Kept, TypeOK
<1>2. ASSUME NEW author \in Writers, NEW b \in Bookings, NEW key \in Keys,
             BeginSend(c, author, b, key)
      PROVE  Kept'
  <2> DEFINE p == SendLocks(author, b, key)
             w == [pc |-> "lock", does |-> "send", author |-> author, booking |-> b,
                   key |-> key, now |-> clock, locks |-> p]
  <2>1. call' = [call EXCEPT ![c] = w] /\ UNCHANGED <<clock, completed, messages, reviews, lock>>
    BY <1>2 DEF BeginSend, Goto
  <2>2. p \in SendPlans(author, b, key) /\ p \in Plans
    BY PlanTypes, Sides DEF SendPlans
  <2> HIDE DEF p
  <2>3. w \in SendRecord
    BY <1>1, <2>2 DEF SendRecord
  <2>4. /\ w.pc = "lock" /\ w.author = author /\ w.booking = b /\ w.key = key /\ w.now = clock
        /\ w.locks = p
    OBVIOUS
  <2> HIDE DEF w
  <2>5. w \in CallRecord /\ w \notin SnapshotRecord /\ w \notin ReviewRecord
    BY <2>3, KindsDiffer DEF CallRecord
  <2>6. call'[c] = w
    BY <2>1 DEF Kept
  <2>7. Sending(c)' /\ Reviewing(c)'
    <3>1. clock <= clock' /\ p = SendLocks(author, b, key)
      BY <1>1, <2>1 DEF p
    <3>2. Sending(c)'
      BY <2>1, <2>2, <2>4, <2>6, <3>1 DEF Sending
    <3> QED BY <2>5, <2>6, <3>2 DEF Reviewing
  <2>8. \A d \in Calls \ {c} : \A a : HoldsRate(d, a) => HoldsRate(d, a)'
    BY <2>1 DEF HoldsRate
  <2>9. \A l \in DOMAIN lock' : lock'[l] \in Calls
    BY <1>1, <2>1
  <2> QED BY <2>1, <2>5, <2>7, <2>8, <2>9, CallKept
<1>3. ASSUME NEW author \in Parties, NEW b \in Ending, BeginReview(c, author, b) PROVE Kept'
  <2> DEFINE w == [pc |-> "snapshot", author |-> author, booking |-> b, now |-> clock]
  <2>1. call' = [call EXCEPT ![c] = w] /\ UNCHANGED <<clock, completed, messages, reviews, lock>>
    BY <1>3 DEF BeginReview, Goto
  <2>2. w \in SnapshotRecord /\ w.now = clock
    BY <1>1, DialogueAssumption DEF SnapshotRecord
  <2> HIDE DEF w
  <2>3. w \in CallRecord /\ w \notin SendRecord /\ w \notin ReviewRecord
    BY <2>2, KindsDiffer DEF CallRecord
  <2>4. call'[c] = w
    BY <2>1 DEF Kept
  <2>5. Sending(c)' /\ Reviewing(c)'
    BY <1>1, <2>1, <2>2, <2>3, <2>4 DEF Sending, Reviewing
  <2>6. \A d \in Calls \ {c} : \A a : HoldsRate(d, a) => HoldsRate(d, a)'
    BY <2>1 DEF HoldsRate
  <2>7. \A l \in DOMAIN lock' : lock'[l] \in Calls
    BY <1>1, <2>1
  <2> QED BY <2>1, <2>3, <2>5, <2>6, <2>7, CallKept
<1> QED BY <1>2, <1>3

\* A snapshot shows what is there.
LEMMA SnapshotKept ==
  ASSUME Kept, NEW c \in Calls, SnapshotReview(c)
  PROVE  Kept'
<1> DEFINE v == call[c]
           p == <<<<"review", v.author>>, BookingLock(v.booking)>>
           w == [pc |-> "lock", does |-> "review", author |-> v.author, booking |-> v.booking,
                 now |-> v.now, completed |-> completed[v.booking], seen |-> reviews, locks |-> p]
<1>1. /\ \A l \in DOMAIN lock : lock[l] \in Calls
      /\ completed \in [Bookings -> 0 .. Never] /\ reviews \subseteq Review
  BY DEF Kept, TypeOK
<1>2. call' = [call EXCEPT ![c] = w] /\ UNCHANGED <<clock, completed, messages, reviews, lock>>
      /\ v.pc = "snapshot"
  BY DEF SnapshotReview, Goto
<1>3. v \in SnapshotRecord
  BY <1>2, Kinds DEF Kept
<1>4. /\ v.author \in Parties /\ v.booking \in Bookings /\ v.now \in 0 .. MaxClock
      /\ v.now <= clock
  BY <1>3 DEF SnapshotRecord, Kept, Reviewing
<1>5. p \in Plans
  BY <1>4, PlanTypes DEF ReviewPlans
<1> HIDE DEF v, p
<1>6. w \in ReviewRecord
  BY <1>1, <1>4, <1>5 DEF ReviewRecord
<1>7. /\ w.now = v.now /\ w.booking = v.booking /\ w.completed = completed[v.booking]
      /\ w.seen = reviews
  OBVIOUS
<1> HIDE DEF w
<1>8. w \in CallRecord /\ w \notin SendRecord /\ w \notin SnapshotRecord
  BY <1>6, KindsDiffer DEF CallRecord
<1>9. call'[c] = w
  BY <1>2 DEF Kept
<1>10. \A r \in reviews : Written(reviews, r.booking, r.author)
  BY DEF Written
<1>11. Sending(c)' /\ Reviewing(c)'
  BY <1>2, <1>4, <1>7, <1>8, <1>9, <1>10 DEF Sending, Reviewing
<1>12. \A d \in Calls \ {c} : \A a : HoldsRate(d, a) => HoldsRate(d, a)'
  BY <1>2 DEF HoldsRate
<1>13. \A l \in DOMAIN lock' : lock'[l] \in Calls
  BY <1>1, <1>2
<1> QED BY <1>2, <1>8, <1>11, <1>12, <1>13, CallKept

\* The first lock a sending call takes is that of its author.
LEMMA LockKept ==
  ASSUME Kept, NEW c \in Calls, Lock(c)
  PROVE  Kept'
<1>0. PICK v : v = call[c]
  OBVIOUS
<1> DEFINE p == Tail(v.locks)
           w == [v EXCEPT !.locks = p]
<1>1. /\ v \in CallRecord /\ v.pc = "lock" /\ v.locks # <<>>
      /\ call' = [call EXCEPT ![c] = w]
      /\ UNCHANGED <<clock, completed, messages, reviews>>
  BY <1>0 DEF Kept, Lock, Goto
<1>2. /\ \A l \in DOMAIN lock' : lock'[l] \in Calls
      /\ \A d \in Calls \ {c} : \A a : HoldsRate(d, a) => HoldsRate(d, a)'
      /\ Head(v.locks) \in DOMAIN lock' /\ lock'[Head(v.locks)] = c
      /\ \A a : HoldsRate(c, a) => HoldsRate(c, a)'
  BY <1>0, LockTaken DEF Kept
<1>3. call'[c] = w
  BY <1>1 DEF Kept
<1> HIDE DEF p
<1>4. CASE v \in SendRecord
  <2>1. /\ p \in SendPlans(v.author, v.booking, v.key)
        /\ v.locks = SendLocks(v.author, v.booking, v.key) => Head(v.locks) = RateLock(v.author)
    <3>1. v.locks \in SendPlans(v.author, v.booking, v.key)
      BY <1>0, <1>4 DEF Kept, Sending
    <3> QED BY <1>1, <3>1, SendPlan DEF p
  <2>2. v.author \in Parties /\ v.booking \in Bookings /\ v.key \in Keys
    BY <1>4, Sides DEF SendRecord
  <2>3. p \in Plans
    BY <2>1, <2>2, PlanTypes
  <2>4. HoldsRate(c, v.author)'
    <3>1. CASE v.locks = SendLocks(v.author, v.booking, v.key)
      <4>1. Head(v.locks) = RateLock(v.author)
        BY <2>1, <3>1
      <4>2. RateLock(v.author) \in DOMAIN lock' /\ lock'[RateLock(v.author)] = c
        BY <1>2, <4>1
      <4> QED BY <4>2 DEF HoldsRate
    <3>2. CASE v.locks # SendLocks(v.author, v.booking, v.key)
      BY <1>0, <1>2, <1>4, <3>2 DEF Kept, Sending
    <3> QED BY <3>1, <3>2
  <2>5. /\ w \in SendRecord /\ w.pc = "lock" /\ w.author = v.author /\ w.booking = v.booking
        /\ w.key = v.key /\ w.now = v.now /\ w.locks = p
    BY <1>1, <1>4, <2>3, SendSteps
  <2>6. v.now <= clock
    BY <1>0, <1>4 DEF Kept, Sending
  <2> HIDE DEF w
  <2>7. w \in CallRecord /\ w \notin SnapshotRecord /\ w \notin ReviewRecord
    BY <2>5, KindsDiffer DEF CallRecord
  <2>8. HoldsRate(c, w.author)'
    BY <2>4, <2>5
  <2>9. /\ w.now <= clock'
        /\ w.locks \in SendPlans(w.author, w.booking, w.key) /\ w.pc # "insert"
    BY <1>1, <2>1, <2>5, <2>6
  <2>10. Sending(c)'
    BY <1>3, <2>8, <2>9 DEF Sending
  <2>11. Reviewing(c)'
    BY <1>3, <2>7 DEF Reviewing
  <2> QED BY <1>1, <1>2, <2>7, <2>10, <2>11, CallKept
<1>5. CASE v \in ReviewRecord
  <2>1. v.locks \in Plans
    BY <1>5 DEF ReviewRecord
  <2>2. p \in Plans
    BY <1>1, <2>1, PlanTypes DEF p
  <2>3. /\ w \in ReviewRecord /\ w.booking = v.booking /\ w.now = v.now
        /\ w.completed = v.completed /\ w.seen = v.seen
    BY <1>5, <2>2, ReviewSteps
  <2>4. /\ v.now <= clock
        /\ v.completed # Never => completed[v.booking] = v.completed
        /\ \A r \in v.seen : Written(reviews, r.booking, r.author)
    BY <1>0, <1>5 DEF Kept, Reviewing
  <2> HIDE DEF w
  <2>5. w \in CallRecord /\ w \notin SnapshotRecord /\ w \notin SendRecord
    BY <2>3, KindsDiffer DEF CallRecord
  <2>6. \A r \in w.seen : Written(reviews', r.booking, r.author)
    BY <1>1, <2>3, <2>4
  <2>7. Sending(c)' /\ Reviewing(c)'
    BY <1>1, <1>3, <2>3, <2>4, <2>5, <2>6 DEF Sending, Reviewing
  <2> QED BY <1>1, <1>2, <2>5, <2>7, CallKept
<1> QED BY <1>1, <1>4, <1>5, Kinds

\* With all its locks a call finds room for its message, or ends.
LEMMA CheckKept ==
  ASSUME Kept, NEW c \in Calls, CheckSend(c)
  PROVE  Kept'
<1> DEFINE v == call[c]
<1>1. /\ v \in CallRecord /\ v.pc = "lock" /\ v.does = "send" /\ v.locks = <<>>
      /\ UNCHANGED <<clock, completed, messages, reviews>>
  BY DEF Kept, CheckSend
<1>2. v \in SendRecord
  BY <1>1, Kinds
<1>3. CASE Finish(c)
  <2>1. call' = [call EXCEPT ![c] = Idle] /\ Idle \in CallRecord
    BY <1>3 DEF Finish, Goto, CallRecord
  <2>2. call'[c] = Idle
    BY <2>1 DEF Kept
  <2>3. Sending(c)' /\ Reviewing(c)'
    BY <2>2, KindsDiffer DEF Sending, Reviewing
  <2>4. TypeOK
    BY DEF Kept
  <2> QED BY <1>1, <1>3, <2>1, <2>3, <2>4, FinishLocks, CallKept
<1>4. CASE ~Finish(c)
  <2> DEFINE w == [v EXCEPT !.pc = "insert"]
  <2>1. /\ call' = [call EXCEPT ![c] = w] /\ UNCHANGED lock
        /\ Room(v)
    BY <1>4 DEF CheckSend, Goto, Room
  <2>2. /\ w \in SendRecord /\ w.pc = "insert" /\ w.author = v.author /\ w.booking = v.booking
        /\ w.key = v.key /\ w.now = v.now /\ w.locks = v.locks
    BY <1>2, SendSteps
  <2>3. v.now <= clock /\ v.locks \in SendPlans(v.author, v.booking, v.key)
    BY <1>2 DEF Kept, Sending
  <2>4. HoldsRate(c, v.author)
    <3>1. Len(SendLocks(v.author, v.booking, v.key)) # 0
      BY DEF SendLocks
    <3>2. v.locks # SendLocks(v.author, v.booking, v.key)
      BY <1>1, <3>1
    <3> QED BY <1>2, <3>2 DEF Kept, Sending
  <2> HIDE DEF w
  <2>5. w \in CallRecord /\ w \notin SnapshotRecord /\ w \notin ReviewRecord
    BY <2>2, KindsDiffer DEF CallRecord
  <2>6. call'[c] = w
    BY <2>1 DEF Kept
  <2>7. Room(w)
    BY <2>1, <2>2 DEF Room
  <2>8. HoldsRate(c, w.author)
    BY <2>2, <2>4
  <2> PICK u : u = w
    OBVIOUS
  <2>9. Room(u)' /\ HoldsRate(c, u.author)'
    BY <1>1, <2>1, <2>7, <2>8 DEF Room, Recent, HoldsRate
  <2>10. u.now <= clock' /\ u.locks \in SendPlans(u.author, u.booking, u.key) /\ u.locks = <<>>
    BY <1>1, <2>2, <2>3
  <2>11. Sending(c)'
    BY <2>6, <2>9, <2>10 DEF Sending
  <2>12. Reviewing(c)'
    BY <2>5, <2>6 DEF Reviewing
  <2>13. \A l \in DOMAIN lock' : lock'[l] \in Calls
    BY <2>1 DEF Kept, TypeOK
  <2>14. \A d \in Calls \ {c} : \A a : HoldsRate(d, a) => HoldsRate(d, a)'
    BY <2>1 DEF HoldsRate
  <2> QED BY <1>1, <2>1, <2>5, <2>11, <2>12, <2>13, <2>14, CallKept
<1> QED BY <1>3, <1>4

\* What a sender has counted is what a window around its message holds.
LEMMA WindowCounted ==
  ASSUME TypeOK, NEW a, NEW now \in 0 .. MaxClock, NEW at \in 0 .. MaxClock, now <= at,
         NEW t \in 0 .. MaxClock, at \in t .. t + RateWindow
  PROVE  \A m \in messages : m.author = a /\ m.at \in t .. t + RateWindow => m \in Recent(a, now)
<1> SUFFICES ASSUME NEW m \in messages, m.author = a, m.at \in t .. t + RateWindow
             PROVE  m \in Recent(a, now)
  OBVIOUS
<1>1. m.at \in Nat /\ t \in Nat /\ now \in Nat /\ at \in Nat /\ RateWindow \in Nat
  BY Numbers
<1>2. m.at + RateWindow >= now
  BY <1>1
<1> QED BY <1>2 DEF Recent

\* A set within one that has room, and one more element, is no larger than the limit.
LEMMA RoomForOne ==
  ASSUME NEW max \in Nat, NEW T, IsFiniteSet(T), Cardinality(T) < max,
         NEW S, NEW m, S \subseteq T \cup {m}
  PROVE  Cardinality(S) <= max
<1>1. IsFiniteSet(T \cup {m}) /\ Cardinality(T \cup {m}) <= Cardinality(T) + 1
  <2>1. Cardinality(T) \in Nat
    BY FS_CardinalityType
  <2>2. IsFiniteSet(T \cup {m})
    BY FS_AddElement
  <2>3. Cardinality(T \cup {m}) = Cardinality(T) \/ Cardinality(T \cup {m}) = Cardinality(T) + 1
    BY FS_AddElement
  <2> QED BY <2>1, <2>2, <2>3
<1>2. Cardinality(S) <= Cardinality(T \cup {m}) /\ IsFiniteSet(S)
  BY <1>1, FS_Subset
<1>3. Cardinality(S) \in Nat /\ Cardinality(T) \in Nat /\ Cardinality(T \cup {m}) \in Nat
  BY <1>1, <1>2, FS_CardinalityType
<1> QED BY <1>1, <1>2, <1>3

\* The message is inserted while the author's lock is held, so what was counted is still all
\* there is, whatever time the row is given.
LEMMA InsertKept ==
  ASSUME Kept, NEW c \in Calls, InsertMessage(c)
  PROVE  Kept'
<1>0. PICK w : w = call[c]
  OBVIOUS
<1>1. w \in CallRecord /\ w.pc = "insert" /\ Finish(c) /\ UNCHANGED <<clock, completed, reviews>>
  BY <1>0 DEF Kept, InsertMessage
<1>2. w \in SendRecord
  BY <1>1, Kinds
<1>3. /\ w.now <= clock /\ HoldsRate(c, w.author) /\ Room(w)
      /\ w.author \in Parties /\ w.booking \in Bookings /\ w.key \in Keys /\ w.now \in 0 .. MaxClock
  <2>1. Len(SendLocks(w.author, w.booking, w.key)) # 0
    BY DEF SendLocks
  <2>2. /\ w.locks = <<>> /\ Room(w) /\ w.now <= clock
        /\ w.locks # SendLocks(w.author, w.booking, w.key) => HoldsRate(c, w.author)
    BY <1>0, <1>1, <1>2 DEF Kept, Sending
  <2>3. HoldsRate(c, w.author)
    BY <2>1, <2>2
  <2>4. /\ w.author \in Writers /\ w.booking \in Bookings /\ w.key \in Keys
        /\ w.now \in 0 .. MaxClock
    BY <1>2 DEF SendRecord
  <2> QED BY <2>2, <2>3, <2>4, Sides
<1>4. PICK at \in w.now .. clock :
        messages' = messages \cup {[booking |-> w.booking, author |-> w.author,
                                    key |-> w.key, at |-> at]}
  BY <1>0 DEF InsertMessage
<1>5. TypeOK
  BY DEF Kept
<1> DEFINE n == [booking |-> w.booking, author |-> w.author, key |-> w.key, at |-> at]
<1>6. at \in 0 .. MaxClock /\ w.now <= at
  BY <1>3, <1>4, <1>5, Numbers
<1>7. n \in Message /\ n.author = w.author /\ n.booking = w.booking /\ n.at = at
  BY <1>3, <1>6 DEF Message
<1>8. messages' = messages \cup {n}
  BY <1>4
<1> HIDE DEF n
<1>9. call' = [call EXCEPT ![c] = Idle]
  BY <1>1 DEF Finish, Goto
<1>10. /\ call' \in [Calls -> CallRecord] /\ call'[c] = Idle
       /\ \A d \in Calls \ {c} : call'[d] = call[d]
  BY <1>9 DEF Kept, CallRecord
<1>11. /\ \A l \in DOMAIN lock' : lock'[l] \in Calls
       /\ \A d \in Calls \ {c} : \A a : HoldsRate(d, a) => HoldsRate(d, a)'
  BY <1>1, <1>5, FinishLocks
<1>12. TypeOK'
  BY <1>1, <1>5, <1>7, <1>8, <1>10, <1>11 DEF TypeOK
<1>13. IsFiniteSet(messages')
  BY <1>8, FS_AddElement DEF Kept
<1>14. ASSUME NEW d \in Calls PROVE Sending(d)' /\ Reviewing(d)'
  <2>1. CASE d = c
    BY <1>10, <2>1, KindsDiffer DEF Sending, Reviewing
  <2>2. CASE d # c
    <3>1. PICK v \in CallRecord : call[d] = v
      BY DEF Kept
    <3>2. call'[d] = v /\ Sending(d) /\ Reviewing(d)
      BY <1>10, <2>2, <3>1 DEF Kept
    <3>3. ASSUME v \in SendRecord, v.pc = "insert", Room(v) PROVE Room(v)'
      <4>1. HoldsRate(d, v.author)
        <5>1. Len(SendLocks(v.author, v.booking, v.key)) # 0
          BY DEF SendLocks
        <5> QED BY <3>1, <3>2, <3>3, <5>1 DEF Sending
      <4>2. v.author # w.author
        BY <1>3, <2>2, <4>1 DEF HoldsRate
      <4>3. Recent(v.author, v.now)' = Recent(v.author, v.now)
        BY <1>7, <1>8, <4>2 DEF Recent
      <4> QED BY <3>3, <4>3 DEF Room
    <3>4. clock \in Nat /\ clock' \in Nat /\ clock <= clock'
      BY <1>1, <1>5, Numbers
    <3>5. HoldsRate(d, v.author) => HoldsRate(d, v.author)'
      BY <1>11, <2>2
    <3>6. \A b, a : Written(reviews, b, a) => Written(reviews', b, a)
      BY <1>1
    <3>7. completed'[v.booking] = completed[v.booking]
      BY <1>1
    <3> QED BY <3>1, <3>2, <3>3, <3>4, <3>5, <3>6, <3>7, OtherCall
  <2> QED BY <2>1, <2>2
<1>15. \A r \in reviews' : Due(r)'
  BY <1>1 DEF Kept, Due, Deadline
<1>16. RateHolds'
  <2> SUFFICES ASSUME NEW a \in Parties, NEW t \in 0 .. MaxClock
               PROVE  LET window == {m \in messages' : m.author = a /\ m.at \in t .. t + RateWindow}
                      IN /\ Cardinality(window) <= MaxPerActor
                         /\ \A b \in Bookings :
                              Cardinality({m \in window : m.booking = b}) <= MaxPerBooking
    BY DEF RateHolds
  <2> DEFINE Window(M) == {m \in M : m.author = a /\ m.at \in t .. t + RateWindow}
             InBooking(M, b) == {m \in M : m.booking = b}
  <2>1. /\ Cardinality(Window(messages)) <= MaxPerActor
        /\ \A b \in Bookings : Cardinality(InBooking(Window(messages), b)) <= MaxPerBooking
    BY DEF Kept, RateHolds
  <2>2. CASE a = w.author /\ at \in t .. t + RateWindow
    <3> DEFINE T == Recent(w.author, w.now)
    <3>1. Window(messages) \subseteq T
      BY <1>3, <1>5, <1>6, <2>2, WindowCounted
    <3>2. IsFiniteSet(T)
      BY FS_Subset DEF Kept, Recent
    <3>3. Cardinality(T) < MaxPerActor /\ Cardinality(InBooking(T, w.booking)) < MaxPerBooking
      BY <1>3 DEF Room
    <3>4. Window(messages') \subseteq Window(messages) \cup {n}
      BY <1>8
    <3> HIDE DEF T
    <3>5. Cardinality(Window(messages')) <= MaxPerActor
      <4>1. Window(messages') \subseteq T \cup {n}
        BY <3>1, <3>4
      <4> HIDE DEF Window
      <4> QED BY <3>2, <3>3, <4>1, RoomForOne, DialogueAssumption
    <3>6. ASSUME NEW b \in Bookings
          PROVE  Cardinality(InBooking(Window(messages'), b)) <= MaxPerBooking
      <4>1. CASE b = w.booking
        <5>1. InBooking(Window(messages'), b) \subseteq InBooking(T, w.booking) \cup {n}
          <6> HIDE DEF Window
          <6> QED BY <3>1, <3>4, <4>1
        <5>2. IsFiniteSet(InBooking(T, w.booking))
          BY <3>2, FS_Subset
        <5> HIDE DEF Window, InBooking
        <5> QED BY <3>3, <5>1, <5>2, RoomForOne, DialogueAssumption
      <4>2. CASE b # w.booking
        <5>1. InBooking(Window(messages'), b) = InBooking(Window(messages), b)
          BY <1>7, <1>8, <4>2
        <5> QED BY <2>1, <5>1
      <4> QED BY <4>1, <4>2
    <3> QED BY <3>5, <3>6
  <2>3. CASE ~(a = w.author /\ at \in t .. t + RateWindow)
    <3>1. Window(messages') = Window(messages)
      BY <1>7, <1>8, <2>3
    <3> HIDE DEF Window
    <3>2. /\ Cardinality(Window(messages')) <= MaxPerActor
          /\ \A b \in Bookings : Cardinality(InBooking(Window(messages'), b)) <= MaxPerBooking
      BY <2>1, <3>1
    <3> QED BY <3>2 DEF Window
  <2> QED BY <2>2, <2>3
<1> QED BY <1>10, <1>12, <1>13, <1>14, <1>15, <1>16 DEF Kept

\* A step that adds to the reviews or lets time pass, and may end calls.
LEMMA ReviewsKept ==
  ASSUME Kept, UNCHANGED messages,
         call' \in [Calls -> CallRecord], \A l \in DOMAIN lock' : lock'[l] \in Calls,
         \A d \in Calls :
           \/ call'[d] = Idle
           \/ call'[d] = call[d] /\ \A a : HoldsRate(d, a) => HoldsRate(d, a)',
         clock' \in 0 .. MaxClock, clock <= clock',
         completed' \in [Bookings -> 0 .. Never],
         \A b \in Bookings : completed[b] # Never => completed'[b] = completed[b],
         reviews' \subseteq Review,
         \A b, a : Written(reviews, b, a) => Written(reviews', b, a),
         \A r \in reviews' : Due(r)'
  PROVE  Kept'
<1>1. TypeOK'
  BY DEF Kept, TypeOK
<1>2. ASSUME NEW d \in Calls PROVE Sending(d)' /\ Reviewing(d)'
  <2>1. CASE call'[d] = Idle
    BY <2>1, KindsDiffer DEF Sending, Reviewing
  <2>2. CASE call'[d] # Idle
    <3>1. PICK v \in CallRecord : call[d] = v
      BY DEF Kept
    <3>2. call'[d] = v /\ \A a : HoldsRate(d, a) => HoldsRate(d, a)'
      BY <2>2, <3>1
    <3>3. HoldsRate(d, v.author) => HoldsRate(d, v.author)'
      BY <3>2
    <3>4. Room(v) => Room(v)'
      BY DEF Room, Recent
    <3>5. clock \in Nat /\ clock' \in Nat /\ clock <= clock'
      BY DialogueAssumption, <1>1 DEF Kept, TypeOK
    <3>6. Sending(d) /\ Reviewing(d)
      BY DEF Kept
    <3>7. v \in ReviewRecord /\ v.completed # Never => completed'[v.booking] = completed[v.booking]
      <4> SUFFICES ASSUME v \in ReviewRecord, v.completed # Never
                   PROVE  completed'[v.booking] = completed[v.booking]
        OBVIOUS
      <4>1. v.booking \in Bookings
        BY DEF ReviewRecord
      <4>2. completed[v.booking] = v.completed
        BY <3>1, <3>6 DEF Reviewing
      <4> QED BY <4>1, <4>2
    <3> QED BY <3>1, <3>2, <3>3, <3>4, <3>5, <3>6, <3>7, OtherCall
  <2> QED BY <2>1, <2>2
<1>3. RateHolds'
  BY DEF Kept, RateHolds
<1> QED BY <1>1, <1>2, <1>3 DEF Kept

\* The two reviews of a booking that see each other are published at once; of two that do
\* not, the later one fails.
LEMMA ReviewKept ==
  ASSUME Kept, NEW c \in Calls, CreateReview(c)
  PROVE  Kept'
<1>0. PICK w : w = call[c]
  OBVIOUS
<1> DEFINE b == w.booking
           other == Other(w.author)
<1>1. /\ w \in CallRecord /\ w.pc = "lock" /\ w.does = "review"
      /\ Finish(c) /\ UNCHANGED <<clock, completed, messages>>
      /\ \/ /\ Reviewable(w) /\ reviews' = After(w)
            /\ Written(reviews, b, other) => Written(w.seen, b, other)
         \/ reviews' = reviews
  BY <1>0 DEF Kept, CreateReview
<1>2. w \in ReviewRecord
  BY <1>1, Kinds
<1>3. /\ w.author \in Parties /\ b \in Bookings /\ w.now \in 0 .. MaxClock
      /\ w.completed \in 0 .. Never
  BY <1>2 DEF ReviewRecord
<1>4. /\ w.now <= clock
      /\ w.completed # Never => completed[b] = w.completed
      /\ \A r \in w.seen : Written(reviews, r.booking, r.author)
  BY <1>0, <1>2 DEF Kept, Reviewing
<1>5. TypeOK /\ reviews \subseteq Review /\ \A r \in reviews : Due(r)
  BY DEF Kept, TypeOK
<1>6. call' = [call EXCEPT ![c] = Idle]
  BY <1>1 DEF Finish, Goto
<1>7. /\ call' \in [Calls -> CallRecord] /\ call'[c] = Idle
      /\ \A d \in Calls \ {c} : call'[d] = call[d]
  BY <1>6 DEF Kept, CallRecord
<1>8. /\ \A l \in DOMAIN lock' : lock'[l] \in Calls
      /\ \A d \in Calls \ {c} : \A a : HoldsRate(d, a) => HoldsRate(d, a)'
  BY <1>1, <1>5, FinishLocks
<1>9. ASSUME Reviewable(w), reviews' = After(w),
             Written(reviews, b, other) => Written(w.seen, b, other)
      PROVE  /\ reviews' \subseteq Review
             /\ \A k, a : Written(reviews, k, a) => Written(reviews', k, a)
             /\ \A r \in reviews' : Due(r)'
  <2> DEFINE D == w.completed + ReviewWindow
             n == [booking |-> b, author |-> w.author, publishAt |-> D, hidden |-> FALSE]
             R == reviews \cup {n}
             pub(r) == IF r.booking = b /\ r.publishAt > w.now
                       THEN [r EXCEPT !.publishAt = w.now] ELSE r
  <2>1. w.completed # Never /\ ~Written(reviews, b, w.author)
    BY <1>9 DEF Reviewable
  <2>2. completed[b] = w.completed /\ Deadline(b) = D /\ D \in 0 .. MaxClock + ReviewWindow
    BY <1>3, <1>4, <2>1, DialogueAssumption DEF Deadline, Never
  <2>3. n \in Review /\ n.booking = b /\ n.author = w.author /\ n.publishAt = D
    BY <1>3, <2>2 DEF Review
  <2>4. other \in Parties /\ other # w.author /\ \A a \in Parties : a = w.author \/ a = other
    BY <1>3, Sides
  <2>5. \A r \in Review : r.booking \in Bookings /\ r.author \in Parties /\ r.publishAt \in Nat
    BY DialogueAssumption DEF Review
  <2> HIDE DEF n, D
  <2>6. R \subseteq Review
    BY <1>5, <2>3
  <2>7. \A k, a : Written(R, k, a) <=> Written(reviews, k, a) \/ (k = b /\ a = w.author)
    BY <2>3 DEF Written
  <2>8. CASE Written(w.seen, b, other)
    <3>1. Written(reviews, b, other)
      BY <1>4, <2>8 DEF Written
    <3>2. reviews' = {pub(r) : r \in R}
      BY <1>9, <2>8 DEF After, n, D
    <3>3. ASSUME NEW r \in R
          PROVE  /\ pub(r) \in Review /\ pub(r).booking = r.booking /\ pub(r).author = r.author
                 /\ r.booking = b => pub(r).publishAt <= w.now
                 /\ r.booking # b => pub(r) = r
      <4>1. r \in Review /\ w.now \in Nat /\ w.now \in 0 .. MaxClock + ReviewWindow
        BY <1>3, <2>6, DialogueAssumption
      <4>2. CASE r.booking = b /\ r.publishAt > w.now
        BY <4>1, <4>2 DEF Review
      <4>3. CASE ~(r.booking = b /\ r.publishAt > w.now)
        BY <2>5, <4>1, <4>3
      <4> QED BY <4>2, <4>3
    <3> HIDE DEF pub
    <3>4. \A k, a : Written(reviews', k, a) <=> Written(R, k, a)
      BY <3>2, <3>3 DEF Written
    <3>5. ASSUME NEW s \in reviews' PROVE Due(s)'
      <4>1. PICK r \in R : s = pub(r)
        BY <3>2
      <4>2. CASE r.booking = b
        <5>1. s.publishAt <= clock /\ s.booking = b /\ s.author \in Parties
          <6>1. s \in Review /\ s.publishAt <= w.now /\ s.booking = b
            BY <3>3, <4>1, <4>2
          <6> QED BY <1>3, <1>4, <1>5, <2>5, <6>1, Numbers
        <5>2. Written(R, b, w.author) /\ Written(R, b, other)
          BY <2>7, <3>1
        <5>3. Other(s.author) = w.author \/ Other(s.author) = other
          BY <1>3, <2>4, <5>1, Sides
        <5>4. Written(reviews', s.booking, Other(s.author))
          BY <3>4, <5>1, <5>2, <5>3
        <5>5. completed'[s.booking] # Never /\ s.publishAt <= clock'
          BY <1>1, <2>1, <2>2, <5>1
        <5> QED BY <5>4, <5>5 DEF Due
      <4>3. CASE r.booking # b
        <5>1. s = r /\ r \in reviews
          BY <2>3, <3>3, <4>1, <4>3
        <5>2. Written(reviews', s.booking, Other(s.author)) <=> Written(reviews, s.booking, Other(s.author))
          BY <2>7, <3>4, <4>3, <5>1
        <5>3. Due(s)
          BY <1>5, <5>1
        <5> QED BY <1>1, <5>2, <5>3 DEF Due, Deadline
      <4> QED BY <4>2, <4>3
    <3>6. reviews' \subseteq Review
      BY <3>2, <3>3
    <3>7. \A k, a : Written(reviews, k, a) => Written(reviews', k, a)
      BY <2>7, <3>4
    <3> QED BY <3>5, <3>6, <3>7
  <2>9. CASE ~Written(w.seen, b, other)
    <3>1. ~Written(reviews, b, other)
      BY <1>9, <2>9
    <3>2. reviews' = R
      BY <1>9, <2>9 DEF After, n, D
    <3>3. ASSUME NEW s \in reviews' PROVE Due(s)'
      <4>1. CASE s = n
        <5>1. ~Written(R, b, other)
          BY <2>4, <2>7, <3>1
        <5>2. ~Written(reviews', s.booking, Other(s.author))
          BY <2>3, <3>2, <4>1, <5>1
        <5>3. completed'[s.booking] # Never /\ s.publishAt = Deadline(s.booking)'
          BY <1>1, <2>1, <2>2, <2>3, <4>1 DEF Deadline
        <5> QED BY <5>2, <5>3 DEF Due
      <4>2. CASE s \in reviews
        <5>1. s.booking # b
          <6> SUFFICES ASSUME s.booking = b PROVE FALSE
            OBVIOUS
          <6>1. s.author = w.author \/ s.author = other
            BY <1>5, <2>4, <2>5, <4>2
          <6> QED BY <2>1, <3>1, <4>2, <6>1 DEF Written
        <5>2. Written(reviews', s.booking, Other(s.author)) <=> Written(reviews, s.booking, Other(s.author))
          BY <2>7, <3>2, <5>1
        <5>3. Due(s)
          BY <1>5, <4>2
        <5> QED BY <1>1, <5>2, <5>3 DEF Due, Deadline
      <4> QED BY <3>2, <4>1, <4>2
    <3> QED BY <2>6, <2>7, <3>2, <3>3
  <2> QED BY <2>8, <2>9
<1>10. /\ reviews' \subseteq Review
       /\ \A k, a : Written(reviews, k, a) => Written(reviews', k, a)
       /\ \A r \in reviews' : Due(r)'
  <2>1. CASE reviews' = reviews
    BY <1>1, <1>5, <2>1 DEF Due, Deadline
  <2> QED BY <1>1, <1>9, <2>1
<1>11. /\ clock' \in 0 .. MaxClock /\ clock <= clock' /\ completed' \in [Bookings -> 0 .. Never]
       /\ \A k \in Bookings : completed[k] # Never => completed'[k] = completed[k]
  BY <1>1, <1>5, Numbers DEF TypeOK
<1>12. \A d \in Calls :
         \/ call'[d] = Idle
         \/ call'[d] = call[d] /\ \A a : HoldsRate(d, a) => HoldsRate(d, a)'
  BY <1>7, <1>8
<1> QED BY <1>1, <1>7, <1>8, <1>10, <1>11, <1>12, ReviewsKept

\* Hiding a review leaves its author and its time; a completed booking stays so.
LEMMA WorldKept ==
  ASSUME Kept, (\E b \in Ending : Complete(b)) \/ (\E r \in reviews : HideReview(r)) \/ Tick
  PROVE  Kept'
<1>1. /\ TypeOK /\ reviews \subseteq Review /\ call \in [Calls -> CallRecord]
      /\ \A r \in reviews : Due(r)
      /\ clock \in 0 .. MaxClock /\ completed \in [Bookings -> 0 .. Never]
      /\ \A l \in DOMAIN lock : lock[l] \in Calls
      /\ MaxClock \in Nat
  BY DialogueAssumption DEF Kept, TypeOK
<1>2. \A d \in Calls : UNCHANGED <<call, lock>> =>
        call'[d] = call[d] /\ \A a : HoldsRate(d, a) => HoldsRate(d, a)'
  BY DEF HoldsRate
<1>3. ASSUME NEW b \in Ending, Complete(b) PROVE Kept'
  <2>1. /\ completed[b] = Never /\ completed' = [completed EXCEPT ![b] = clock]
        /\ UNCHANGED <<clock, messages, reviews, lock, call>>
    BY <1>3 DEF Complete
  <2>2. clock \in 0 .. Never
    BY <1>1, DialogueAssumption DEF Never
  <2>3. /\ completed' \in [Bookings -> 0 .. Never]
        /\ \A k \in Bookings : completed[k] # Never => completed'[k] = completed[k]
    BY <1>1, <2>1, <2>2
  <2>4. ASSUME NEW r \in reviews PROVE Due(r)'
    <3>1. r.booking \in Bookings /\ completed[r.booking] # Never
      BY <1>1 DEF Due, Review
    <3>2. completed'[r.booking] = completed[r.booking]
      BY <2>3, <3>1
    <3> QED BY <1>1, <2>1, <3>2 DEF Due, Deadline
  <2>5. clock <= clock'
    BY <1>1, <2>1
  <2> QED BY <1>1, <1>2, <2>1, <2>3, <2>4, <2>5, ReviewsKept
<1>4. ASSUME NEW r \in reviews, HideReview(r) PROVE Kept'
  <2> DEFINE h == [r EXCEPT !.hidden = TRUE]
  <2>1. reviews' = (reviews \ {r}) \cup {h} /\ UNCHANGED <<clock, completed, messages, lock, call>>
    BY <1>4 DEF HideReview
  <2>2. h \in Review /\ h.booking = r.booking /\ h.author = r.author /\ h.publishAt = r.publishAt
    BY <1>1 DEF Review
  <2> HIDE DEF h
  <2>3. reviews' \subseteq Review
    BY <1>1, <2>1, <2>2
  <2>4. \A b, a : Written(reviews', b, a) <=> Written(reviews, b, a)
    BY <2>1, <2>2 DEF Written
  <2>5. ASSUME NEW s \in reviews' PROVE Due(s)'
    <3>1. CASE s = h
      BY <1>1, <2>1, <2>2, <2>4, <3>1 DEF Due, Deadline
    <3>2. CASE s \in reviews
      BY <1>1, <2>1, <2>4, <3>2 DEF Due, Deadline
    <3> QED BY <2>1, <3>1, <3>2
  <2>6. clock <= clock'
    BY <1>1, <2>1
  <2> QED BY <1>1, <1>2, <2>1, <2>3, <2>4, <2>5, <2>6, ReviewsKept
<1>5. CASE Tick
  <2>1. /\ clock' = clock + 1 /\ clock < MaxClock
        /\ UNCHANGED <<completed, messages, reviews, lock, call>>
    BY <1>5 DEF Tick
  <2>2. clock' \in 0 .. MaxClock /\ clock <= clock'
    BY <1>1, <2>1
  <2>3. ASSUME NEW r \in reviews PROVE Due(r)'
    <3>1. r.publishAt \in Nat /\ Due(r)
      BY <1>1, DialogueAssumption DEF Review
    <3>2. r.publishAt <= clock => r.publishAt <= clock'
      BY <1>1, <2>1, <3>1
    <3> QED BY <2>1, <3>1, <3>2 DEF Due, Deadline
  <2> QED BY <1>1, <1>2, <2>1, <2>2, <2>3, ReviewsKept
<1> QED BY <1>3, <1>4, <1>5

-----------------------------------------------------------------------------
(***************************************************************************)
(* The theorems                                                            *)
(***************************************************************************)

\* Nobody has written anything at first.
LEMMA InitKept == Init => Kept
<1> SUFFICES ASSUME Init PROVE Kept
  OBVIOUS
<1>1. 0 \in 0 .. MaxClock /\ Never \in 0 .. Never /\ MaxPerBooking \in Nat /\ MaxPerActor \in Nat
  BY DialogueAssumption DEF Never
<1>2. TypeOK /\ call \in [Calls -> CallRecord]
  BY <1>1 DEF Init, TypeOK, CallRecord
<1>3. IsFiniteSet(messages) /\ Cardinality({}) = 0
  BY FS_EmptySet DEF Init
<1>4. \A c \in Calls : Sending(c) /\ Reviewing(c)
  BY KindsDiffer DEF Init, Sending, Reviewing
<1>5. RateHolds
  <2> SUFFICES ASSUME NEW a \in Parties, NEW t \in 0 .. MaxClock
               PROVE  LET window == {m \in messages : m.author = a /\ m.at \in t .. t + RateWindow}
                      IN /\ Cardinality(window) <= MaxPerActor
                         /\ \A b \in Bookings :
                              Cardinality({m \in window : m.booking = b}) <= MaxPerBooking
    BY DEF RateHolds
  <2> DEFINE window == {m \in messages : m.author = a /\ m.at \in t .. t + RateWindow}
  <2>1. window = {}
    BY DEF Init
  <2> HIDE DEF window
  <2>2. \A b \in Bookings : {m \in window : m.booking = b} = {}
    BY <2>1
  <2>3. /\ Cardinality(window) <= MaxPerActor
        /\ \A b \in Bookings : Cardinality({m \in window : m.booking = b}) <= MaxPerBooking
    BY <1>1, <1>3, <2>1, <2>2
  <2> QED BY <2>3 DEF window
<1> QED BY <1>2, <1>3, <1>4, <1>5 DEF Kept, Init

\* Every step keeps the invariant.
LEMMA StepKept == Kept /\ [Next]_vars => Kept'
<1> SUFFICES ASSUME Kept, [Next]_vars PROVE Kept'
  OBVIOUS
<1>1. CASE UNCHANGED vars
  <2>1. \A d \in Calls : call'[d] = call[d] /\ \A a : HoldsRate(d, a) => HoldsRate(d, a)'
    BY <1>1 DEF vars, HoldsRate
  <2>2. clock' \in 0 .. MaxClock /\ clock <= clock'
    BY <1>1, DialogueAssumption DEF vars, Kept, TypeOK
  <2>3. \A r \in reviews' : Due(r)'
    BY <1>1 DEF vars, Kept, Due, Deadline
  <2> QED BY <1>1, <2>1, <2>2, <2>3, ReviewsKept DEF vars, Kept, TypeOK
<1>2. CASE Next
  BY <1>2, BeginKept, LockKept, CheckKept, InsertKept, SnapshotKept, ReviewKept, WorldKept DEF Next
<1> QED BY <1>1, <1>2

\* The invariant behind rates and reviews holds in every reachable state.
THEOREM AlwaysKept == Spec => []Kept
BY InitKept, StepKept, PTL DEF Spec

\* Every variable keeps its type, whichever calls to the chat and the reviews overlap
\* (BookingMessageService.send, ReviewsService.create).
THEOREM TypeCorrect == Spec => []TypeOK
<1>1. Kept => TypeOK
  BY DEF Kept
<1> QED BY <1>1, AlwaysKept, PTL

\* No window of time holds more messages of an author than the limits allow, in a booking or
\* in all of them, although send counts by the time it began and inserts after it has waited
\* for locks: the lock of the author is held from the count to the insertion.
THEOREM RateAlwaysHolds == Spec => []RateHolds
<1>1. Kept => RateHolds
  BY DEF Kept
<1> QED BY <1>1, AlwaysKept, PTL

\* A review can be read by the other party, on the profile and in exports exactly if both have
\* reviewed or the deadline is over, however two creations overlap: their snapshots decide it,
\* not their locks (ReviewsService.create, SERIALIZABLE).
THEOREM ReviewsStayBlind == Spec => []BlindUntilBoth
<1>1. Kept => BlindUntilBoth
  <2> SUFFICES ASSUME Kept, NEW r \in reviews
               PROVE  LET open == \/ Written(reviews, r.booking, Other(r.author))
                                  \/ clock >= Deadline(r.booking)
                          target == Other(r.author)
                      IN /\ r \in ExportOf(target).reviews <=> open
                         /\ r \in ReviewsOf(target, r.booking) <=> open /\ ~r.hidden
                         /\ r \in PublicReviews(target) <=> open /\ ~r.hidden
                         /\ r \in ReviewsOf(r.author, r.booking)
    BY DEF BlindUntilBoth
  <2> DEFINE target == Other(r.author)
             open == Written(reviews, r.booking, target) \/ clock >= Deadline(r.booking)
  <2>1. r \in Review /\ Due(r) /\ clock \in Nat
    BY Numbers DEF Kept, TypeOK
  <2>2. r.author \in Parties /\ r.publishAt \in Nat /\ r.hidden \in BOOLEAN
    BY <2>1, DialogueAssumption DEF Review
  <2>3. target # r.author
    BY <2>2, Sides
  <2>4. r.publishAt <= clock <=> open
    <3>1. CASE Written(reviews, r.booking, target)
      BY <2>1, <3>1 DEF Due
    <3>2. CASE ~Written(reviews, r.booking, target)
      <4>1. r.publishAt = Deadline(r.booking)
        BY <2>1, <3>2 DEF Due
      <4> QED BY <2>1, <2>2, <3>2, <4>1
    <3> QED BY <3>1, <3>2
  <2> HIDE DEF target, open
  <2>5. r \in ExportOf(target).reviews <=> open
    BY <2>3, <2>4 DEF ExportOf
  <2>6. r \in ReviewsOf(target, r.booking) <=> open /\ ~r.hidden
    BY <2>3, <2>4 DEF ReviewsOf, Visible
  <2>7. r \in PublicReviews(target) <=> open /\ ~r.hidden
    BY <2>4 DEF PublicReviews, Visible, target
  <2>8. r \in ReviewsOf(r.author, r.booking)
    BY DEF ReviewsOf
  <2> QED BY <2>5, <2>6, <2>7, <2>8 DEF open, target
<1> QED BY <1>1, AlwaysKept, PTL

-----------------------------------------------------------------------------
(***************************************************************************)
(* Pages                                                                   *)
(***************************************************************************)

\* A set of numbers has a least one.
LEMMA LeastNumber ==
  ASSUME NEW S \in SUBSET Nat, S # {}
  PROVE  \E m \in S : \A k \in S : m <= k
<1> DEFINE R == {p \in Nat \X Nat : p[1] < p[2]}
<1>1. IsWellFoundedOn(R, Nat)
  BY NatLessThanWellFounded DEF OpToRel
<1>2. \E m \in S : \A k \in S : <<k, m>> \notin R
  <2> HIDE DEF R
  <2> QED BY <1>1, WFMin, Zenon
<1>3. \A k, m \in S : <<k, m>> \notin R => m <= k
  OBVIOUS
<1> QED BY <1>2, <1>3

\* A finite set has an element that no other comes before.
LEMMA FirstOfFinite ==
  ASSUME NEW S, IsFiniteSet(S), S # {}, NEW R,
         \A x \in S : <<x, x>> \notin R,
         \A x, y, z \in S : <<x, y>> \in R /\ <<y, z>> \in R => <<x, z>> \in R
  PROVE  \E m \in S : \A n \in S : <<n, m>> \notin R
<1> DEFINE Before(m) == {n \in S : <<n, m>> \in R}
           K == {Cardinality(Before(m)) : m \in S}
<1>1. \A m \in S : IsFiniteSet(Before(m)) /\ Cardinality(Before(m)) \in Nat
  BY FS_Subset, FS_CardinalityType
<1>2. K \in SUBSET Nat /\ K # {}
  <2> HIDE DEF Before
  <2>1. \A k \in K : k \in Nat
    BY <1>1
  <2> QED BY <2>1
<1>3. PICK m \in S : \A k \in K : Cardinality(Before(m)) <= k
  <2> HIDE DEF Before
  <2>1. PICK x \in K : \A k \in K : x <= k
    <3> HIDE DEF K
    <3> QED BY <1>2, LeastNumber
  <2> QED BY <2>1
<1>4. ASSUME NEW n \in S, <<n, m>> \in R PROVE FALSE
  <2>1. Before(n) \subseteq Before(m)
    BY <1>4
  <2>2. n \in Before(m) /\ n \notin Before(n)
    BY <1>4
  <2> HIDE DEF Before
  <2>3. Cardinality(Before(n)) <= Cardinality(Before(m)) /\ Before(n) # Before(m)
    BY <1>1, <2>1, <2>2, FS_Subset
  <2>4. Cardinality(Before(m)) <= Cardinality(Before(n))
    BY <1>3
  <2>5. Cardinality(Before(n)) \in Nat /\ Cardinality(Before(m)) \in Nat
    BY <1>1
  <2>6. Cardinality(Before(n)) = Cardinality(Before(m))
    BY <2>3, <2>4, <2>5
  <2> QED BY <1>1, <2>1, <2>3, <2>6, FS_Subset
<1> QED BY <1>4

\* The messages of a booking stand in one order, by time and then by id.
LEMMA NewerOrders ==
  ASSUME TypeOK
  PROVE  /\ \A m \in messages : ~Newer(m, m)
         /\ \A m, n, k \in messages : Newer(m, n) /\ Newer(n, k) => Newer(m, k)
         /\ \A m, n \in messages : m.booking = n.booking /\ m # n => Newer(m, n) \/ Newer(n, m)
<1>1. ASSUME NEW m \in messages
      PROVE  /\ m \in Message /\ m.at \in Nat /\ m.key \in Nat /\ Id(m) \in Nat
             /\ m.author = "borrower" \/ m.author = "lender"
  <2>1. m \in Message /\ m.at \in Nat
    BY Numbers
  <2>2. m.key \in Nat
    BY <2>1, DialogueAssumption DEF Message
  <2>3. m.author = "borrower" \/ m.author = "lender"
    BY <2>1 DEF Message, Parties
  <2> QED BY <2>1, <2>2, <2>3 DEF Id
<1>2. \A m, n \in messages : Id(m) = Id(n) => m.key = n.key /\ m.author = n.author
  BY <1>1 DEF Id
<1>3. \A m, n \in messages :
        m.booking = n.booking /\ m.author = n.author /\ m.key = n.key /\ m.at = n.at => m = n
  BY <1>1 DEF Message
<1>4. \A m, n \in messages : m.booking = n.booking /\ m # n => Newer(m, n) \/ Newer(n, m)
  <2> SUFFICES ASSUME NEW m \in messages, NEW n \in messages, m.booking = n.booking, m # n
               PROVE  Newer(m, n) \/ Newer(n, m)
    OBVIOUS
  <2>1. m.at # n.at \/ Id(m) # Id(n)
    BY <1>2, <1>3
  <2>2. m.at \in Nat /\ n.at \in Nat /\ Id(m) \in Nat /\ Id(n) \in Nat
    BY <1>1
  <2> QED BY <2>1, <2>2 DEF Newer
<1>5. \A m \in messages : ~Newer(m, m)
  BY <1>1 DEF Newer
<1>6. \A m, n, k \in messages : Newer(m, n) /\ Newer(n, k) => Newer(m, k)
  BY <1>1 DEF Newer
<1> QED BY <1>4, <1>5, <1>6

\* Among some messages of a booking there is a newest and an oldest.
LEMMA Ends ==
  ASSUME TypeOK, NEW S \in SUBSET messages, IsFiniteSet(S), S # {},
         \A m, n \in S : m.booking = n.booking
  PROVE  /\ \E m \in S : \A n \in S : ~Newer(n, m)
         /\ \E m \in S : \A n \in S \ {m} : Newer(n, m)
<1>1. \E m \in S : \A n \in S : ~Newer(n, m)
  <2> DEFINE R == {p \in S \X S : Newer(p[1], p[2])}
  <2>1. \A x, y \in S : <<x, y>> \in R <=> Newer(x, y)
    OBVIOUS
  <2> HIDE DEF R
  <2>2. /\ \A x \in S : <<x, x>> \notin R
        /\ \A x, y, z \in S : <<x, y>> \in R /\ <<y, z>> \in R => <<x, z>> \in R
    BY <2>1, NewerOrders
  <2>3. \E m \in S : \A n \in S : <<n, m>> \notin R
    BY <2>2, FirstOfFinite
  <2> QED BY <2>1, <2>3
<1>2. \E m \in S : \A n \in S : ~Newer(m, n)
  <2> DEFINE R == {p \in S \X S : Newer(p[2], p[1])}
  <2>1. \A x, y \in S : <<x, y>> \in R <=> Newer(y, x)
    OBVIOUS
  <2> HIDE DEF R
  <2>2. /\ \A x \in S : <<x, x>> \notin R
        /\ \A x, y, z \in S : <<x, y>> \in R /\ <<y, z>> \in R => <<x, z>> \in R
    BY <2>1, NewerOrders
  <2>3. \E m \in S : \A n \in S : <<n, m>> \notin R
    BY <2>2, FirstOfFinite
  <2> QED BY <2>1, <2>3
<1>3. \E m \in S : \A n \in S \ {m} : Newer(n, m)
  BY <1>2, NewerOrders
<1> QED BY <1>1, <1>3

\* A page and what lies beyond its cursor are what lay beyond the cursor before, and nothing
\* is on both.
LEMMA PagesFit ==
  ASSUME Kept, NEW b \in Bookings,
         NEW cursor \in SUBSET messages,
         \A m \in cursor : m.booking = b,
         \A m, n \in cursor : m = n
  PROVE  LET rows == {m \in messages : m.booking = b}
             page == MessagePage(b, cursor)
             left == IF page.next = {} THEN {} ELSE {m \in rows : Beyond(m, page.next)}
         IN /\ page.items \cap left = {}
            /\ page.items \cup left =
                 rows \ (cursor \cup {m \in rows : \E n \in cursor : Newer(m, n)})
<1> DEFINE rows == {m \in messages : m.booking = b}
           more == {m \in messages : m.booking = b /\ Beyond(m, cursor)}
           Above(m) == {n \in more : Newer(n, m)}
           items == {m \in more : Cardinality(Above(m)) < PageSize}
           next == IF items = more THEN {}
                   ELSE {m \in items : \A n \in items \ {m} : Newer(n, m)}
           left == IF next = {} THEN {} ELSE {m \in rows : Beyond(m, next)}
<1>1. MessagePage(b, cursor).items = items /\ MessagePage(b, cursor).next = next
  BY DEF MessagePage
<1>2. /\ TypeOK /\ IsFiniteSet(messages) /\ PageSize \in Nat \ {0}
      /\ \A m \in messages : ~Newer(m, m)
      /\ \A m, n, k \in messages : Newer(m, n) /\ Newer(n, k) => Newer(m, k)
      /\ \A m, n \in messages : m.booking = n.booking /\ m # n => Newer(m, n) \/ Newer(n, m)
  BY NewerOrders, DialogueAssumption DEF Kept
<1>3. more = rows \ (cursor \cup {m \in rows : \E n \in cursor : Newer(m, n)})
  BY <1>2 DEF Beyond
<1>4. IsFiniteSet(more) /\ IsFiniteSet(items) /\ more \subseteq rows /\ items \subseteq more
  <2>1. more \subseteq messages /\ items \subseteq messages /\ more \subseteq rows /\ items \subseteq more
    OBVIOUS
  <2> HIDE DEF more, items
  <2> QED BY <1>2, <2>1, FS_Subset
<1>5. \A m \in messages : IsFiniteSet(Above(m)) /\ Cardinality(Above(m)) \in Nat
  <2>1. \A m \in messages : Above(m) \subseteq more
    OBVIOUS
  <2> HIDE DEF Above, more
  <2> QED BY <1>4, <2>1, FS_Subset, FS_CardinalityType
<1>6. CASE items = more
  <2>1. left = {}
    BY <1>6
  <2> QED BY <1>1, <1>3, <1>6, <2>1
<1>7. CASE items # more
  <2>1. more # {} /\ more \subseteq messages /\ \A m, n \in more : m.booking = n.booking
    BY <1>4, <1>7
  <2>2. PICK top \in more : \A n \in more : ~Newer(n, top)
    <3> HIDE DEF more
    <3> QED BY <1>2, <1>4, <2>1, Ends
  <2>3. top \in items
    <3>1. Above(top) = {}
      BY <2>2
    <3> HIDE DEF Above
    <3>2. Cardinality(Above(top)) < PageSize
      BY <1>2, <3>1, FS_EmptySet
    <3> QED BY <2>2, <3>2
  <2>4. items # {} /\ items \subseteq messages /\ \A m, n \in items : m.booking = n.booking
    BY <2>1, <2>3
  <2>5. PICK last \in items : \A n \in items \ {last} : Newer(n, last)
    <3> HIDE DEF items
    <3> QED BY <1>2, <1>4, <2>4, Ends
  <2>6. next = {last}
    <3>1. last \in next
      BY <1>7, <2>5
    <3>2. ASSUME NEW m \in next PROVE m = last
      <4> SUFFICES ASSUME m # last PROVE FALSE
        OBVIOUS
      <4>1. Newer(last, m) /\ Newer(m, last) /\ m \in messages /\ last \in messages
        BY <1>7, <2>4, <2>5
      <4> QED BY <1>2, <4>1
    <3> QED BY <3>1, <3>2
  <2>7. left = {m \in rows : Newer(last, m)}
    <3> HIDE DEF next, rows
    <3> QED BY <2>6 DEF Beyond
  <2>8. last \in more /\ last \in messages /\ last.booking = b
    BY <2>4, <2>5
  <2>9. \A m \in items : m \notin left
    <3> SUFFICES ASSUME NEW m \in items, Newer(last, m) PROVE FALSE
      BY <2>7
    <3>1. m \in messages
      BY <2>4
    <3>2. m # last
      BY <1>2, <3>1
    <3>3. Newer(m, last)
      BY <2>5, <3>2
    <3> QED BY <1>2, <2>8, <3>1, <3>3
  <2>10. \A m \in left : m \in more
    <3> SUFFICES ASSUME NEW m \in rows, Newer(last, m) PROVE m \in more
      BY <2>7
    <3>1. \A n \in cursor : Newer(n, last)
      BY <2>8 DEF Beyond
    <3>2. \A n \in cursor : Newer(n, m)
      BY <1>2, <2>8, <3>1
    <3> QED BY <3>2 DEF Beyond
  <2>11. \A m \in more : m \in items \/ m \in left
    <3> SUFFICES ASSUME NEW m \in more, ~Newer(last, m) PROVE m \in items
      BY <1>4, <2>7
    <3>1. m = last \/ Newer(m, last)
      BY <1>2, <2>8
    <3>2. Above(m) \subseteq Above(last)
      BY <1>2, <2>8, <3>1
    <3>3. Cardinality(Above(last)) < PageSize
      BY <2>5
    <3>4. m \in messages
      BY <2>1
    <3> HIDE DEF Above, more
    <3>5. Cardinality(Above(m)) <= Cardinality(Above(last))
      BY <1>5, <2>8, <3>2, FS_Subset
    <3>6. Cardinality(Above(m)) < PageSize
      BY <1>2, <1>5, <2>8, <3>3, <3>4, <3>5
    <3> QED BY <3>6
  <2> HIDE DEF items, more, next, rows, left
  <2>12. items \cap left = {} /\ items \cup left = more
    BY <1>4, <2>9, <2>10, <2>11
  <2>13. left = IF MessagePage(b, cursor).next = {} THEN {}
                ELSE {m \in rows : Beyond(m, MessagePage(b, cursor).next)}
    BY <1>1 DEF left
  <2> QED BY <1>1, <1>3, <2>12, <2>13 DEF rows
<1> QED BY <1>6, <1>7

\* Who follows the cursors of a booking's messages gets each of them once, for every size of a
\* page and however many were created at one time (BookingMessageService.list).
THEOREM PagesAlwaysFit == Spec => []PagesLoseNothing
<1>1. Kept => PagesLoseNothing
  <2> SUFFICES ASSUME Kept, NEW b \in Bookings,
                      NEW cursor \in {{}} \cup {{m} : m \in {n \in messages : n.booking = b}}
               PROVE  LET rows == {m \in messages : m.booking = b}
                          page == MessagePage(b, cursor)
                          left == IF page.next = {} THEN {} ELSE {m \in rows : Beyond(m, page.next)}
                      IN /\ page.items \cap left = {}
                         /\ page.items \cup left =
                              rows \ (cursor \cup {m \in rows : \E n \in cursor : Newer(m, n)})
    BY DEF PagesLoseNothing, ExportOf
  <2>1. /\ cursor \in SUBSET messages
        /\ \A m \in cursor : m.booking = b
        /\ \A m, n \in cursor : m = n
    OBVIOUS
  <2> QED BY <2>1, PagesFit
<1> QED BY <1>1, AlwaysKept, PTL

=============================================================================
