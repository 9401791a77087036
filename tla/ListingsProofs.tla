--------------------------- MODULE ListingsProofs ---------------------------
(***************************************************************************)
(* Theorems about a listing and its photos.                                *)
(*                                                                         *)
(* PhotoUpload: for any number of uploads, overlapping requests, failures  *)
(* and time.  Listings: for any offers, stays, bookings, reports, searches *)
(* and places, and any number of overlapping calls and restarts.           *)
(***************************************************************************)
EXTENDS PhotoUpload, Listings, TLAPS

-----------------------------------------------------------------------------
(***************************************************************************)
(* Photos.                                                                 *)
(***************************************************************************)

\* What the fields of the state hold.
CleanerFields == {"pc", "now", "old", "rows", "todo", "at", "rejected"}
RequestPcs ==
  {"idle", "consume", "commit", "queue", "avatar", "use", "tidy", "sanitize", "attach"}
RequestRecord == [pc : RequestPcs, intent : Intents \cup {NoIntent}, since : Instants]
JobPcs == {"waiting", "source", "decode", "put", "update", "delete"}
JobRecord == [pc : JobPcs, attempts : 0 .. Attempts - 1, stalled : BOOLEAN]
IntentRecord == [expiresAt : 0 .. MaxClock + Expires, confirmedAt : Instants \cup {Never}]

\* No request is going to confirm the intent: it has been confirmed, or is gone.
Used(i) == i \in DOMAIN intents => intents[i].confirmedAt # Never

\* What a request that has begun relies on.  The transaction that has consumed the intent of
\* a photo still has its object, and has begun before the intent expired.
Fits(w) ==
  LET i == w.intent
  IN  /\ w.pc # "idle" => i \in requested /\ w.since <= now /\ now <= w.since + 1
      /\ w.pc \in {"consume", "commit", "queue"} => i \in ItemPhotos
      /\ w.pc \in {"avatar", "use", "tidy"} => i \in Avatars
      /\ w.pc \in {"sanitize", "attach"} => i \in Evidence
      /\ w.pc = "consume" /\ Usable(i) => i \in DOMAIN objects
      /\ w.pc = "attach" /\ i \in DisputeEvidence /\ Usable(i) => i \in DOMAIN objects
      /\ w.pc = "commit" => /\ i \in DOMAIN intents /\ i \in DOMAIN objects
                            /\ intents[i].confirmedAt = Never /\ w.since < intents[i].expiresAt
      /\ w.pc = "queue" => Used(i)
      /\ w.pc \in {"use", "tidy"} => i \in public

RequestFits(r) == Fits(request[r])

\* The lock on the intent's row is held by one transaction.
OneCommits ==
  \A r \in Requests, q \in Requests :
    /\ request[r].pc = "commit" /\ request[q].pc = "commit"
    /\ request[r].intent = request[q].intent
    => r = q

\* A job works on a photo that was confirmed, and deletes the source of none that lacks its
\* variants.
JobFits(i) ==
  /\ i \in requested /\ Used(i)
  /\ jobs[i].pc \in {"update", "delete"} => i \in public
  /\ jobs[i].pc = "delete" /\ i \in DOMAIN photos => photos[i] = "published"

\* A photo was confirmed; it has its source until it is published or too old.
PhotoFits(i) ==
  /\ i \in requested /\ Used(i)
  /\ photos[i] = "published" => i \in public
  /\ photos[i] = "bare" /\ i \in DOMAIN intents /\ now < intents[i].confirmedAt + Retention
     => i \in DOMAIN objects

\* Evidence of a dispute keeps object and intent.
EvidenceFits(i) ==
  i \in DOMAIN objects /\ i \in DOMAIN intents /\ intents[i].confirmedAt # Never

\* Nobody needs the object of the intent any more: it has expired unused, its photo has been
\* published or removed, or is due for rejection.
Passed(i) ==
  i \in DOMAIN intents =>
    \/ intents[i].confirmedAt = Never /\ intents[i].expiresAt + Grace <= now
    \/ /\ intents[i].confirmedAt # Never
       /\ i \notin DisputeEvidence /\ i \notin DOMAIN photos
    \/ i \in DOMAIN photos /\ photos[i] = "published"
    \/ /\ i \in ItemPhotos /\ intents[i].confirmedAt # Never
       /\ intents[i].confirmedAt + Retention <= now

\* A row the cleanup has read is stale in one way only: the intent may have been confirmed
\* since, but not if it had expired by then.
RowFits(i) ==
  i \in DOMAIN intents =>
    /\ cleaner.rows[i].expiresAt = intents[i].expiresAt
    /\ cleaner.rows[i].confirmedAt \in {Never, intents[i].confirmedAt}
    /\ cleaner.rows[i].confirmedAt = Never /\ intents[i].expiresAt + Grace <= cleaner.now
       => intents[i].confirmedAt = Never

\* What the clean-up has read and what it is about to remove.
CleanerFits ==
  /\ DOMAIN cleaner = CleanerFields
  /\ cleaner.now \in Nat /\ cleaner.now <= now /\ cleaner.old \subseteq requested
  /\ cleaner.pc \notin {"idle", "intents"} =>
       /\ DOMAIN cleaner.rows \subseteq requested /\ cleaner.todo \subseteq DOMAIN cleaner.rows
       /\ \A i \in DOMAIN cleaner.rows : RowFits(i)
       /\ \A i \in cleaner.old \ DOMAIN cleaner.rows :
            i \in ItemPhotos \cup DisputeEvidence => i \notin DOMAIN intents
  /\ cleaner.pc \in {"object", "photo", "intent"} =>
       cleaner.at \in requested /\ Passed(cleaner.at)

\* The inductive invariant of PhotoUpload.
Kept ==
  /\ TypeOK
  /\ \A r \in Requests : RequestFits(r)
  /\ OneCommits
  /\ \A i \in DOMAIN jobs : JobFits(i)
  /\ \A i \in DOMAIN photos : PhotoFits(i)
  /\ \A i \in evidence \cap DisputeEvidence : EvidenceFits(i)
  /\ avatar # NoIntent => avatar \in public
  /\ CleanerFits

-----------------------------------------------------------------------------
\* The sorts of files are apart, and the instants are numbers.
LEMMA Sorts ==
  /\ ItemPhotos \subseteq Intents /\ Avatars \subseteq Intents /\ Evidence \subseteq Intents
  /\ DisputeEvidence \subseteq Evidence
  /\ ItemPhotos \cap Avatars = {} /\ ItemPhotos \cap DisputeEvidence = {}
  /\ Avatars \cap DisputeEvidence = {} /\ NoIntent \notin Intents
  /\ Grace \in Nat /\ Grace >= 1 /\ Retention \in Nat /\ Expires \in Nat /\ MaxClock \in Nat
  /\ Instants \subseteq Nat /\ Never \notin Nat /\ Never \in Int
BY UploadAssumption DEF Intents, Evidence, Instants, Never

\* What With and Without do to a function.
LEMMA Updates ==
  /\ \A f, i, v : /\ DOMAIN With(f, i, v) = DOMAIN f \cup {i}
                  /\ With(f, i, v)[i] = v
                  /\ \A j \in DOMAIN f : j # i => With(f, i, v)[j] = f[j]
  /\ \A f, i : /\ DOMAIN Without(f, i) = DOMAIN f \ {i}
               /\ \A j \in DOMAIN f : j # i => Without(f, i)[j] = f[j]
  /\ \A f, S : DOMAIN Restrict(f, S) = S /\ \A j \in S : Restrict(f, S)[j] = f[j]
BY DEF With, Without, Restrict

\* What the types say of one element.
LEMMA Elements ==
  ASSUME TypeOK
  PROVE  /\ now \in Nat /\ now \in Instants /\ requested \subseteq Intents
         /\ DOMAIN intents \subseteq requested /\ DOMAIN objects \subseteq requested
         /\ \A i \in DOMAIN intents :
              /\ intents[i] \in IntentRecord
              /\ intents[i].expiresAt \in Nat /\ intents[i].confirmedAt \in Nat \cup {Never}
         /\ \A r \in Requests :
              /\ request[r] \in RequestRecord /\ request[r].since \in Nat
              /\ request[r].pc \in RequestPcs
         /\ \A i \in DOMAIN jobs : i \in ItemPhotos /\ jobs[i] \in JobRecord
         /\ \A i \in DOMAIN photos : i \in ItemPhotos /\ photos[i] \in {"bare", "published"}
<1>1. \A i \in DOMAIN intents : intents[i] \in IntentRecord
  BY DEF TypeOK, IntentRecord
<1>2. \A i \in DOMAIN intents :
        intents[i].expiresAt \in Nat /\ intents[i].confirmedAt \in Nat \cup {Never}
  <2>1. 0 .. MaxClock + Expires \subseteq Nat
    OBVIOUS
  <2> QED
    BY <1>1, <2>1, Sorts DEF IntentRecord
<1>3. \A r \in Requests : request[r] \in RequestRecord
  BY DEF TypeOK, RequestRecord, RequestPcs
<1>4. \A r \in Requests : request[r].since \in Nat /\ request[r].pc \in RequestPcs
  BY <1>3, Sorts DEF RequestRecord
<1>5. \A i \in DOMAIN jobs : i \in ItemPhotos /\ jobs[i] \in JobRecord
  BY DEF TypeOK, JobRecord, JobPcs
<1> QED
  BY <1>1, <1>2, <1>3, <1>4, <1>5, Sorts DEF TypeOK

\* Nothing has been uploaded at the start.
LEMMA InitKept == Init => Kept
<1> SUFFICES ASSUME Init PROVE Kept
  OBVIOUS
<1>1. /\ DOMAIN intents = {} /\ DOMAIN objects = {} /\ DOMAIN photos = {} /\ DOMAIN jobs = {}
  BY DEF Init
<1>2. NoRequest \in RequestRecord
  BY Sorts DEF NoRequest, RequestRecord, RequestPcs, Instants
<1>3. TypeOK
  BY <1>1, <1>2, Sorts, UploadAssumption
  DEF Init, TypeOK, NoCleanup, RequestRecord, RequestPcs, Instants
<1>4. \A r \in Requests : RequestFits(r)
  BY DEF Init, RequestFits, Fits, NoRequest
<1>5. OneCommits
  BY DEF Init, OneCommits, NoRequest
<1>6. CleanerFits
  BY DEF Init, CleanerFits, NoCleanup, CleanerFields
<1> QED
  BY <1>1, <1>3, <1>4, <1>5, <1>6 DEF Init, Kept

\* An intent a request may still confirm has not passed.
LEMMA NotPassed ==
  ASSUME Kept, NEW i \in DOMAIN intents, intents[i].confirmedAt = Never
  PROVE  /\ Passed(i) => intents[i].expiresAt + Grace <= now
         /\ i \notin DOMAIN photos /\ i \notin DOMAIN jobs
         /\ Usable(i) => ~Passed(i)
         /\ \A r \in Requests :
              request[r].pc = "commit" /\ request[r].intent = i =>
                /\ now <= intents[i].expiresAt /\ ~Passed(i)
<1>1. /\ now \in Nat /\ Grace \in Nat /\ Grace >= 1 /\ intents[i].expiresAt \in Nat
  BY Elements, Sorts DEF Kept
<1>2. i \notin DOMAIN photos /\ i \notin DOMAIN jobs
  BY DEF Kept, PhotoFits, JobFits, Used
<1>3. Passed(i) => intents[i].expiresAt + Grace <= now
  BY <1>2 DEF Passed
<1>4. Usable(i) => ~Passed(i)
  BY <1>1, <1>3 DEF Usable
<1>5. ASSUME NEW r \in Requests, request[r].pc = "commit", request[r].intent = i
      PROVE  now <= intents[i].expiresAt /\ ~Passed(i)
  <2>1. request[r].since < intents[i].expiresAt /\ now <= request[r].since + 1
    BY <1>5 DEF Kept, RequestFits, Fits
  <2>2. request[r].since \in Nat
    BY Elements DEF Kept
  <2> QED
    BY <1>1, <1>3, <2>1, <2>2
<1> QED
  BY <1>2, <1>3, <1>4, <1>5

-----------------------------------------------------------------------------
(***************************************************************************)
(* What the handlers have in common.                                       *)
(***************************************************************************)

\* Objects that nobody needs are removed.
LEMMA RemovalKeeps ==
  ASSUME Kept, NEW S,
         \A i \in S : i \in ItemPhotos \cup DisputeEvidence => Passed(i),
         DOMAIN objects' = DOMAIN objects \ S,
         \A i \in DOMAIN objects' : objects'[i] = objects[i],
         UNCHANGED <<now, requested, intents, public, evidence>>
  PROVE  /\ \A i \in DOMAIN objects' : objects'[i] \in Instants
         /\ DOMAIN objects' \subseteq requested'
         /\ \A r \in Requests : UNCHANGED request[r] => RequestFits(r)'
         /\ \A i \in DOMAIN photos : UNCHANGED photos[i] => PhotoFits(i)'
         /\ \A i \in evidence' \cap DisputeEvidence : EvidenceFits(i)'
<1>1. \A i \in DOMAIN objects' : objects'[i] \in Instants
  BY DEF Kept, TypeOK
<1>2. DOMAIN objects' \subseteq requested'
  BY Elements DEF Kept
<1>3. ASSUME NEW r \in Requests, UNCHANGED request[r] PROVE RequestFits(r)'
  <2>1. RequestFits(r)
    BY DEF Kept
  <2>2. CASE request[r].intent \notin S
    BY <1>3, <2>1, <2>2 DEF RequestFits, Fits, Usable, Used
  <2>3. CASE request[r].intent \in S
    <3>1. request[r].intent \in ItemPhotos \cup DisputeEvidence => Passed(request[r].intent)
      BY <2>3
    <3>2. request[r].pc # "commit"
      BY <2>1, <3>1, NotPassed DEF RequestFits, Fits
    <3>3. /\ request[r].pc = "consume" => ~Usable(request[r].intent)
          /\ request[r].pc = "attach" /\ request[r].intent \in DisputeEvidence
             => ~Usable(request[r].intent)
      BY <2>1, <3>1, NotPassed DEF RequestFits, Fits, Usable
    <3> QED
      BY <1>3, <2>1, <3>2, <3>3 DEF RequestFits, Fits, Usable, Used
  <2> QED
    BY <2>2, <2>3
<1>4. ASSUME NEW i \in DOMAIN photos, UNCHANGED photos[i] PROVE PhotoFits(i)'
  <2>1. PhotoFits(i) /\ i \in ItemPhotos
    BY Elements DEF Kept
  <2>2. CASE i \notin S
    BY <1>4, <2>1, <2>2 DEF PhotoFits, Used
  <2>3. CASE i \in S
    <3>1. Passed(i)
      BY <2>1, <2>3
    <3>2. i \in DOMAIN intents =>
            photos[i] = "published" \/ intents[i].confirmedAt + Retention <= now
      BY <2>1, <3>1 DEF Passed, PhotoFits, Used
    <3>3. i \in DOMAIN intents =>
            intents[i].confirmedAt \in Nat /\ now \in Nat /\ Retention \in Nat
      BY <2>1, Elements, Sorts DEF Kept, PhotoFits, Used
    <3> QED
      BY <1>4, <2>1, <3>2, <3>3 DEF PhotoFits, Used
  <2> QED
    BY <2>2, <2>3
<1>5. ASSUME NEW i \in evidence' \cap DisputeEvidence PROVE EvidenceFits(i)'
  <2>1. EvidenceFits(i)
    BY DEF Kept
  <2>2. i \notin S
    <3>1. i \notin ItemPhotos /\ i \notin DOMAIN photos
      BY Elements, Sorts DEF Kept
    <3> QED
      BY <2>1, <3>1 DEF EvidenceFits, Passed
  <2> QED
    BY <2>1, <2>2 DEF EvidenceFits
<1> QED
  BY <1>1, <1>2, <1>3, <1>4, <1>5

\* An intent is confirmed in time, and what the cleanup has decided stays right.
LEMMA ConfirmationKeeps ==
  ASSUME Kept, NEW j \in DOMAIN intents, intents[j].confirmedAt = Never, now <= intents[j].expiresAt,
         ~Passed(j),
         intents' = [intents EXCEPT ![j].confirmedAt = now],
         \A i \in DOMAIN intents : i # j => (i \in DOMAIN photos' <=> i \in DOMAIN photos),
         \A i \in DOMAIN photos : i # j => photos'[i] = photos[i],
         UNCHANGED <<now, requested, cleaner>>
  PROVE  /\ DOMAIN intents' = DOMAIN intents
         /\ \A i \in DOMAIN intents : i # j => intents'[i] = intents[i]
         /\ intents'[j].confirmedAt = now /\ now # Never
         /\ intents'[j].expiresAt = intents[j].expiresAt
         /\ \A i \in DOMAIN intents' : intents'[i] \in IntentRecord
         /\ CleanerFits'
<1>1. /\ now \in Nat /\ now \in Instants /\ now # Never /\ intents[j] \in IntentRecord
      /\ Grace \in Nat /\ Grace >= 1 /\ intents[j].expiresAt \in Nat
  BY Elements, Sorts DEF Kept
<1>2. /\ DOMAIN intents' = DOMAIN intents
      /\ \A i \in DOMAIN intents : i # j => intents'[i] = intents[i]
      /\ intents'[j] = [intents[j] EXCEPT !.confirmedAt = now]
  OBVIOUS
<1>3. /\ intents'[j].confirmedAt = now /\ intents'[j].expiresAt = intents[j].expiresAt
      /\ intents'[j] \in IntentRecord
  BY <1>1, <1>2 DEF IntentRecord
<1>4. \A i \in DOMAIN intents' : intents'[i] \in IntentRecord
  BY <1>2, <1>3, Elements DEF Kept
<1>5. CleanerFits
  BY DEF Kept
<1>6. cleaner.now \in Nat /\ cleaner.now <= now
  BY <1>5 DEF CleanerFits
<1>7. ASSUME NEW i, RowFits(i) PROVE RowFits(i)'
  <2>1. CASE i # j
    BY <1>2, <1>7, <2>1 DEF RowFits
  <2>2. CASE i = j
    <3>1. ~(intents[j].expiresAt + Grace <= cleaner.now)
      BY <1>1, <1>6
    <3> QED
      BY <1>2, <1>3, <1>7, <2>2, <3>1 DEF RowFits
  <2> QED
    BY <2>1, <2>2
<1>8. ASSUME NEW i, Passed(i) PROVE Passed(i)'
  BY <1>2, <1>8 DEF Passed
<1>9. CleanerFits'
  <2>1. ASSUME cleaner.pc \notin {"idle", "intents"}, NEW i \in DOMAIN cleaner.rows
        PROVE  RowFits(i)'
    BY <1>5, <1>7, <2>1 DEF CleanerFits
  <2>2. cleaner.pc \in {"object", "photo", "intent"} => Passed(cleaner.at)'
    BY <1>5, <1>8 DEF CleanerFits
  <2> QED
    BY <1>2, <1>5, <2>1, <2>2 DEF CleanerFits
<1> QED
  BY <1>1, <1>2, <1>3, <1>4, <1>9

\* The cleanup goes on with what it has read while intents and photos stay.
LEMMA CleanerStays ==
  ASSUME Kept, UNCHANGED <<now, requested, intents, photos, cleaner>>
  PROVE  CleanerFits'
<1>1. \A i : (RowFits(i) => RowFits(i)') /\ (Passed(i) => Passed(i)')
  BY DEF RowFits, Passed
<1> QED
  BY <1>1 DEF Kept, CleanerFits

\* A request goes on, and its transaction takes no row that another one has locked.
LEMMA RequestMoves ==
  ASSUME Kept, NEW r \in Requests, NEW w \in RequestRecord, request' = [request EXCEPT ![r] = w],
         w.pc = "commit" => ~Locked(w.intent)
  PROVE  /\ request' \in [Requests -> RequestRecord]
         /\ OneCommits'
         /\ request'[r] = w
         /\ \A q \in Requests \ {r} : UNCHANGED request[q]
<1>1. request \in [Requests -> RequestRecord]
  BY DEF Kept, TypeOK, RequestRecord, RequestPcs
<1>2. /\ request' \in [Requests -> RequestRecord] /\ request'[r] = w
      /\ \A q \in Requests \ {r} : UNCHANGED request[q]
  BY <1>1
<1>3. OneCommits'
  BY <1>2 DEF Kept, OneCommits, Locked
<1> QED
  BY <1>2, <1>3

\* A step of a request that changes nothing but where it stands.
LEMMA RequestKeeps ==
  ASSUME Kept, NEW r \in Requests, NEW w \in RequestRecord, request' = [request EXCEPT ![r] = w],
         Fits(w), w.pc = "commit" => ~Locked(w.intent),
         faults' \in 0 .. MaxFaults,
         UNCHANGED <<now, requested, intents, objects, photos, public, avatar, evidence, jobs, cleaner>>
  PROVE  Kept'
<1>1. /\ request' \in [Requests -> RequestRecord] /\ OneCommits' /\ request'[r] = w
      /\ \A q \in Requests \ {r} : UNCHANGED request[q]
  BY RequestMoves
<1>2. TypeOK'
  BY <1>1 DEF Kept, TypeOK, RequestRecord, RequestPcs
<1>3. ASSUME NEW q \in Requests PROVE RequestFits(q)'
  <2>1. CASE q = r
    BY <1>1, <2>1 DEF RequestFits, Fits, Usable, Used
  <2>2. CASE q # r
    BY <1>1, <2>2 DEF Kept, RequestFits, Fits, Usable, Used
  <2> QED
    BY <2>1, <2>2
<1>4. \A i \in DOMAIN jobs' : JobFits(i)'
  BY DEF Kept, JobFits, Used
<1>5. \A i \in DOMAIN photos' : PhotoFits(i)'
  BY DEF Kept, PhotoFits, Used
<1>6. \A i \in evidence' \cap DisputeEvidence : EvidenceFits(i)'
  BY DEF Kept, EvidenceFits
<1>7. CleanerFits'
  BY CleanerStays
<1> QED
  BY <1>1, <1>2, <1>3, <1>4, <1>5, <1>6, <1>7 DEF Kept

\* An idle request.
LEMMA IdleFits == NoRequest \in RequestRecord /\ Fits(NoRequest) /\ NoRequest.pc = "idle"
<1>1. 0 \in Instants
  BY UploadAssumption DEF Instants
<1> QED
  BY <1>1 DEF NoRequest, RequestRecord, RequestPcs, Fits

\* A request that goes on keeps its intent and the time it began.
LEMMA GotoFits ==
  ASSUME Kept, NEW r \in Requests, NEW pc \in RequestPcs
  PROVE  /\ [request[r] EXCEPT !.pc = pc] \in RequestRecord
         /\ [request[r] EXCEPT !.pc = pc].pc = pc
         /\ [request[r] EXCEPT !.pc = pc].intent = request[r].intent
         /\ [request[r] EXCEPT !.pc = pc].since = request[r].since
         /\ Goto(r, pc) => request' = [request EXCEPT ![r] = [request[r] EXCEPT !.pc = pc]]
<1>1. request[r] \in RequestRecord
  BY Elements DEF Kept
<1>2. request \in [Requests -> RequestRecord]
  BY DEF Kept, TypeOK, RequestRecord, RequestPcs
<1> QED
  BY <1>1, <1>2 DEF RequestRecord, Goto

\* Requests begin, are refused and fail, and transactions lock the row they consume.
LEMMA RequestsGoOn ==
  ASSUME Kept, NEW r \in Requests,
         BeginPhoto(r) \/ BeginAvatar(r) \/ BeginEvidence(r) \/ RequestFails(r) \/ Refused(r)
           \/ ConsumePhoto(r)
  PROVE  Kept'
<1>0. faults \in 0 .. MaxFaults /\ now \in Nat /\ now \in Instants
  BY Elements DEF Kept, TypeOK
<1>1. ASSUME NEW i \in Intents, NEW pc \in {"consume", "avatar", "sanitize"}, Begin(r, i, pc),
             pc = "consume" => i \in ItemPhotos, pc = "avatar" => i \in Avatars,
             pc = "sanitize" => i \in Evidence
      PROVE  Kept'
  <2> DEFINE w == [pc |-> pc, intent |-> i, since |-> now]
  <2>1. PICK v : v = w
    OBVIOUS
  <2>2. v \in RequestRecord /\ v.pc = pc /\ v.intent = i /\ v.since = now
    BY <1>0, <2>1 DEF RequestRecord, RequestPcs
  <2>3. i \in DOMAIN intents /\ i \in DOMAIN objects /\ i \in requested
    BY <1>1, Elements DEF Begin, Usable, Kept
  <2>4. Fits(v)
    BY <1>0, <1>1, <2>2, <2>3 DEF Fits
  <2>5. request' = [request EXCEPT ![r] = v]
    BY <1>1, <2>1 DEF Begin
  <2> HIDE DEF w
  <2> QED
    BY <1>0, <1>1, <2>2, <2>4, <2>5, RequestKeeps DEF Begin
<1>2. CASE BeginPhoto(r) \/ BeginAvatar(r) \/ BeginEvidence(r)
  BY <1>1, <1>2, Sorts DEF BeginPhoto, BeginAvatar, BeginEvidence
<1>3. ASSUME End(r), faults' \in 0 .. MaxFaults,
             UNCHANGED <<now, requested, intents, objects, photos, public, avatar, evidence, jobs,
                         cleaner>>
      PROVE  Kept'
  BY <1>3, IdleFits, RequestKeeps DEF End
<1>4. CASE RequestFails(r)
  <2>1. faults' \in 0 .. MaxFaults
    BY <1>0, <1>4, UploadAssumption DEF RequestFails, Fault
  <2> QED
    BY <1>3, <1>4, <2>1 DEF RequestFails
<1>5. CASE Refused(r)
  BY <1>0, <1>3, <1>5 DEF Refused
<1>6. CASE ConsumePhoto(r)
  <2>1. CASE End(r)
    BY <1>0, <1>3, <1>6, <2>1 DEF ConsumePhoto
  <2>2. CASE Goto(r, "commit")
    <3>1. PICK v : v = [request[r] EXCEPT !.pc = "commit"]
      OBVIOUS
    <3>2. /\ v \in RequestRecord /\ v.pc = "commit" /\ v.intent = request[r].intent
          /\ v.since = request[r].since /\ request' = [request EXCEPT ![r] = v]
      BY <2>2, <3>1, GotoFits DEF RequestPcs
    <3>3. /\ RequestFits(r) /\ request[r].pc = "consume" /\ Usable(request[r].intent)
          /\ ~Locked(v.intent)
      BY <1>6, <3>2 DEF Kept, ConsumePhoto
    <3>4. /\ request[r].since \in Nat
          /\ request[r].intent \in DOMAIN intents
          /\ intents[request[r].intent].expiresAt \in Nat
      BY <3>3, Elements DEF Kept, Usable
    <3>5. Fits(v)
      BY <1>0, <3>2, <3>3, <3>4 DEF RequestFits, Fits, Usable
    <3> QED
      BY <1>0, <1>6, <3>2, <3>3, <3>5, RequestKeeps DEF ConsumePhoto
  <2> QED
    BY <1>6, <2>1, <2>2 DEF ConsumePhoto
<1> QED
  BY <1>2, <1>4, <1>5, <1>6

-----------------------------------------------------------------------------
(***************************************************************************)
(* Confirmations.                                                          *)
(***************************************************************************)

\* The confirmation of an intent, with or without a photo.
Confirms(j) ==
  /\ intents' = [intents EXCEPT ![j].confirmedAt = now]
  /\ photos' = photos \/ (j \in ItemPhotos /\ j \in DOMAIN objects /\ photos' = With(photos, j, "bare"))
  /\ UNCHANGED <<now, requested, objects, public, jobs, cleaner, faults>>

\* It disturbs no other request, no job, no photo and no evidence.
LEMMA ConfirmationFits ==
  ASSUME Kept, NEW j \in DOMAIN intents, intents[j].confirmedAt = Never, now <= intents[j].expiresAt,
         ~Passed(j), Confirms(j)
  PROVE  /\ DOMAIN intents' = DOMAIN intents
         /\ \A i \in DOMAIN intents' : intents'[i] \in IntentRecord
         /\ Used(j)'
         /\ \A w \in RequestRecord : Fits(w) /\ (w.pc = "commit" => w.intent # j) => Fits(w)'
         /\ \A i \in DOMAIN jobs' : JobFits(i)'
         /\ DOMAIN photos' \subseteq ItemPhotos
         /\ \A i \in DOMAIN photos' : photos'[i] \in {"bare", "published"} /\ PhotoFits(i)'
         /\ \A i \in evidence \cap DisputeEvidence : EvidenceFits(i)'
         /\ j \in DOMAIN objects => EvidenceFits(j)'
         /\ CleanerFits'
<1>1. j \notin DOMAIN photos /\ j \notin DOMAIN jobs /\ j \in requested
  BY NotPassed, Elements DEF Kept
<1>2. /\ DOMAIN photos' \subseteq DOMAIN photos \cup {j}
      /\ DOMAIN photos \subseteq DOMAIN photos'
      /\ \A i \in DOMAIN photos : photos'[i] = photos[i]
      /\ j \in DOMAIN photos' => j \in ItemPhotos /\ j \in DOMAIN objects /\ photos'[j] = "bare"
  <2>1. CASE photos' = photos
    BY <1>1, <2>1
  <2>2. CASE j \in ItemPhotos /\ j \in DOMAIN objects /\ photos' = With(photos, j, "bare")
    BY <1>1, <2>2 DEF With
  <2> QED
    BY <2>1, <2>2 DEF Confirms
<1>3. /\ DOMAIN intents' = DOMAIN intents
      /\ \A i \in DOMAIN intents : i # j => intents'[i] = intents[i]
      /\ intents'[j].confirmedAt = now /\ now # Never
      /\ intents'[j].expiresAt = intents[j].expiresAt
      /\ \A i \in DOMAIN intents' : intents'[i] \in IntentRecord
      /\ CleanerFits'
  BY <1>2, ConfirmationKeeps DEF Confirms
<1>4. UNCHANGED <<now, requested, objects, public, jobs>>
  BY DEF Confirms
<1>5. (\A i : Used(i) => Used(i)') /\ Used(j)' /\ \A i : Usable(i)' => Usable(i)
  BY <1>3, <1>4 DEF Used, Usable
<1>6. ASSUME NEW w \in RequestRecord, Fits(w), w.pc = "commit" => w.intent # j PROVE Fits(w)'
  BY <1>3, <1>4, <1>5, <1>6 DEF Fits
<1>7. \A i \in DOMAIN jobs' : JobFits(i)'
  <2> SUFFICES ASSUME NEW i \in DOMAIN jobs PROVE JobFits(i)'
    BY <1>4
  <2>1. JobFits(i) /\ i # j
    BY <1>1 DEF Kept
  <2> QED
    BY <1>2, <1>4, <1>5, <2>1 DEF JobFits
<1>8. ASSUME NEW i \in DOMAIN photos' PROVE photos'[i] \in {"bare", "published"} /\ PhotoFits(i)'
  <2>1. CASE i = j
    BY <1>1, <1>2, <1>4, <1>5, <1>8, <2>1 DEF PhotoFits
  <2>2. CASE i # j
    <3>1. i \in DOMAIN photos /\ PhotoFits(i) /\ photos[i] \in {"bare", "published"}
      BY <1>2, <1>8, <2>2, Elements DEF Kept
    <3> QED
      BY <1>2, <1>3, <1>4, <1>5, <2>2, <3>1 DEF PhotoFits
  <2> QED
    BY <2>1, <2>2
<1>9. DOMAIN photos' \subseteq ItemPhotos
  BY <1>2, Elements DEF Kept
<1>10. (\A i \in evidence \cap DisputeEvidence : EvidenceFits(i)')
         /\ (j \in DOMAIN objects => EvidenceFits(j)')
  BY <1>3, <1>4 DEF Kept, EvidenceFits
<1> QED
  BY <1>3, <1>5, <1>6, <1>7, <1>8, <1>9, <1>10

\* The transaction of a photo commits.
LEMMA CommitKeeps ==
  ASSUME Kept, NEW r \in Requests, CommitPhoto(r)
  PROVE  Kept'
<1>1. PICK j : j = request[r].intent
  OBVIOUS
<1>2. PICK w : w = [request[r] EXCEPT !.pc = "queue"]
  OBVIOUS
<1>3. RequestFits(r) /\ request[r].pc = "commit" /\ OneCommits
  BY DEF Kept, CommitPhoto
<1>4. /\ j \in DOMAIN intents /\ j \in DOMAIN objects /\ intents[j].confirmedAt = Never
      /\ j \in ItemPhotos /\ j \in requested
  BY <1>1, <1>3 DEF RequestFits, Fits
<1>5. now <= intents[j].expiresAt /\ ~Passed(j)
  BY <1>1, <1>3, <1>4, NotPassed
<1>6. Confirms(j) /\ UNCHANGED <<avatar, evidence>> /\ Goto(r, "queue")
  BY <1>1, <1>4 DEF CommitPhoto, Confirms
<1>7. /\ w \in RequestRecord /\ w.pc = "queue" /\ w.intent = j /\ w.since = request[r].since
      /\ request' = [request EXCEPT ![r] = w]
  BY <1>1, <1>2, <1>6, GotoFits DEF RequestPcs
<1>8. /\ request' \in [Requests -> RequestRecord] /\ OneCommits' /\ request'[r] = w
      /\ \A q \in Requests \ {r} : UNCHANGED request[q]
  BY <1>7, RequestMoves
<1>9. /\ DOMAIN intents' = DOMAIN intents
      /\ \A i \in DOMAIN intents' : intents'[i] \in IntentRecord
      /\ Used(j)'
      /\ \A v \in RequestRecord : Fits(v) /\ (v.pc = "commit" => v.intent # j) => Fits(v)'
      /\ \A i \in DOMAIN jobs' : JobFits(i)'
      /\ DOMAIN photos' \subseteq ItemPhotos
      /\ \A i \in DOMAIN photos' : photos'[i] \in {"bare", "published"} /\ PhotoFits(i)'
      /\ \A i \in evidence \cap DisputeEvidence : EvidenceFits(i)'
      /\ CleanerFits'
  BY <1>4, <1>5, <1>6, ConfirmationFits
<1>10. ASSUME NEW q \in Requests PROVE RequestFits(q)'
  <2>1. CASE q = r
    <3>1. now' = now /\ requested' = requested
      BY <1>6 DEF Confirms
    <3> QED
      BY <1>3, <1>4, <1>7, <1>8, <1>9, <2>1, <3>1 DEF RequestFits, Fits
  <2>2. CASE q # r
    <3>1. request[q].pc = "commit" => request[q].intent # j
      BY <1>1, <1>3, <2>2 DEF OneCommits
    <3>2. request[q] \in RequestRecord /\ Fits(request[q]) /\ request'[q] = request[q]
      BY <1>8, <2>2, Elements DEF Kept, RequestFits
    <3>3. PICK v \in RequestRecord : v = request[q]
      BY <3>2
    <3> QED
      BY <1>9, <3>1, <3>2, <3>3 DEF RequestFits, Fits
  <2> QED
    BY <2>1, <2>2
<1>11. TypeOK'
  BY <1>6, <1>8, <1>9 DEF Kept, TypeOK, Confirms, RequestRecord, RequestPcs, IntentRecord
<1> QED
  BY <1>6, <1>8, <1>9, <1>10, <1>11 DEF Kept, Confirms

\* A confirmation by a request that holds no lock, whose intent is usable when it is confirmed.
LEMMA UseKeeps ==
  ASSUME Kept, NEW r \in Requests, NEW w \in RequestRecord, NEW j, j \notin ItemPhotos, Usable(j), Confirms(j),
         photos' = photos, request' = [request EXCEPT ![r] = w],
         w.pc # "commit", w.pc # "idle" => w.pc = "tidy" /\ w.intent = j /\ Fits(w),
         avatar' \in {avatar, j}, avatar' # avatar => j \in public /\ j \in Avatars,
         evidence' \in {evidence, evidence \cup {j}},
         evidence' # evidence => j \in Evidence /\ (j \in DisputeEvidence => j \in DOMAIN objects)
  PROVE  Kept'
<1>1. /\ j \in DOMAIN intents /\ intents[j].confirmedAt = Never /\ now <= intents[j].expiresAt
      /\ ~Passed(j)
  <2>1. j \in DOMAIN intents /\ intents[j].confirmedAt = Never /\ now < intents[j].expiresAt
    BY DEF Usable
  <2>2. now \in Nat /\ intents[j].expiresAt \in Nat
    BY <2>1, Elements DEF Kept
  <2> QED
    BY <2>1, <2>2, NotPassed
<1>2. /\ request' \in [Requests -> RequestRecord] /\ OneCommits' /\ request'[r] = w
      /\ \A q \in Requests \ {r} : UNCHANGED request[q]
  BY RequestMoves
<1>3. /\ DOMAIN intents' = DOMAIN intents
      /\ \A i \in DOMAIN intents' : intents'[i] \in IntentRecord
      /\ \A v \in RequestRecord : Fits(v) /\ (v.pc = "commit" => v.intent # j) => Fits(v)'
      /\ \A i \in DOMAIN jobs' : JobFits(i)'
      /\ \A i \in DOMAIN photos' : PhotoFits(i)'
      /\ \A i \in evidence \cap DisputeEvidence : EvidenceFits(i)'
      /\ j \in DOMAIN objects => EvidenceFits(j)'
      /\ CleanerFits'
  BY <1>1, ConfirmationFits
<1>4. ASSUME NEW q \in Requests PROVE RequestFits(q)'
  <2>1. CASE q = r
    <3>1. Fits(w)'
      BY <1>3 DEF Fits
    <3> QED
      BY <1>2, <2>1, <3>1 DEF RequestFits, Fits
  <2>2. CASE q # r
    <3>1. request[q] \in RequestRecord /\ Fits(request[q]) /\ request'[q] = request[q]
      BY <1>2, <2>2, Elements DEF Kept, RequestFits
    <3>2. request[q].pc = "commit" => request[q].intent # j
      BY <3>1 DEF Fits
    <3>3. PICK v \in RequestRecord : v = request[q]
      BY <3>1
    <3> QED
      BY <1>3, <3>1, <3>2, <3>3 DEF RequestFits, Fits
  <2> QED
    BY <2>1, <2>2
<1>5. UNCHANGED <<now, requested, objects, photos, public, jobs, faults>>
  BY DEF Confirms
<1>6. \A i \in evidence' \cap DisputeEvidence : EvidenceFits(i)'
  BY <1>3
<1>7. avatar' # NoIntent => avatar' \in public'
  BY <1>5 DEF Kept
<1>8. TypeOK'
  <2>1. TypeOK
    BY DEF Kept
  <2>2. avatar' \in Avatars \cup {NoIntent} /\ evidence' \subseteq Evidence
    BY <2>1 DEF TypeOK
  <2>3. cleaner' = cleaner
    BY DEF Confirms
  <2> QED
    BY <1>2, <1>3, <1>5, <2>1, <2>2, <2>3
    DEF TypeOK, RequestRecord, RequestPcs, IntentRecord
<1> QED
  BY <1>2, <1>3, <1>4, <1>6, <1>7, <1>8 DEF Kept

\* The avatar's request uses its intent, or finds that another one has.
LEMMA UseAvatarKeeps ==
  ASSUME Kept, NEW r \in Requests, UseAvatar(r)
  PROVE  Kept'
<1>1. PICK j : j = request[r].intent
  OBVIOUS
<1>2. PICK w : w = [request[r] EXCEPT !.pc = "tidy"]
  OBVIOUS
<1>3. /\ w \in RequestRecord /\ w.pc = "tidy" /\ w.intent = j /\ w.since = request[r].since
      /\ request' = [request EXCEPT ![r] = w]
  BY <1>1, <1>2, GotoFits DEF RequestPcs, UseAvatar
<1>4. Fits(w) /\ j \in Avatars /\ j \in public /\ j \notin ItemPhotos /\ j \notin Evidence
  <2>1. RequestFits(r) /\ request[r].pc = "use"
    BY DEF UseAvatar, Kept
  <2> QED
    BY <1>1, <1>3, <2>1, UploadAssumption DEF RequestFits, Fits
<1>5. UNCHANGED <<now, requested, objects, photos, public, evidence, jobs, cleaner, faults>>
  BY DEF UseAvatar
<1>6. CASE Usable(j) /\ intents' = [intents EXCEPT ![j].confirmedAt = now] /\ avatar' = j
  BY <1>3, <1>4, <1>5, <1>6, UseKeeps DEF Confirms
<1>7. CASE UNCHANGED <<intents, avatar>>
  <2>1. faults' \in 0 .. MaxFaults
    BY <1>5 DEF Kept, TypeOK
  <2> QED
    BY <1>3, <1>4, <1>5, <1>7, <2>1, RequestKeeps
<1> QED
  BY <1>1, <1>6, <1>7 DEF UseAvatar

\* An act, a dispute or a message consumes the intent of its evidence.
LEMMA AttachKeeps ==
  ASSUME Kept, NEW r \in Requests, Attach(r)
  PROVE  Kept'
<1>1. PICK j : j = request[r].intent
  OBVIOUS
<1>2. /\ RequestFits(r) /\ request[r].pc = "attach" /\ Usable(j)
      /\ intents' = [intents EXCEPT ![j].confirmedAt = now] /\ evidence' = evidence \cup {j}
      /\ UNCHANGED <<now, requested, objects, photos, public, avatar, jobs, cleaner, faults>>
      /\ request' = [request EXCEPT ![r] = NoRequest]
  BY <1>1 DEF Kept, Attach, Consume, End
<1>3. /\ j \in Evidence /\ j \notin ItemPhotos
      /\ j \in DisputeEvidence => j \in DOMAIN objects
  BY <1>1, <1>2, UploadAssumption DEF RequestFits, Fits
<1> QED
  BY <1>2, <1>3, IdleFits, UseKeeps DEF Confirms

\* The photo is queued.
LEMMA QueueKeeps ==
  ASSUME Kept, NEW r \in Requests, QueuePhoto(r)
  PROVE  Kept'
<1>1. PICK j : j = request[r].intent
  OBVIOUS
<1>2. PICK k : k = [pc |-> "waiting", attempts |-> 0, stalled |-> FALSE]
  OBVIOUS
<1>3. /\ RequestFits(r) /\ request[r].pc = "queue" /\ jobs' = With(jobs, j, k)
      /\ request' = [request EXCEPT ![r] = NoRequest]
      /\ UNCHANGED <<now, requested, intents, objects, photos, public, avatar, evidence, cleaner,
                     faults>>
  BY <1>1, <1>2 DEF Kept, QueuePhoto, End
<1>4. j \in ItemPhotos /\ j \in requested /\ Used(j)
  BY <1>1, <1>3 DEF RequestFits, Fits
<1>5. k \in JobRecord /\ k.pc = "waiting"
  BY <1>2, UploadAssumption DEF JobRecord, JobPcs
<1>6. /\ request' \in [Requests -> RequestRecord] /\ OneCommits' /\ request'[r] = NoRequest
      /\ \A q \in Requests \ {r} : UNCHANGED request[q]
  BY <1>3, IdleFits, RequestMoves
<1>7. /\ DOMAIN jobs' = DOMAIN jobs \cup {j} /\ jobs'[j] = k
      /\ \A i \in DOMAIN jobs : i # j => jobs'[i] = jobs[i]
  BY <1>3 DEF With
<1>8. ASSUME NEW q \in Requests PROVE RequestFits(q)'
  <2>1. CASE q = r
    BY <1>6, <2>1, IdleFits DEF RequestFits, Fits
  <2>2. CASE q # r
    BY <1>3, <1>6, <2>2 DEF Kept, RequestFits, Fits, Usable, Used
  <2> QED
    BY <2>1, <2>2
<1>9. ASSUME NEW i \in DOMAIN jobs' PROVE i \in ItemPhotos /\ jobs'[i] \in JobRecord /\ JobFits(i)'
  <2>1. CASE i = j
    BY <1>3, <1>4, <1>5, <1>7, <2>1 DEF JobFits, Used
  <2>2. CASE i # j
    <3>1. i \in DOMAIN jobs /\ JobFits(i) /\ i \in ItemPhotos /\ jobs[i] \in JobRecord
      BY <1>7, <1>9, <2>2, Elements DEF Kept
    <3> QED
      BY <1>3, <1>7, <2>2, <3>1 DEF JobFits, Used
  <2> QED
    BY <2>1, <2>2
<1>10. \A i \in DOMAIN photos' : PhotoFits(i)'
  BY <1>3 DEF Kept, PhotoFits, Used
<1>11. \A i \in evidence' \cap DisputeEvidence : EvidenceFits(i)'
  BY <1>3 DEF Kept, EvidenceFits
<1>12. CleanerFits'
  BY <1>3, CleanerStays
<1>13. TypeOK'
  BY <1>3, <1>6, <1>9 DEF Kept, TypeOK, RequestRecord, RequestPcs, JobRecord, JobPcs
<1> QED
  BY <1>3, <1>6, <1>8, <1>9, <1>10, <1>11, <1>12, <1>13 DEF Kept

\* The avatar is published before its intent is used.
LEMMA PutAvatarKeeps ==
  ASSUME Kept, NEW r \in Requests, PutAvatar(r)
  PROVE  Kept'
<1>1. PICK j : j = request[r].intent
  OBVIOUS
<1>2. PICK w : w = [request[r] EXCEPT !.pc = "use"]
  OBVIOUS
<1>3. /\ w \in RequestRecord /\ w.pc = "use" /\ w.intent = j /\ w.since = request[r].since
      /\ request' = [request EXCEPT ![r] = w]
  BY <1>1, <1>2, GotoFits DEF RequestPcs, PutAvatar
<1>4. /\ RequestFits(r) /\ request[r].pc = "avatar" /\ public' = public \cup {j}
      /\ UNCHANGED <<now, requested, intents, objects, photos, avatar, evidence, jobs, cleaner,
                     faults>>
  BY <1>1 DEF Kept, PutAvatar
<1>5. j \in Avatars
  BY <1>1, <1>4 DEF RequestFits, Fits
<1>6. /\ request' \in [Requests -> RequestRecord] /\ OneCommits' /\ request'[r] = w
      /\ \A q \in Requests \ {r} : UNCHANGED request[q]
  BY <1>3, RequestMoves
<1>7. ASSUME NEW q \in Requests PROVE RequestFits(q)'
  <2>1. CASE q = r
    BY <1>1, <1>3, <1>4, <1>5, <1>6, <2>1 DEF RequestFits, Fits
  <2>2. CASE q # r
    BY <1>4, <1>6, <2>2 DEF Kept, RequestFits, Fits, Usable, Used
  <2> QED
    BY <2>1, <2>2
<1>8. \A i \in DOMAIN jobs' : JobFits(i)'
  BY <1>4 DEF Kept, JobFits, Used
<1>9. \A i \in DOMAIN photos' : PhotoFits(i)'
  BY <1>4 DEF Kept, PhotoFits, Used
<1>10. \A i \in evidence' \cap DisputeEvidence : EvidenceFits(i)'
  BY <1>4 DEF Kept, EvidenceFits
<1>11. CleanerFits'
  BY <1>4, CleanerStays
<1>12. TypeOK'
  BY <1>4, <1>5, <1>6 DEF Kept, TypeOK, RequestRecord, RequestPcs
<1> QED
  BY <1>4, <1>6, <1>7, <1>8, <1>9, <1>10, <1>11, <1>12 DEF Kept

\* The source of an avatar is removed once nobody needs it.
LEMMA TidyKeeps ==
  ASSUME Kept, NEW r \in Requests, TidyAvatar(r)
  PROVE  Kept'
<1>1. PICK j : j = request[r].intent
  OBVIOUS
<1>2. /\ RequestFits(r) /\ request[r].pc = "tidy" /\ objects' = Without(objects, j)
      /\ request' = [request EXCEPT ![r] = NoRequest]
      /\ UNCHANGED <<now, requested, intents, photos, public, avatar, evidence, jobs, cleaner, faults>>
  BY <1>1 DEF Kept, TidyAvatar, End
<1>3. j \in Avatars /\ j \notin ItemPhotos \cup DisputeEvidence
  BY <1>1, <1>2, Sorts DEF RequestFits, Fits
<1>4. /\ DOMAIN objects' = DOMAIN objects \ {j}
      /\ \A i \in DOMAIN objects' : objects'[i] = objects[i]
  BY <1>2 DEF Without, Restrict
<1>5. /\ \A i \in DOMAIN objects' : objects'[i] \in Instants
      /\ DOMAIN objects' \subseteq requested'
      /\ \A q \in Requests : UNCHANGED request[q] => RequestFits(q)'
      /\ \A i \in DOMAIN photos : UNCHANGED photos[i] => PhotoFits(i)'
      /\ \A i \in evidence' \cap DisputeEvidence : EvidenceFits(i)'
  <2>1. \A i \in {j} : i \in ItemPhotos \cup DisputeEvidence => Passed(i)
    BY <1>3
  <2> QED
    BY <1>2, <1>4, <2>1, RemovalKeeps
<1>6. /\ request' \in [Requests -> RequestRecord] /\ OneCommits' /\ request'[r] = NoRequest
      /\ \A q \in Requests \ {r} : UNCHANGED request[q]
  BY <1>2, IdleFits, RequestMoves
<1>7. \A q \in Requests : RequestFits(q)'
  <2>1. RequestFits(r)'
    BY <1>6, IdleFits DEF RequestFits, Fits
  <2> QED
    BY <1>5, <1>6, <2>1
<1>8. \A i \in DOMAIN jobs' : JobFits(i)'
  BY <1>2 DEF Kept, JobFits, Used
<1>9. \A i \in DOMAIN photos' : PhotoFits(i)'
  BY <1>2, <1>5
<1>10. CleanerFits'
  BY <1>2, CleanerStays
<1>11. TypeOK'
  BY <1>2, <1>5, <1>6 DEF Kept, TypeOK, RequestRecord, RequestPcs
<1> QED
  BY <1>2, <1>5, <1>6, <1>7, <1>8, <1>9, <1>10, <1>11 DEF Kept

\* An object appears, or is overwritten.
LEMMA StoredKeeps ==
  ASSUME Kept, NEW j \in requested, objects' = With(objects, j, now),
         UNCHANGED <<now, requested, intents, photos, public, avatar, evidence, jobs, cleaner, faults>>
  PROVE  /\ \A i \in DOMAIN objects' : objects'[i] \in Instants
         /\ DOMAIN objects' = DOMAIN objects \cup {j}
         /\ \A w \in RequestRecord : Fits(w) => Fits(w)'
         /\ \A i \in DOMAIN jobs' : JobFits(i)'
         /\ \A i \in DOMAIN photos' : PhotoFits(i)'
         /\ \A i \in evidence' \cap DisputeEvidence : EvidenceFits(i)'
         /\ avatar' # NoIntent => avatar' \in public'
         /\ CleanerFits'
<1>1. /\ DOMAIN objects' = DOMAIN objects \cup {j}
      /\ \A i \in DOMAIN objects : i # j => objects'[i] = objects[i]
      /\ objects'[j] = now
  BY DEF With
<1>2. \A i \in DOMAIN objects' : objects'[i] \in Instants
  BY <1>1, Elements DEF Kept, TypeOK
<1>3. ASSUME NEW w \in RequestRecord, Fits(w) PROVE Fits(w)'
  BY <1>1, <1>3 DEF Fits, Usable, Used
<1>4. \A i \in DOMAIN jobs' : JobFits(i)'
  BY DEF Kept, JobFits, Used
<1>5. \A i \in DOMAIN photos' : PhotoFits(i)'
  BY <1>1 DEF Kept, PhotoFits, Used
<1>6. \A i \in evidence' \cap DisputeEvidence : EvidenceFits(i)'
  BY <1>1 DEF Kept, EvidenceFits
<1>7. CleanerFits'
  BY CleanerStays
<1> QED
  BY <1>1, <1>2, <1>3, <1>4, <1>5, <1>6, <1>7 DEF Kept

\* An image is written again before it is attached.
LEMMA SanitizeKeeps ==
  ASSUME Kept, NEW r \in Requests, Sanitize(r)
  PROVE  Kept'
<1>1. PICK j : j = request[r].intent
  OBVIOUS
<1>2. PICK w : w = [request[r] EXCEPT !.pc = "attach"]
  OBVIOUS
<1>3. /\ w \in RequestRecord /\ w.pc = "attach" /\ w.intent = j /\ w.since = request[r].since
      /\ request' = [request EXCEPT ![r] = w]
  BY <1>1, <1>2, GotoFits DEF RequestPcs, Sanitize
<1>4. /\ RequestFits(r) /\ request[r].pc = "sanitize" /\ objects' = With(objects, j, now)
      /\ UNCHANGED <<now, requested, intents, photos, public, avatar, evidence, jobs, cleaner, faults>>
  BY <1>1 DEF Kept, Sanitize
<1>5. /\ j \in Evidence /\ j \in requested /\ w.since <= now /\ now <= w.since + 1
  BY <1>1, <1>3, <1>4 DEF RequestFits, Fits
<1>6. /\ \A i \in DOMAIN objects' : objects'[i] \in Instants
      /\ DOMAIN objects' = DOMAIN objects \cup {j}
      /\ \A v \in RequestRecord : Fits(v) => Fits(v)'
      /\ \A i \in DOMAIN jobs' : JobFits(i)'
      /\ \A i \in DOMAIN photos' : PhotoFits(i)'
      /\ \A i \in evidence' \cap DisputeEvidence : EvidenceFits(i)'
      /\ avatar' # NoIntent => avatar' \in public'
      /\ CleanerFits'
  BY <1>4, <1>5, StoredKeeps
<1>7. /\ request' \in [Requests -> RequestRecord] /\ OneCommits' /\ request'[r] = w
      /\ \A q \in Requests \ {r} : UNCHANGED request[q]
  BY <1>3, RequestMoves
<1>8. ASSUME NEW q \in Requests PROVE RequestFits(q)'
  <2>1. CASE q = r
    BY <1>3, <1>4, <1>5, <1>6, <1>7, <2>1 DEF RequestFits, Fits
  <2>2. CASE q # r
    <3>1. request[q] \in RequestRecord /\ Fits(request[q]) /\ request'[q] = request[q]
      BY <1>7, <2>2, Elements DEF Kept, RequestFits
    <3>2. PICK v \in RequestRecord : v = request[q]
      BY <3>1
    <3> QED
      BY <1>6, <3>1, <3>2 DEF RequestFits, Fits
  <2> QED
    BY <2>1, <2>2
<1>9. TypeOK'
  <2>1. DOMAIN objects' \subseteq requested'
    BY <1>4, <1>5, <1>6, Elements DEF Kept
  <2> QED
    BY <1>4, <1>6, <1>7, <2>1 DEF Kept, TypeOK, RequestRecord, RequestPcs
<1> QED
  BY <1>6, <1>7, <1>8, <1>9 DEF Kept

\* A client uploads its file, once or again.
LEMMA UploadKeeps ==
  ASSUME Kept, NEW j \in Intents, Upload(j)
  PROVE  Kept'
<1>1. /\ j \in requested /\ objects' = With(objects, j, now) /\ request' = request
      /\ UNCHANGED <<now, requested, intents, photos, public, avatar, evidence, jobs, cleaner, faults>>
  BY Elements DEF Kept, Upload
<1>2. /\ \A i \in DOMAIN objects' : objects'[i] \in Instants
      /\ DOMAIN objects' = DOMAIN objects \cup {j}
      /\ \A v \in RequestRecord : Fits(v) => Fits(v)'
      /\ \A i \in DOMAIN jobs' : JobFits(i)'
      /\ \A i \in DOMAIN photos' : PhotoFits(i)'
      /\ \A i \in evidence' \cap DisputeEvidence : EvidenceFits(i)'
      /\ avatar' # NoIntent => avatar' \in public'
      /\ CleanerFits'
  BY <1>1, StoredKeeps
<1>3. ASSUME NEW q \in Requests PROVE RequestFits(q)'
  <2>1. request[q] \in RequestRecord /\ Fits(request[q])
    BY Elements DEF Kept, RequestFits
  <2>2. PICK v \in RequestRecord : v = request[q]
    BY <2>1
  <2> QED
    BY <1>1, <1>2, <2>1, <2>2 DEF RequestFits, Fits
<1>4. OneCommits'
  BY <1>1 DEF Kept, OneCommits
<1>5. TypeOK'
  <2>1. DOMAIN objects' \subseteq requested'
    BY <1>1, <1>2, Elements DEF Kept
  <2> QED
    BY <1>1, <1>2, <2>1 DEF Kept, TypeOK
<1> QED
  BY <1>2, <1>3, <1>4, <1>5 DEF Kept

\* An intent is given out for a file that nobody has seen before.
LEMMA RequestUploadKeeps ==
  ASSUME Kept, NEW j \in Intents, RequestUpload(j)
  PROVE  Kept'
<1>1. PICK v : v = [expiresAt |-> now + Expires, confirmedAt |-> Never]
  OBVIOUS
<1>2. /\ j \notin requested /\ requested' = requested \cup {j} /\ intents' = With(intents, j, v)
      /\ UNCHANGED <<now, objects, photos, public, avatar, evidence, jobs, request, cleaner, faults>>
  BY <1>1 DEF RequestUpload
<1>3. j \notin DOMAIN intents /\ j \notin DOMAIN objects
  BY <1>2, Elements DEF Kept
<1>4. v \in IntentRecord
  <2>1. now \in 0 .. MaxClock /\ Expires \in Nat /\ MaxClock \in Nat
    BY Sorts DEF Kept, TypeOK, Instants
  <2>2. now + Expires \in 0 .. MaxClock + Expires
    BY <2>1
  <2> QED
    BY <1>1, <2>2 DEF IntentRecord
<1>5. /\ DOMAIN intents' = DOMAIN intents \cup {j} /\ intents'[j] = v
      /\ \A i \in DOMAIN intents : intents'[i] = intents[i]
  BY <1>2, <1>3 DEF With
<1>6. \A i \in requested : (i \in DOMAIN intents' <=> i \in DOMAIN intents) /\ (Used(i) => Used(i)')
  BY <1>2, <1>5 DEF Used
<1>7. ASSUME NEW i \in requested PROVE (Usable(i)' => Usable(i)) /\ (Passed(i) => Passed(i)')
                                       /\ (RowFits(i) => RowFits(i)')
  BY <1>2, <1>5, <1>6 DEF Usable, Passed, RowFits
<1>8. ASSUME NEW q \in Requests PROVE RequestFits(q)'
  <2>1. RequestFits(q) /\ request' = request
    BY <1>2 DEF Kept
  <2>2. CASE request[q].pc = "idle"
    BY <2>1, <2>2 DEF RequestFits, Fits
  <2>3. CASE request[q].pc # "idle"
    <3>1. request[q].intent \in requested
      BY <2>1, <2>3 DEF RequestFits, Fits
    <3>2. PICK i \in requested : i = request[q].intent
      BY <3>1
    <3> QED
      BY <1>2, <1>5, <1>6, <1>7, <2>1, <2>3, <3>2 DEF RequestFits, Fits
  <2> QED
    BY <2>2, <2>3
<1>9. \A i \in DOMAIN jobs' : JobFits(i)'
  BY <1>2, <1>6 DEF Kept, JobFits
<1>10. \A i \in DOMAIN photos' : PhotoFits(i)'
  BY <1>2, <1>5, <1>6 DEF Kept, PhotoFits
<1>11. \A i \in evidence' \cap DisputeEvidence : EvidenceFits(i)'
  BY <1>2, <1>5 DEF Kept, EvidenceFits
<1>12. CleanerFits'
  <2>1. CleanerFits /\ cleaner' = cleaner
    BY <1>2 DEF Kept
  <2>2. cleaner.pc \in {"object", "photo", "intent"} => Passed(cleaner.at)'
    <3> SUFFICES ASSUME cleaner.pc \in {"object", "photo", "intent"} PROVE Passed(cleaner.at)'
      OBVIOUS
    <3>1. PICK i \in requested : i = cleaner.at
      BY <2>1 DEF CleanerFits
    <3>2. Passed(i)'
      BY <1>7, <2>1, <3>1 DEF CleanerFits
    <3> QED
      BY <2>1, <3>1, <3>2 DEF Passed
  <2>3. ASSUME cleaner.pc \notin {"idle", "intents"}, NEW i \in DOMAIN cleaner.rows
        PROVE  i \in requested /\ RowFits(i)'
    BY <1>7, <2>1, <2>3 DEF CleanerFits
  <2>4. ASSUME cleaner.pc \notin {"idle", "intents"}, NEW i \in cleaner.old \ DOMAIN cleaner.rows,
               i \in ItemPhotos \cup DisputeEvidence
        PROVE  i \notin DOMAIN intents'
    BY <1>6, <2>1, <2>4 DEF CleanerFits
  <2> QED
    BY <1>2, <2>1, <2>2, <2>3, <2>4 DEF CleanerFits
<1>13. TypeOK'
  <2>1. \A i \in DOMAIN intents' : intents'[i] \in IntentRecord
    BY <1>4, <1>5, Elements DEF Kept
  <2>2. requested' \subseteq Intents /\ DOMAIN intents' \subseteq requested'
    BY <1>2, <1>5, Elements DEF Kept
  <2> QED
    BY <1>2, <2>1, <2>2 DEF Kept, TypeOK, IntentRecord
<1> QED
  BY <1>2, <1>8, <1>9, <1>10, <1>11, <1>12, <1>13 DEF Kept, OneCommits

-----------------------------------------------------------------------------
(***************************************************************************)
(* The worker.                                                             *)
(***************************************************************************)

\* The job goes on at pc, waits for another attempt, or is gone.
Resumes(i, pc) ==
  /\ DOMAIN jobs' \subseteq DOMAIN jobs
  /\ \A k \in DOMAIN jobs' : k # i => jobs'[k] = jobs[k]
  /\ i \in DOMAIN jobs' => jobs'[i] \in JobRecord /\ jobs'[i].pc \in {"waiting", pc}

LEMMA JobResumes ==
  ASSUME Kept, NEW i \in DOMAIN jobs, NEW pc \in JobPcs
  PROVE  /\ JobGoto(i, pc) => Resumes(i, pc)
         /\ Retried(i) => Resumes(i, pc)
         /\ jobs' = Without(jobs, i) => Resumes(i, pc)
         /\ jobs' = [jobs EXCEPT ![i] = [@ EXCEPT !.pc = "waiting", !.stalled = TRUE]]
            => Resumes(i, pc)
<1>1. jobs[i] \in JobRecord
  BY Elements DEF Kept
<1>2. PICK k : k = jobs[i]
  OBVIOUS
<1>3. [k EXCEPT !.pc = pc] \in JobRecord /\ [k EXCEPT !.pc = pc].pc = pc
  BY <1>1, <1>2 DEF JobRecord
<1>4. /\ [k EXCEPT !.pc = "waiting", !.stalled = TRUE] \in JobRecord
      /\ [k EXCEPT !.pc = "waiting", !.stalled = TRUE].pc = "waiting"
  BY <1>1, <1>2 DEF JobRecord, JobPcs
<1>5. k.attempts \in 0 .. Attempts - 1 /\ Attempts \in Nat
  BY <1>1, <1>2, UploadAssumption DEF JobRecord
<1>6. ASSUME k.attempts + 1 < Attempts
      PROVE  /\ [k EXCEPT !.pc = "waiting", !.attempts = k.attempts + 1] \in JobRecord
             /\ [k EXCEPT !.pc = "waiting", !.attempts = k.attempts + 1].pc = "waiting"
  <2>1. k.attempts + 1 \in 0 .. Attempts - 1
    BY <1>5, <1>6
  <2> QED
    BY <1>1, <1>2, <2>1 DEF JobRecord, JobPcs
<1>7. jobs' = Without(jobs, i) => Resumes(i, pc)
  BY DEF Without, Restrict, Resumes
<1>8. ASSUME NEW j \in JobRecord, j.pc \in {"waiting", pc}, jobs' = [jobs EXCEPT ![i] = j]
      PROVE  Resumes(i, pc)
  BY <1>8 DEF Resumes
<1>9. JobGoto(i, pc) => jobs' = [jobs EXCEPT ![i] = [k EXCEPT !.pc = pc]]
  BY <1>2 DEF JobGoto
<1>10. Retried(i) => \/ jobs' = Without(jobs, i)
                     \/ /\ k.attempts + 1 < Attempts
                        /\ jobs' = [jobs EXCEPT ![i] = [k EXCEPT !.pc = "waiting",
                                                                 !.attempts = k.attempts + 1]]
  BY <1>2 DEF Retried
<1>11. jobs' = [jobs EXCEPT ![i] = [@ EXCEPT !.pc = "waiting", !.stalled = TRUE]]
       => jobs' = [jobs EXCEPT ![i] = [k EXCEPT !.pc = "waiting", !.stalled = TRUE]]
  BY <1>2
<1>12. JobGoto(i, pc) => Resumes(i, pc)
  BY <1>3, <1>8, <1>9
<1>13. Retried(i) => Resumes(i, pc)
  BY <1>6, <1>7, <1>8, <1>10
<1>14. jobs' = [jobs EXCEPT ![i] = [@ EXCEPT !.pc = "waiting", !.stalled = TRUE]]
       => Resumes(i, pc)
  BY <1>4, <1>8, <1>11
<1> QED
  BY <1>7, <1>12, <1>13, <1>14

\* A job may stand at pc.
Stands(i, pc) ==
  /\ pc \in {"update", "delete"} => i \in public
  /\ pc = "delete" /\ i \in DOMAIN photos => photos[i] = "published"

\* The other jobs are not disturbed.
LEMMA JobsFit ==
  ASSUME Kept, NEW i \in DOMAIN jobs, NEW pc \in JobPcs, Resumes(i, pc), Stands(i, pc)',
         UNCHANGED <<requested, intents>>, public \subseteq public',
         DOMAIN photos' = DOMAIN photos,
         \A k \in DOMAIN photos : photos'[k] = photos[k] \/ photos'[k] = "published"
  PROVE  \A k \in DOMAIN jobs' : k \in ItemPhotos /\ jobs'[k] \in JobRecord /\ JobFits(k)'
<1> TAKE k \in DOMAIN jobs'
<1>1. k \in DOMAIN jobs /\ JobFits(k) /\ k \in ItemPhotos /\ jobs[k] \in JobRecord
  BY Elements DEF Kept, Resumes
<1>2. CASE k = i
  BY <1>1, <1>2 DEF Resumes, JobFits, Stands, Used
<1>3. CASE k # i
  BY <1>1, <1>3 DEF Resumes, JobFits, Used
<1> QED
  BY <1>1, <1>2, <1>3 DEF Resumes

\* A step of a job that writes photos and public variants.
LEMMA JobKeeps ==
  ASSUME Kept, NEW i \in DOMAIN jobs, NEW pc \in JobPcs, Resumes(i, pc), Stands(i, pc)',
         \/ public' = public /\ photos' = photos
         \/ public' = public \cup {i} /\ photos' = photos
         \/ public' = public /\ i \in public /\ i \in DOMAIN photos
              /\ photos' = [photos EXCEPT ![i] = "published"],
         faults' \in 0 .. MaxFaults,
         UNCHANGED objects, UNCHANGED jobUnchanged
  PROVE  Kept'
<1>1. UNCHANGED <<now, requested, intents, objects, avatar, evidence, request, cleaner>>
  BY DEF jobUnchanged
<1>2. /\ public \subseteq public' /\ public' \subseteq public \cup {i}
      /\ DOMAIN photos' = DOMAIN photos
      /\ \A k \in DOMAIN photos : \/ photos'[k] = photos[k]
                                  \/ photos'[k] = "published" /\ k \in public'
  OBVIOUS
<1>3. \A k \in DOMAIN jobs' : k \in ItemPhotos /\ jobs'[k] \in JobRecord /\ JobFits(k)'
  BY <1>1, <1>2, JobsFit
<1>4. i \in ItemPhotos
  BY Elements DEF Kept
<1>5. \A r \in Requests : RequestFits(r)'
  BY <1>1, <1>2 DEF Kept, RequestFits, Fits, Usable, Used
<1>6. ASSUME NEW k \in DOMAIN photos' PROVE photos'[k] \in {"bare", "published"} /\ PhotoFits(k)'
  <2>1. k \in DOMAIN photos /\ PhotoFits(k) /\ photos[k] \in {"bare", "published"}
    BY <1>2, <1>6, Elements DEF Kept
  <2> QED
    BY <1>1, <1>2, <2>1 DEF PhotoFits, Used
<1>7. \A k \in evidence' \cap DisputeEvidence : EvidenceFits(k)'
  BY <1>1 DEF Kept, EvidenceFits
<1>8. CleanerFits'
  <2>1. \A k : (RowFits(k) => RowFits(k)') /\ (Passed(k) => Passed(k)')
    BY <1>1, <1>2 DEF RowFits, Passed
  <2> QED
    BY <1>1, <2>1 DEF Kept, CleanerFits
<1>9. TypeOK'
  BY <1>1, <1>2, <1>3, <1>4, <1>6 DEF Kept, TypeOK, JobRecord, JobPcs
<1> QED
  BY <1>1, <1>2, <1>3, <1>5, <1>6, <1>7, <1>8, <1>9 DEF Kept, OneCommits

\* Every step of a job, and its failures.
LEMMA JobsKeep ==
  ASSUME Kept, NEW i \in ItemPhotos, JobStep(i) \/ JobFails(i) \/ JobStalls(i)
  PROVE  Kept'
<1>0. i \in DOMAIN jobs /\ JobFits(i) /\ faults \in 0 .. MaxFaults
  BY DEF Kept, TypeOK, JobStep, JobFails, JobStalls, TakeJob, FetchSource, DecodeSource, PutVariants,
         PublishPhoto, DeleteSource
<1>1. {"waiting", "source", "decode", "put", "update", "delete"} \subseteq JobPcs
  BY DEF JobPcs
<1>2. \A pc \in {"waiting", "source", "decode", "put"} : Stands(i, pc)'
  BY DEF Stands
<1>3. ASSUME NEW pc \in {"waiting", "source", "decode", "put"},
             JobGoto(i, pc) \/ Retried(i) \/ jobs' = Without(jobs, i)
               \/ jobs' = [jobs EXCEPT ![i] = [@ EXCEPT !.pc = "waiting", !.stalled = TRUE]],
             faults' \in 0 .. MaxFaults,
             UNCHANGED <<objects, photos, public>>, UNCHANGED jobUnchanged
      PROVE  Kept'
  <2>1. pc \in JobPcs
    BY <1>1
  <2>2. Resumes(i, pc)
    BY <1>0, <1>3, <2>1, JobResumes
  <2> QED
    BY <1>0, <1>2, <1>3, <2>1, <2>2, JobKeeps
<1>4. CASE TakeJob(i)
  BY <1>0, <1>3, <1>4 DEF TakeJob
<1>5. CASE FetchSource(i)
  BY <1>0, <1>3, <1>5 DEF FetchSource
<1>6. CASE DecodeSource(i)
  BY <1>0, <1>3, <1>6 DEF DecodeSource
<1>7. CASE JobFails(i) \/ JobStalls(i)
  <2>1. faults' \in 0 .. MaxFaults
    BY <1>0, <1>7, UploadAssumption DEF JobFails, JobStalls, Fault
  <2> QED
    BY <1>3, <1>7, <2>1 DEF JobFails, JobStalls
<1>8. CASE PutVariants(i)
  <2>1. /\ public' = public \cup {i} /\ JobGoto(i, "update")
        /\ UNCHANGED <<objects, photos, faults>> /\ UNCHANGED jobUnchanged
    BY <1>8 DEF PutVariants
  <2>2. Resumes(i, "update") /\ Stands(i, "update")'
    BY <1>0, <1>1, <2>1, JobResumes DEF Stands
  <2> QED
    BY <1>0, <1>1, <2>1, <2>2, JobKeeps
<1>9. CASE PublishPhoto(i)
  <2>1. jobs[i].pc = "update" /\ i \in public /\ UNCHANGED <<objects, public, faults>>
        /\ UNCHANGED jobUnchanged
    BY <1>0, <1>9 DEF PublishPhoto, JobFits
  <2>2. CASE i \in DOMAIN photos
    <3>1. photos' = [photos EXCEPT ![i] = "published"] /\ JobGoto(i, "delete")
      BY <1>9, <2>2 DEF PublishPhoto
    <3>2. Resumes(i, "delete") /\ Stands(i, "delete")'
      BY <1>0, <1>1, <2>1, <2>2, <3>1, JobResumes DEF Stands
    <3> QED
      BY <1>0, <1>1, <2>1, <2>2, <3>1, <3>2, JobKeeps
  <2>3. CASE i \notin DOMAIN photos
    BY <1>0, <1>3, <1>9, <2>1, <2>3 DEF PublishPhoto
  <2> QED
    BY <2>2, <2>3
<1>10. CASE DeleteSource(i)
  <2>1. /\ jobs[i].pc = "delete" /\ objects' = Without(objects, i) /\ jobs' = Without(jobs, i)
        /\ UNCHANGED <<photos, public, faults>>
        /\ UNCHANGED <<now, requested, intents, avatar, evidence, request, cleaner>>
    BY <1>10 DEF DeleteSource, jobUnchanged
  <2>2. /\ DOMAIN objects' = DOMAIN objects \ {i}
        /\ \A k \in DOMAIN objects' : objects'[k] = objects[k]
    BY <2>1 DEF Without, Restrict
  <2>3. Passed(i)
    <3>1. i \in DOMAIN photos => photos[i] = "published"
      BY <1>0, <2>1 DEF JobFits
    <3>2. i \in DOMAIN intents => intents[i].confirmedAt # Never
      BY <1>0 DEF JobFits, Used
    <3>3. i \notin DisputeEvidence
      BY Sorts
    <3> QED
      BY <3>1, <3>2, <3>3 DEF Passed
  <2>4. /\ \A k \in DOMAIN objects' : objects'[k] \in Instants
        /\ DOMAIN objects' \subseteq requested'
        /\ \A r \in Requests : UNCHANGED request[r] => RequestFits(r)'
        /\ \A k \in DOMAIN photos : UNCHANGED photos[k] => PhotoFits(k)'
        /\ \A k \in evidence' \cap DisputeEvidence : EvidenceFits(k)'
    <3>1. \A k \in {i} : k \in ItemPhotos \cup DisputeEvidence => Passed(k)
      BY <2>3
    <3> QED
      BY <2>1, <2>2, <3>1, RemovalKeeps
  <2>5. Resumes(i, "waiting") /\ "waiting" \in JobPcs /\ Stands(i, "waiting")'
    BY <1>0, <1>1, <1>2, <2>1, JobResumes
  <2>6. \A k \in DOMAIN jobs' : k \in ItemPhotos /\ jobs'[k] \in JobRecord /\ JobFits(k)'
    BY <1>0, <2>1, <2>5, JobsFit
  <2>7. \A r \in Requests : RequestFits(r)'
    BY <2>1, <2>4
  <2>8. \A k \in DOMAIN photos' : PhotoFits(k)'
    BY <2>1, <2>4
  <2>9. CleanerFits'
    BY <2>1, CleanerStays
  <2>10. TypeOK'
    BY <2>1, <2>4, <2>6 DEF Kept, TypeOK, JobRecord, JobPcs
  <2> QED
    BY <2>1, <2>4, <2>6, <2>7, <2>8, <2>9, <2>10 DEF Kept, OneCommits
<1> QED
  BY <1>4, <1>5, <1>6, <1>7, <1>8, <1>9, <1>10 DEF JobStep

-----------------------------------------------------------------------------
(***************************************************************************)
(* The cleanup.                                                            *)
(***************************************************************************)

\* A step of the cleanup that changes no table and no bucket.
LEMMA CleanerMoves ==
  ASSUME Kept, CleanerFits', faults' \in 0 .. MaxFaults,
         cleaner'.pc \in {"idle", "intents", "rows", "object", "photo", "intent"},
         UNCHANGED <<intents, objects, photos>>, UNCHANGED cleanUnchanged
  PROVE  Kept'
<1>1. UNCHANGED <<now, requested, intents, objects, photos, public, avatar, evidence, jobs, request>>
  BY DEF cleanUnchanged
<1>2. TypeOK'
  BY <1>1 DEF Kept, TypeOK
<1>3. \A r \in Requests : RequestFits(r)'
  BY <1>1 DEF Kept, RequestFits, Fits, Usable, Used
<1>4. \A i \in DOMAIN jobs' : JobFits(i)'
  BY <1>1 DEF Kept, JobFits, Used
<1>5. \A i \in DOMAIN photos' : PhotoFits(i)'
  BY <1>1 DEF Kept, PhotoFits, Used
<1>6. \A i \in evidence' \cap DisputeEvidence : EvidenceFits(i)'
  BY <1>1 DEF Kept, EvidenceFits
<1> QED
  BY <1>1, <1>2, <1>3, <1>4, <1>5, <1>6 DEF Kept, OneCommits

\* Between two runs the cleanup has nothing in hand.
LEMMA NoCleanupFits ==
  ASSUME Kept, now' = now, requested' = requested, cleaner' = NoCleanup
  PROVE  CleanerFits' /\ cleaner'.pc = "idle"
BY Elements DEF Kept, CleanerFits, NoCleanup, CleanerFields

\* The run goes on with its next intent.
LEMMA CleanNextFits ==
  ASSUME Kept, cleaner.pc \in {"object", "photo", "intent"}, CleanNext,
         now' = now, requested' = requested,
         \A i : RowFits(i) /\ cleaner'.rows = cleaner.rows /\ cleaner'.now = cleaner.now => RowFits(i)',
         DOMAIN intents' \subseteq DOMAIN intents
  PROVE  CleanerFits' /\ cleaner'.pc = "rows"
<1>1. CleanerFits
  BY DEF Kept
<1>2. /\ DOMAIN cleaner' = CleanerFields /\ cleaner'.pc = "rows" /\ cleaner'.now = cleaner.now
      /\ cleaner'.old = cleaner.old /\ cleaner'.rows = cleaner.rows /\ cleaner'.todo = cleaner.todo
  BY <1>1 DEF CleanerFits, CleanerFields, CleanNext
<1>3. \A i \in DOMAIN cleaner'.rows : RowFits(i)'
  BY <1>1, <1>2 DEF CleanerFits
<1> QED
  BY <1>1, <1>2, <1>3 DEF CleanerFits

\* The run goes on with the intent in hand.
LEMMA CleanGotoFits ==
  ASSUME Kept, cleaner.pc \in {"object", "photo"}, NEW pc \in {"photo", "intent"}, CleanGoto(pc),
         UNCHANGED <<now, requested, intents>>,
         Passed(cleaner.at) => Passed(cleaner.at)'
  PROVE  CleanerFits' /\ cleaner'.pc = pc
<1>1. CleanerFits
  BY DEF Kept
<1>2. /\ DOMAIN cleaner' = CleanerFields /\ cleaner'.pc = pc /\ cleaner'.now = cleaner.now
      /\ cleaner'.old = cleaner.old /\ cleaner'.rows = cleaner.rows /\ cleaner'.todo = cleaner.todo
      /\ cleaner'.at = cleaner.at
  BY <1>1 DEF CleanerFits, CleanerFields, CleanGoto
<1>3. \A i \in DOMAIN cleaner'.rows : RowFits(i)'
  BY <1>1, <1>2 DEF CleanerFits, RowFits
<1>4. Passed(cleaner.at)'
  BY <1>1 DEF CleanerFits
<1> QED
  BY <1>1, <1>2, <1>3, <1>4 DEF CleanerFits

\* What the cleanup reads, and what it decides.
LEMMA CleanerReads ==
  ASSUME Kept, ListObjects \/ ListIntents \/ CleanCrash \/ CleanFails
                 \/ \E i \in cleaner.todo : Decide(i)
  PROVE  Kept'
<1>0. /\ CleanerFits /\ faults \in 0 .. MaxFaults /\ MaxFaults \in Nat
      /\ cleaner.pc \in {"idle", "intents", "rows", "object", "photo", "intent"}
      /\ now \in Nat /\ Grace \in Nat /\ Retention \in Nat
  BY Elements, UploadAssumption DEF Kept, TypeOK
<1>1. CASE ListObjects
  <2>1. /\ DOMAIN cleaner' = CleanerFields /\ cleaner'.pc = "intents" /\ cleaner'.now = now
        /\ cleaner'.old \subseteq DOMAIN objects
    BY <1>1 DEF ListObjects, NoCleanup, CleanerFields
  <2>2. now' = now /\ requested' = requested
    BY <1>1 DEF ListObjects, cleanUnchanged
  <2>3. CleanerFits'
    BY <1>0, <2>1, <2>2, Elements DEF Kept, CleanerFits
  <2> QED
    BY <1>0, <1>1, <2>1, <2>3, CleanerMoves DEF ListObjects
<1>2. CASE ListIntents
  <2>1. /\ DOMAIN cleaner' = CleanerFields /\ cleaner'.pc = "rows" /\ cleaner'.now = cleaner.now
        /\ cleaner'.old = cleaner.old /\ cleaner'.todo = Swept
        /\ DOMAIN cleaner'.rows = Swept /\ \A i \in Swept : cleaner'.rows[i] = intents[i]
    BY <1>0, <1>2 DEF ListIntents, CleanerFits, CleanerFields, Restrict
  <2>2. now' = now /\ requested' = requested /\ intents' = intents
    BY <1>2 DEF ListIntents, cleanUnchanged
  <2>3. \A i \in Swept : RowFits(i)'
    BY <2>1, <2>2 DEF RowFits
  <2>4. Swept \subseteq requested
          /\ \A i \in DOMAIN intents : i \in ItemPhotos \cup DisputeEvidence => i \in Swept
    BY Elements DEF Kept, Swept
  <2>5. CleanerFits'
    BY <1>0, <2>1, <2>2, <2>3, <2>4 DEF CleanerFits
  <2> QED
    BY <1>0, <1>2, <2>1, <2>5, CleanerMoves DEF ListIntents
<1>3. CASE CleanCrash
  <2>1. now' = now /\ requested' = requested /\ cleaner' = NoCleanup /\ faults' \in 0 .. MaxFaults
    BY <1>0, <1>3 DEF CleanCrash, cleanUnchanged, Fault
  <2> QED
    BY <1>3, <2>1, NoCleanupFits, CleanerMoves DEF CleanCrash
<1>4. CASE CleanFails
  <2>1. /\ now' = now /\ requested' = requested /\ intents' = intents /\ CleanNext
        /\ faults' \in 0 .. MaxFaults /\ cleaner.pc \in {"object", "photo", "intent"}
    BY <1>0, <1>4 DEF CleanFails, cleanUnchanged, Fault
  <2>2. \A i : RowFits(i) /\ cleaner'.rows = cleaner.rows /\ cleaner'.now = cleaner.now => RowFits(i)'
    BY <2>1 DEF RowFits
  <2>3. CleanerFits' /\ cleaner'.pc = "rows"
    BY <2>1, <2>2, CleanNextFits
  <2> QED
    BY <1>4, <2>1, <2>3, CleanerMoves DEF CleanFails
<1>5. ASSUME NEW i \in cleaner.todo, Decide(i) PROVE Kept'
  <2>1. /\ cleaner.pc = "rows" /\ now' = now /\ requested' = requested /\ intents' = intents
        /\ photos' = photos /\ faults' \in 0 .. MaxFaults
    BY <1>0, <1>5 DEF Decide, cleanUnchanged
  <2>2. i \in DOMAIN cleaner.rows /\ RowFits(i) /\ i \in requested
    BY <1>0, <2>1 DEF CleanerFits
  <2>3. ASSUME IsRejected(i) \/ IsExpired(i) PROVE Passed(i)
    <3> SUFFICES ASSUME i \in DOMAIN intents PROVE Passed(i)
      BY DEF Passed
    <3>1. /\ cleaner.rows[i].expiresAt = intents[i].expiresAt
          /\ cleaner.rows[i].confirmedAt \in {Never, intents[i].confirmedAt}
          /\ cleaner.rows[i].confirmedAt = Never /\ intents[i].expiresAt + Grace <= cleaner.now
             => intents[i].confirmedAt = Never
      BY <2>2 DEF RowFits
    <3>2. /\ intents[i].expiresAt \in Nat /\ intents[i].confirmedAt \in Nat \cup {Never}
          /\ cleaner.now \in Nat /\ cleaner.now <= now
      BY <1>0, Elements DEF Kept, CleanerFits
    <3>3. CASE IsRejected(i)
      <4>1. i \in ItemPhotos /\ intents[i].confirmedAt # Never
            /\ intents[i].confirmedAt <= cleaner.now - Retention
        BY <3>1, <3>3 DEF IsRejected
      <4>2. intents[i].confirmedAt \in Nat
        BY <3>2, <4>1
      <4>3. intents[i].confirmedAt + Retention <= now
        BY <1>0, <3>2, <4>1, <4>2
      <4> QED
        BY <4>1, <4>3 DEF Passed
    <3>4. CASE IsExpired(i)
      <4>1. intents[i].expiresAt <= cleaner.now - Grace
        BY <3>1, <3>4 DEF IsExpired
      <4>2. intents[i].expiresAt + Grace <= cleaner.now /\ intents[i].expiresAt + Grace <= now
        BY <1>0, <3>2, <4>1
      <4>3. CASE cleaner.rows[i].confirmedAt = Never
        BY <3>1, <4>2, <4>3 DEF Passed
      <4>4. CASE cleaner.rows[i].confirmedAt # Never
        <5>1. intents[i].confirmedAt # Never
          BY <3>1, <4>4
        <5>2. i \notin DisputeEvidence /\ (i \notin DOMAIN photos \/ photos[i] = "published")
          BY <3>4, <4>4 DEF IsExpired
        <5> QED
          BY <5>1, <5>2 DEF Passed
      <4> QED
        BY <4>3, <4>4
    <3> QED
      BY <2>3, <3>3, <3>4
  <2>4. /\ DOMAIN cleaner' = CleanerFields /\ cleaner'.now = cleaner.now
        /\ cleaner'.old = cleaner.old /\ cleaner'.rows = cleaner.rows
        /\ cleaner'.todo = cleaner.todo \ {i}
        /\ \/ cleaner'.pc = "rows"
           \/ cleaner'.pc = "object" /\ cleaner'.at = i /\ (IsRejected(i) \/ IsExpired(i))
    <3>1. DOMAIN cleaner = CleanerFields
      BY <1>0 DEF CleanerFits
    <3>2. CASE IsRejected(i) \/ IsExpired(i)
      <4>1. cleaner' = [cleaner EXCEPT !.todo = @ \ {i}, !.pc = "object", !.at = i,
                                       !.rejected = IsRejected(i)]
        BY <1>5, <3>2 DEF Decide
      <4> QED
        BY <3>1, <3>2, <4>1 DEF CleanerFields
    <3>3. CASE ~(IsRejected(i) \/ IsExpired(i))
      <4>1. cleaner' = [cleaner EXCEPT !.todo = @ \ {i}]
        BY <1>5, <3>3 DEF Decide
      <4> QED
        BY <2>1, <3>1, <4>1 DEF CleanerFields
    <3> QED
      BY <3>2, <3>3
  <2>5. \A k : (RowFits(k) => RowFits(k)') /\ (Passed(k) => Passed(k)')
    BY <2>1, <2>4 DEF RowFits, Passed
  <2>6. cleaner'.pc = "object" => cleaner'.at \in requested /\ Passed(cleaner.at)'
    <3> SUFFICES ASSUME cleaner'.pc = "object" PROVE cleaner'.at \in requested /\ Passed(cleaner.at)'
      OBVIOUS
    <3>1. cleaner'.at = i /\ Passed(i)'
      BY <2>3, <2>4, <2>5
    <3> QED
      BY <2>2, <2>4, <3>1 DEF Passed
  <2>7. CleanerFits'
    <3>1. \A k \in DOMAIN cleaner'.rows : RowFits(k)'
      BY <1>0, <2>1, <2>4, <2>5 DEF CleanerFits
    <3> QED
      BY <1>0, <2>1, <2>4, <2>6, <3>1 DEF CleanerFits
  <2> QED
    BY <1>5, <2>1, <2>4, <2>7, CleanerMoves DEF Decide
<1> QED
  BY <1>1, <1>2, <1>3, <1>4, <1>5

\* The objects a run removes: that of the intent in hand, or those of no intent.
LEMMA CleanerRemoves ==
  ASSUME Kept, CleanObject \/ CleanOrphans
  PROVE  Kept'
<1>1. PICK S : S = IF CleanObject THEN {cleaner.at} ELSE Orphans
  OBVIOUS
<1>2. CleanerFits
  BY DEF Kept
<1>3. UNCHANGED <<now, requested, intents, photos, public, avatar, evidence, jobs, request, faults>>
  BY DEF CleanObject, CleanOrphans, cleanUnchanged
<1>4. /\ DOMAIN objects' = DOMAIN objects \ S
      /\ \A i \in DOMAIN objects' : objects'[i] = objects[i]
  BY <1>1 DEF CleanObject, CleanOrphans, Without, Restrict
<1>5. ASSUME NEW i \in S, i \in ItemPhotos \cup DisputeEvidence PROVE Passed(i)
  <2>1. CASE CleanObject
    BY <1>1, <1>2, <1>5, <2>1 DEF CleanObject, CleanerFits
  <2>2. CASE ~CleanObject
    <3>1. cleaner.pc = "rows" /\ i \in cleaner.old \ DOMAIN cleaner.rows
      BY <1>1, <1>5, <2>2 DEF CleanOrphans, Orphans
    <3> QED
      BY <1>2, <1>5, <3>1 DEF CleanerFits, Passed
  <2> QED
    BY <2>1, <2>2
<1>6. CleanerFits' /\ cleaner'.pc \in {"idle", "photo", "intent"}
  <2>1. CASE CleanObject
    <3>1. PICK pc \in {"photo", "intent"} : CleanGoto(pc)
      BY <2>1 DEF CleanObject
    <3>2. Passed(cleaner.at) => Passed(cleaner.at)'
      <4>1. cleaner'.at = cleaner.at
        BY <1>2, <3>1 DEF CleanGoto, CleanerFits, CleanerFields
      <4> QED
        BY <1>3, <4>1 DEF Passed
    <3> QED
      BY <1>3, <2>1, <3>1, <3>2, CleanGotoFits DEF CleanObject
  <2>2. CASE CleanOrphans
    BY <1>3, <2>2, NoCleanupFits DEF CleanOrphans
  <2> QED
    BY <2>1, <2>2
<1>7. /\ \A i \in DOMAIN objects' : objects'[i] \in Instants
      /\ DOMAIN objects' \subseteq requested'
      /\ \A r \in Requests : UNCHANGED request[r] => RequestFits(r)'
      /\ \A i \in DOMAIN photos : UNCHANGED photos[i] => PhotoFits(i)'
      /\ \A i \in evidence' \cap DisputeEvidence : EvidenceFits(i)'
  BY <1>3, <1>4, <1>5, RemovalKeeps
<1>8. \A r \in Requests : RequestFits(r)'
  BY <1>3, <1>7
<1>9. \A i \in DOMAIN jobs' : JobFits(i)'
  BY <1>3 DEF Kept, JobFits, Used
<1>10. \A i \in DOMAIN photos' : PhotoFits(i)'
  BY <1>3, <1>7
<1>11. TypeOK'
  BY <1>3, <1>6, <1>7 DEF Kept, TypeOK
<1> QED
  BY <1>3, <1>6, <1>7, <1>8, <1>9, <1>10, <1>11 DEF Kept, OneCommits

\* A photo due for rejection is removed unless it was published meanwhile.
LEMMA CleanPhotoKeeps ==
  ASSUME Kept, CleanPhoto
  PROVE  Kept'
<1>1. /\ cleaner.pc = "photo" /\ CleanGoto("intent")
      /\ UNCHANGED <<now, requested, intents, objects, public, avatar, evidence, jobs, request, faults>>
  BY DEF CleanPhoto, cleanUnchanged
<1>2. /\ DOMAIN photos' \subseteq DOMAIN photos
      /\ \A i \in DOMAIN photos' : photos'[i] = photos[i]
      /\ \A i \in DOMAIN photos : photos[i] = "published" => i \in DOMAIN photos'
  BY DEF CleanPhoto, Without, Restrict
<1>3. ASSUME NEW i, Passed(i) PROVE Passed(i)'
  BY <1>1, <1>2, <1>3 DEF Passed
<1>4. cleaner'.at = cleaner.at
  BY <1>1 DEF Kept, CleanGoto, CleanerFits, CleanerFields
<1>5. Passed(cleaner.at) => Passed(cleaner.at)'
  <2>1. PICK i : i = cleaner.at
    OBVIOUS
  <2> QED
    BY <1>3, <1>4, <2>1 DEF Passed
<1>6. CleanerFits' /\ cleaner'.pc = "intent"
  BY <1>1, <1>5, CleanGotoFits
<1>7. \A r \in Requests : RequestFits(r)'
  BY <1>1 DEF Kept, RequestFits, Fits, Usable, Used
<1>8. \A i \in DOMAIN jobs' : JobFits(i)'
  BY <1>1, <1>2 DEF Kept, JobFits, Used
<1>9. \A i \in DOMAIN photos' : PhotoFits(i)' /\ photos'[i] \in {"bare", "published"}
                                  /\ i \in ItemPhotos
  BY <1>1, <1>2, Elements DEF Kept, PhotoFits, Used
<1>10. \A i \in evidence' \cap DisputeEvidence : EvidenceFits(i)'
  BY <1>1 DEF Kept, EvidenceFits
<1>11. TypeOK'
  BY <1>1, <1>6, <1>9 DEF Kept, TypeOK
<1> QED
  BY <1>1, <1>6, <1>7, <1>8, <1>9, <1>10, <1>11 DEF Kept, OneCommits

\* Last, the intent is removed: no transaction holds it, and no evidence is reached by it.
LEMMA CleanIntentKeeps ==
  ASSUME Kept, CleanIntent
  PROVE  Kept'
<1>1. PICK j : j = cleaner.at
  OBVIOUS
<1>2. /\ cleaner.pc = "intent" /\ CleanNext
      /\ UNCHANGED <<now, requested, objects, photos, public, avatar, evidence, jobs, request, faults>>
  BY DEF CleanIntent, cleanUnchanged
<1>3. /\ DOMAIN intents' = DOMAIN intents \ {j}
      /\ \A i \in DOMAIN intents' : intents'[i] = intents[i]
  BY <1>1 DEF CleanIntent, Without, Restrict
<1>4. Passed(j)
  BY <1>1, <1>2 DEF Kept, CleanerFits
<1>5. \A i : (Used(i) => Used(i)') /\ (Usable(i)' => Usable(i))
  BY <1>2, <1>3 DEF Used, Usable
<1>6. ASSUME NEW r \in Requests PROVE RequestFits(r)'
  <2>1. RequestFits(r)
    BY DEF Kept
  <2>2. request[r].pc = "commit" => request[r].intent # j
    BY <1>4, <2>1, NotPassed DEF RequestFits, Fits
  <2> QED
    BY <1>2, <1>3, <1>5, <2>1, <2>2 DEF RequestFits, Fits
<1>7. \A i \in DOMAIN jobs' : JobFits(i)'
  BY <1>2, <1>5 DEF Kept, JobFits
<1>8. \A i \in DOMAIN photos' : PhotoFits(i)'
  BY <1>2, <1>3, <1>5 DEF Kept, PhotoFits
<1>9. ASSUME NEW i \in evidence' \cap DisputeEvidence PROVE EvidenceFits(i)'
  <2>1. EvidenceFits(i) /\ i \notin ItemPhotos /\ i \notin DOMAIN photos
    BY <1>2, <1>9, Elements, Sorts DEF Kept
  <2>2. i # j
    BY <1>4, <2>1 DEF EvidenceFits, Passed
  <2> QED
    BY <1>2, <1>3, <2>1, <2>2 DEF EvidenceFits
<1>10. CleanerFits' /\ cleaner'.pc = "rows"
  <2>1. \A i : RowFits(i) /\ cleaner'.rows = cleaner.rows /\ cleaner'.now = cleaner.now => RowFits(i)'
    BY <1>3 DEF RowFits
  <2> QED
    BY <1>2, <1>3, <2>1, CleanNextFits
<1>11. TypeOK'
  BY <1>2, <1>3, <1>10 DEF Kept, TypeOK
<1> QED
  BY <1>2, <1>6, <1>7, <1>8, <1>9, <1>10, <1>11 DEF Kept, OneCommits

-----------------------------------------------------------------------------
\* Time passes for requests and runs that have just begun.
LEMMA TickKeeps ==
  ASSUME Kept, Tick
  PROVE  Kept'
<1>1. /\ now' = now + 1 /\ now \in Nat /\ now < MaxClock /\ now' \in Instants
      /\ UNCHANGED <<requested, intents, objects, photos, public, avatar, evidence, jobs, request,
                     cleaner, faults>>
  BY Elements, Sorts DEF Kept, Tick, Instants
<1>2. \A i \in DOMAIN intents :
        intents[i].expiresAt \in Nat /\ intents[i].confirmedAt \in Nat \cup {Never}
  BY Elements DEF Kept
<1>3. Grace \in Nat /\ Retention \in Nat
  BY Sorts
<1>4. ASSUME NEW i PROVE (Usable(i)' => Usable(i)) /\ (Used(i) => Used(i)')
  BY <1>1, <1>2 DEF Usable, Used
<1>5. ASSUME NEW i, Passed(i) PROVE Passed(i)'
  <2> SUFFICES ASSUME i \in DOMAIN intents PROVE Passed(i)'
    BY <1>1 DEF Passed
  <2>1. /\ intents[i].expiresAt + Grace <= now => intents[i].expiresAt + Grace <= now + 1
        /\ intents[i].confirmedAt # Never /\ intents[i].confirmedAt + Retention <= now
           => intents[i].confirmedAt + Retention <= now + 1
    BY <1>1, <1>2, <1>3
  <2> QED
    BY <1>1, <1>5, <2>1 DEF Passed
<1>6. ASSUME NEW r \in Requests PROVE RequestFits(r)'
  <2>1. RequestFits(r) /\ request[r].since \in Nat
    BY Elements DEF Kept
  <2>2. request[r].pc # "idle" => request[r].since = now
    BY DEF Tick
  <2>3. request[r].pc # "idle" => request[r].since <= now + 1 /\ now + 1 <= request[r].since + 1
    BY <1>1, <2>1, <2>2
  <2> QED
    BY <1>1, <1>4, <2>1, <2>3 DEF RequestFits, Fits
<1>7. \A i \in DOMAIN jobs' : JobFits(i)'
  BY <1>1, <1>4 DEF Kept, JobFits
<1>8. ASSUME NEW i \in DOMAIN photos' PROVE PhotoFits(i)'
  <2>1. PhotoFits(i)
    BY <1>1, <1>8 DEF Kept
  <2>2. i \in DOMAIN intents /\ now' < intents[i].confirmedAt + Retention
          => now < intents[i].confirmedAt + Retention
    BY <1>1, <1>2, <1>3, <2>1 DEF PhotoFits, Used
  <2> QED
    BY <1>1, <1>4, <2>1, <2>2 DEF PhotoFits
<1>9. \A i \in evidence' \cap DisputeEvidence : EvidenceFits(i)'
  BY <1>1 DEF Kept, EvidenceFits
<1>10. CleanerFits'
  <2>1. CleanerFits
    BY DEF Kept
  <2>2. \A i : RowFits(i) => RowFits(i)'
    BY <1>1 DEF RowFits
  <2>3. cleaner.pc \in {"object", "photo", "intent"} => Passed(cleaner.at)'
    <3>1. PICK i : i = cleaner.at
      OBVIOUS
    <3>2. Passed(i)' => Passed(cleaner.at)'
      BY <1>1, <3>1 DEF Passed
    <3> QED
      BY <1>5, <2>1, <3>1, <3>2 DEF CleanerFits
  <2>4. cleaner.now \in Nat /\ cleaner.now <= now + 1
    BY <1>1, <2>1 DEF CleanerFits
  <2> QED
    BY <1>1, <2>1, <2>2, <2>3, <2>4 DEF CleanerFits
<1>11. TypeOK'
  BY <1>1 DEF Kept, TypeOK
<1> QED
  BY <1>1, <1>6, <1>7, <1>8, <1>9, <1>10, <1>11 DEF Kept, OneCommits

\* Nothing happens.
LEMMA StutterKeeps ==
  ASSUME Kept, UNCHANGED vars
  PROVE  Kept'
<1>2. faults' \in 0 .. MaxFaults /\ cleaner'.pc \in {"idle", "intents", "rows", "object", "photo", "intent"}
  BY DEF Kept, TypeOK, vars
<1>3. CleanerFits'
  BY CleanerStays DEF vars
<1> QED
  BY <1>2, <1>3, CleanerMoves DEF vars, cleanUnchanged

\* Every step keeps the files that are needed.
LEMMA StepKept == Kept /\ [Next]_vars => Kept'
<1> SUFFICES ASSUME Kept, [Next]_vars PROVE Kept'
  OBVIOUS
<1>1. ASSUME NEW i \in Intents, RequestUpload(i) \/ Upload(i) PROVE Kept'
  BY <1>1, RequestUploadKeeps, UploadKeeps
<1>2. ASSUME NEW r \in Requests, RequestStep(r) \/ RequestFails(r) \/ BeginPhoto(r) \/ BeginAvatar(r)
                                   \/ BeginEvidence(r)
      PROVE  Kept'
  BY <1>2, RequestsGoOn, CommitKeeps, QueueKeeps, PutAvatarKeeps, UseAvatarKeeps, TidyKeeps,
     SanitizeKeeps, AttachKeeps DEF RequestStep
<1>3. ASSUME NEW i \in ItemPhotos, JobStep(i) \/ JobFails(i) \/ JobStalls(i) PROVE Kept'
  BY <1>3, JobsKeep
<1>4. CASE CleanStep \/ CleanFails \/ CleanCrash
  BY <1>4, CleanerReads, CleanerRemoves, CleanPhotoKeeps, CleanIntentKeeps DEF CleanStep
<1>5. CASE Tick \/ UNCHANGED vars
  BY <1>5, TickKeeps, StutterKeeps
<1> QED
  BY <1>1, <1>2, <1>3, <1>4, <1>5 DEF Next

\* Uploads stay in the state the handlers, the worker and the cleanup rely on.
THEOREM AlwaysKept == Spec => []Kept
BY InitKept, StepKept, PTL DEF Spec

\* Whatever overlaps, fails, stalls or is decided on rows read before, cleanup and worker take
\* no source of a photo that is still to be processed, nothing that a URL points to, and no
\* evidence of a dispute.
THEOREM FilesAreKept == Spec => []FilesOutliveTheirUse
<1>1. Kept => FilesOutliveTheirUse
  BY DEF Kept, PhotoFits, EvidenceFits, FilesOutliveTheirUse, SourcesAreKept, NoDeadUrls,
         DisputesKeepTheirEvidence
<1> QED
  BY <1>1, AlwaysKept, PTL

-----------------------------------------------------------------------------
(***************************************************************************)
(* Listings.                                                               *)
(***************************************************************************)

\* What a stored booking consists of.
BookingFields == {"status", "paid", "stay", "source", "terms", "total"}

\* The terms are the snapshot of an approved listing, for a scenario that allows its deposit.
Backed(source, stay, terms) ==
  /\ source \in approved /\ stay \in Stays /\ PeriodAllowed(stay, Today)
  /\ \E s \in Scenarios : /\ DepositAllowed(DepositOf(source.offer), s)
                          /\ terms = Snapshot(source.offer, stay, Borrower, Owner, s)

\* What a call carries from one await to the next.
Carries(w) ==
  /\ w.pc = "insert" => w.offer \in Offers
  /\ w.pc \in {"check", "change"} =>
       w \in [pc : {"check", "change"}, change : {"edit", "photo", "hide"}, offer : Offers]
  /\ w.pc = "moderate" => w.verdict \in {"APPROVED", "REJECTED"}
  /\ w.pc = "decide" => /\ w.report \in Reports /\ w.decision \in {"dismiss", "act"}
                        /\ w.seen.status = "OPEN"
  /\ w.pc \in {"book", "store"} =>
       w.booking \in Bookings /\ w.stay \in Stays /\ PeriodAllowed(w.stay, Today)
  /\ w.pc = "store" => Backed(w.source, w.stay, w.terms)
  /\ w.pc = "close" => w.keep \in BOOLEAN

\* A booking holds what its request has read.
Booked(e) ==
  e.status # "NONE" =>
    /\ DOMAIN e = BookingFields
    /\ Backed(e.source, e.stay, e.terms) /\ e.total = e.terms.money.total

\* The finalizer, with and without an account it has read.
Sweep == [left : SUBSET Users, user : Users \cup {NoUser}]
SweepRead == [left : SUBSET Users, user : Users \cup {NoUser}, seen : Account]

\* The inductive invariant of Listings.
Sound ==
  /\ ListingsTypeOK
  /\ listing.status = "APPROVED" => listing \in approved
  /\ \A c \in Calls : Carries(call[c])
  /\ \A b \in Bookings : Booked(booking[b])
  /\ ReportDecidedOnce
  /\ sweep \in Sweep \cup SweepRead

-----------------------------------------------------------------------------
\* Nothing is listed, asked for or reported at the start.
LEMMA InitSound == ListingsInit => Sound
<1> SUFFICES ASSUME ListingsInit PROVE Sound
  OBVIOUS
<1>1. listing \in Listing /\ listing.status = "NONE"
  <2>1. PICK o \in Offers : listing = [status |-> "NONE", revision |-> 0, offer |-> o]
    BY ListingsAssumption DEF ListingsInit
  <2> QED
    BY <2>1, ListingsAssumption DEF Listing, ListingStatuses
<1>2. \A b \in Bookings : booking[b].status = "NONE"
  BY DEF ListingsInit, NoBooking
<1>3. sweep \in Sweep /\ sweep.left = {}
  BY DEF ListingsInit, Sweep, NotSweeping
<1>4. \A c \in Calls : Carries(call[c])
  BY DEF ListingsInit, Carries, Idle
<1>5. ListingsTypeOK
  <2>1. account \in [Users -> Account] /\ failures \in 0 .. MaxFailures /\ switches \in 0 .. MaxSwitches
    BY ListingsAssumption DEF ListingsInit, Account
  <2>2. report \in [Reports -> [status : {"NONE", "OPEN", "DISMISSED", "ACTIONED"},
                                target : Targets]]
    BY DEF ListingsInit, Targets
  <2>3. decisions \in [Reports -> Seq({"dismiss", "act"})]
    BY DEF ListingsInit
  <2> QED
    BY <1>1, <1>2, <1>3, <2>1, <2>2, <2>3 DEF ListingsTypeOK, ListingsInit
<1>6. ReportDecidedOnce
  BY DEF ListingsInit, ReportDecidedOnce
<1> QED
  BY <1>1, <1>2, <1>3, <1>4, <1>5, <1>6 DEF Sound, Booked

\* What is approved stays so.
LEMMA BackedStays ==
  ASSUME NEW source, NEW stay, NEW terms, Backed(source, stay, terms), approved \subseteq approved'
  PROVE  Backed(source, stay, terms)'
BY DEF Backed

\* The other calls go on carrying what they carried.
LEMMA CallsStay ==
  ASSUME Sound, NEW c \in Calls, NEW w, GoOn(c, w), Carries(w)', approved \subseteq approved'
  PROVE  DOMAIN call' = Calls /\ \A d \in Calls : Carries(call[d])'
<1>1. DOMAIN call' = Calls
  BY DEF GoOn, Sound, ListingsTypeOK
<1>2. ASSUME NEW d \in Calls PROVE Carries(call[d])'
  <2>1. PICK v : v = call[d]
    OBVIOUS
  <2>2. call'[d] = IF d = c THEN w ELSE v
    BY <2>1 DEF GoOn, Sound, ListingsTypeOK
  <2>3. Carries(v)
    BY <2>1 DEF Sound
  <2>4. Carries(v)'
    BY <2>3, BackedStays DEF Carries
  <2> QED
    BY <2>2, <2>4
<1> QED
  BY <1>1, <1>2

\* So do the bookings.
LEMMA BookingsStay ==
  ASSUME Sound, booking' = booking, approved \subseteq approved'
  PROVE  \A b \in Bookings : Booked(booking[b])'
<1> SUFFICES ASSUME NEW b \in Bookings PROVE Booked(booking[b])'
  OBVIOUS
<1>1. PICK e : e = booking[b]
  OBVIOUS
<1>2. Booked(e)
  BY <1>1 DEF Sound
<1>3. Booked(e)'
  BY <1>2, BackedStays DEF Booked
<1> QED
  BY <1>1, <1>3

\* A call that has ended carries nothing.
LEMMA IdleCarries == Carries(Idle)'
BY DEF Carries, Idle

\* A step of a call that has read, and written nothing.
LEMMA ReadKeeps ==
  ASSUME Sound, NEW c \in Calls, NEW w, GoOn(c, w), Carries(w)',
         UNCHANGED <<listing, booking, approved, setting, people, cases>>
  PROVE  Sound'
<1>1. UNCHANGED <<listing, booking, approved, scenario, listable, switches, account, sweep, failures,
                  report, decisions>>
  BY DEF setting, people, cases
<1>2. DOMAIN call' = Calls /\ \A d \in Calls : Carries(call[d])'
  BY <1>1, CallsStay
<1>3. \A b \in Bookings : Booked(booking[b])'
  BY <1>1, BookingsStay
<1>4. ListingsTypeOK'
  BY <1>1, <1>2 DEF Sound, ListingsTypeOK
<1>5. ReportDecidedOnce'
  BY <1>1 DEF Sound, ReportDecidedOnce
<1> QED
  BY <1>1, <1>2, <1>3, <1>4, <1>5 DEF Sound

\* A call that ends with a write to the listing, the accounts or the reports.
LEMMA WriteKeeps ==
  ASSUME Sound, NEW c \in Calls, Answer(c), approved \subseteq approved', approved' \subseteq Listing,
         UNCHANGED <<booking, setting, sweep, failures>>,
         listing' \in Listing, listing'.status = "APPROVED" => listing' \in approved',
         account' \in [Users -> Account],
         report' \in [Reports -> [status : {"NONE", "OPEN", "DISMISSED", "ACTIONED"},
                                  target : Targets]],
         decisions' \in [Reports -> Seq({"dismiss", "act"})], ReportDecidedOnce'
  PROVE  Sound'
<1>1. UNCHANGED <<booking, scenario, listable, switches, sweep, failures>>
  BY DEF setting
<1>2. DOMAIN call' = Calls /\ \A d \in Calls : Carries(call[d])'
  BY CallsStay, IdleCarries DEF Answer
<1>3. \A b \in Bookings : Booked(booking[b])'
  BY <1>1, BookingsStay
<1>4. ListingsTypeOK'
  BY <1>1, <1>2 DEF Sound, ListingsTypeOK
<1> QED
  BY <1>1, <1>2, <1>3, <1>4 DEF Sound

-----------------------------------------------------------------------------
\* The owner's calls: a change leaves a listing that nobody offers.
LEMMA OwnerKeeps ==
  ASSUME Sound, NEW c \in Calls, OwnerCall(c)
  PROVE  Sound'
<1>1. PICK w : w = call[c]
  OBVIOUS
<1>2. Carries(w)
  BY <1>1 DEF Sound
<1>3. ASSUME NEW o \in Offers, BeginListing(c, o) PROVE Sound'
  <2>1. PICK v : v = [pc |-> "insert", offer |-> o]
    OBVIOUS
  <2>2. Carries(v)'
    BY <2>1 DEF Carries
  <2> QED
    BY <1>3, <2>1, <2>2, ReadKeeps DEF BeginListing
<1>4. ASSUME NEW o \in Offers, NEW change \in {"edit", "photo", "hide"}, BeginChange(c, change, o)
      PROVE  Sound'
  <2>1. PICK v : v = [pc |-> "check", change |-> change, offer |-> o]
    OBVIOUS
  <2>2. Carries(v)'
    BY <2>1 DEF Carries
  <2> QED
    BY <1>4, <2>1, <2>2, ReadKeeps DEF BeginChange
<1>5. CASE CheckBookings(c)
  <2>1. PICK v : v = [w EXCEPT !.pc = "change"]
    OBVIOUS
  <2>2. w \in [pc : {"check", "change"}, change : {"edit", "photo", "hide"}, offer : Offers]
    BY <1>1, <1>2, <1>5 DEF Carries, CheckBookings
  <2>3. Carries(v)'
    BY <2>1, <2>2 DEF Carries
  <2>4. GoOn(c, Idle) \/ GoOn(c, v)
    BY <1>1, <1>5, <2>1 DEF CheckBookings, Answer
  <2> QED
    BY <1>5, <2>3, <2>4, ReadKeeps, IdleCarries DEF CheckBookings
<1>6. CASE InsertListing(c) \/ WriteEdit(c) \/ WritePhoto(c) \/ WriteHide(c)
  <2>1. /\ Answer(c)
        /\ UNCHANGED <<booking, approved, scenario, listable, switches, account, sweep, failures,
                       report, decisions>>
    BY <1>6 DEF InsertListing, WriteEdit, WritePhoto, WriteHide, setting, people, cases
  <2>2. listing \in Listing /\ (listing.status = "APPROVED" => listing \in approved)
    BY DEF Sound, ListingsTypeOK
  <2>3. listing' \in Listing /\ (listing' = listing \/ listing'.status # "APPROVED")
    <3>1. CASE InsertListing(c)
      <4>1. w.offer \in Offers
        BY <1>1, <1>2, <3>1 DEF Carries, InsertListing
      <4> QED
        BY <1>1, <2>2, <3>1, <4>1, ListingsAssumption
        DEF InsertListing, Listing, ListingStatuses
    <3>2. CASE WriteEdit(c)
      <4>1. w.offer \in Offers
        BY <1>1, <1>2, <3>2 DEF Carries, WriteEdit
      <4> QED
        BY <1>1, <2>2, <3>2, <4>1, ListingsAssumption DEF WriteEdit, Listing, ListingStatuses
    <3>3. CASE WritePhoto(c) \/ WriteHide(c)
      <4>1. CASE WriteHide(c)
        BY <2>2, <4>1 DEF WriteHide, Listing, ListingStatuses
      <4>2. CASE WritePhoto(c)
        <5>1. PICK n : n = listing.revision + 1
          OBVIOUS
        <5>2. n \in 0 .. MaxRevision
          BY <2>2, <4>2, <5>1, ListingsAssumption DEF WritePhoto, Listing
        <5>3. listing' = [listing EXCEPT !.status = "PENDING", !.revision = n]
          BY <4>2, <5>1 DEF WritePhoto
        <5> QED
          BY <2>2, <5>2, <5>3 DEF Listing, ListingStatuses
      <4> QED
        BY <3>3, <4>1, <4>2
    <3> QED
      BY <1>6, <3>1, <3>2, <3>3
  <2>4. ReportDecidedOnce'
    BY <2>1 DEF Sound, ReportDecidedOnce
  <2>5. /\ account' \in [Users -> Account] /\ approved' \subseteq Listing
        /\ report' \in [Reports -> [status : {"NONE", "OPEN", "DISMISSED", "ACTIONED"},
                                    target : Targets]]
        /\ decisions' \in [Reports -> Seq({"dismiss", "act"})]
    BY <2>1 DEF Sound, ListingsTypeOK
  <2>6. UNCHANGED <<booking, setting, sweep, failures>>
    BY <2>1 DEF setting
  <2> QED
    BY <2>1, <2>2, <2>3, <2>4, <2>5, <2>6, WriteKeeps
<1>7. listing.offer \in Offers
  BY DEF Sound, ListingsTypeOK, Listing
<1> QED
  BY <1>3, <1>4, <1>5, <1>6, <1>7 DEF OwnerCall

\* A decision is taken on the report that was read, and recorded.
LEMMA DecisionKeeps ==
  ASSUME Sound, NEW c \in Calls, CommitDecision(c)
  PROVE  Sound'
<1>1. PICK w : w = call[c]
  OBVIOUS
<1>2. /\ w.pc = "decide" /\ w.report \in Reports /\ w.decision \in {"dismiss", "act"}
      /\ w.seen.status = "OPEN"
  BY <1>1 DEF CommitDecision, Sound, Carries
<1>3. /\ Answer(c) /\ approved' = approved
      /\ UNCHANGED <<booking, setting, sweep, failures>>
  BY DEF CommitDecision
<1>4. /\ listing \in Listing /\ (listing.status = "APPROVED" => listing \in approved)
      /\ account \in [Users -> Account] /\ approved \subseteq Listing
      /\ report \in [Reports -> [status : {"NONE", "OPEN", "DISMISSED", "ACTIONED"},
                                 target : Targets]]
      /\ decisions \in [Reports -> Seq({"dismiss", "act"})] /\ ReportDecidedOnce
  BY DEF Sound, ListingsTypeOK
<1>5. listing' \in Listing /\ (listing' = listing \/ listing'.status # "APPROVED")
  <2>1. listing' = listing \/ listing' = [listing EXCEPT !.status = "HIDDEN"]
    BY <1>1 DEF CommitDecision
  <2> QED
    BY <1>4, <2>1 DEF Listing, ListingStatuses
<1>6. account' \in [Users -> Account]
  <2>1. account' = account \/ \E u : account' = [account EXCEPT ![u].blocked = TRUE]
    BY <1>1 DEF CommitDecision
  <2> QED
    BY <1>4, <2>1 DEF Account
<1>7. CASE UNCHANGED cases
  <2>1. UNCHANGED <<report, decisions>>
    BY <1>7 DEF cases
  <2>2. ReportDecidedOnce'
    BY <1>4, <2>1 DEF ReportDecidedOnce
  <2> QED
    BY <1>3, <1>4, <1>5, <1>6, <2>1, <2>2, WriteKeeps
<1>8. CASE ~UNCHANGED cases
  <2>1. report[w.report] = w.seen /\ RecordDecision(w.report, w.decision)
    BY <1>1, <1>8 DEF CommitDecision
  <2>2. PICK r \in Reports, decision \in {"dismiss", "act"} : r = w.report /\ decision = w.decision
    BY <1>2
  <2>3. decisions[r] = <<>>
    <3>1. report[r].status = "OPEN"
      BY <1>2, <2>1, <2>2
    <3> QED
      BY <1>4, <3>1 DEF ReportDecidedOnce
  <2>4. /\ report' = [report EXCEPT ![r].status = IF decision = "act" THEN "ACTIONED"
                                                                     ELSE "DISMISSED"]
        /\ decisions' = [decisions EXCEPT ![r] = Append(decisions[r], decision)]
    BY <2>1, <2>2 DEF RecordDecision
  <2>5. Append(decisions[r], decision) = <<decision>> /\ <<decision>> \in Seq({"dismiss", "act"})
    BY <2>2, <2>3
  <2>6. /\ report' \in [Reports -> [status : {"NONE", "OPEN", "DISMISSED", "ACTIONED"},
                                    target : Targets]]
        /\ report'[r].status = (IF decision = "act" THEN "ACTIONED" ELSE "DISMISSED")
        /\ \A q \in Reports \ {r} : report'[q] = report[q]
    BY <1>4, <2>2, <2>4
  <2>7. /\ decisions' \in [Reports -> Seq({"dismiss", "act"})] /\ decisions'[r] = <<decision>>
        /\ \A q \in Reports \ {r} : decisions'[q] = decisions[q]
    BY <1>4, <2>2, <2>4, <2>5
  <2>8. ReportDecidedOnce'
    <3> SUFFICES ASSUME NEW q \in Reports
                 PROVE  decisions'[q] = CASE report'[q].status = "DISMISSED" -> <<"dismiss">>
                                          [] report'[q].status = "ACTIONED" -> <<"act">>
                                          [] OTHER -> <<>>
      BY DEF ReportDecidedOnce
    <3>1. CASE q = r
      BY <2>2, <2>6, <2>7, <3>1
    <3>2. CASE q # r
      <4>1. decisions'[q] = decisions[q] /\ report'[q] = report[q]
        BY <2>6, <2>7, <3>2
      <4>2. decisions[q] = CASE report[q].status = "DISMISSED" -> <<"dismiss">>
                             [] report[q].status = "ACTIONED" -> <<"act">>
                             [] OTHER -> <<>>
        BY <1>4 DEF ReportDecidedOnce
      <4> QED
        BY <4>1, <4>2, Zenon
    <3> QED
      BY <3>1, <3>2
  <2> QED
    BY <1>3, <1>4, <1>5, <1>6, <2>6, <2>7, <2>8, WriteKeeps
<1> QED
  BY <1>7, <1>8

\* An approval notes what it approves, whatever that is by then.
LEMMA ModeratorKeeps ==
  ASSUME Sound, NEW c \in Calls, ModeratorCall(c)
  PROVE  Sound'
<1>1. PICK w : w = call[c]
  OBVIOUS
<1>2. Carries(w)
  BY <1>1 DEF Sound
<1>3. ASSUME NEW verdict \in {"APPROVED", "REJECTED"}, BeginModeration(c, verdict) PROVE Sound'
  <2>1. PICK v : v = [pc |-> "moderate", verdict |-> verdict]
    OBVIOUS
  <2>2. Carries(v)'
    BY <2>1 DEF Carries
  <2> QED
    BY <1>3, <2>1, <2>2, ReadKeeps DEF BeginModeration
<1>4. ASSUME NEW u, BeginBlock(c, u) PROVE Sound'
  <2>1. PICK v : v = [pc |-> "block", user |-> u]
    OBVIOUS
  <2>2. Carries(v)'
    BY <2>1 DEF Carries
  <2> QED
    BY <1>4, <2>1, <2>2, ReadKeeps DEF BeginBlock
<1>5. ASSUME NEW r \in Reports, NEW decision \in {"dismiss", "act"}, BeginDecision(c, r, decision)
      PROVE  Sound'
  <2>1. PICK v : v = [pc |-> "decide", report |-> r, decision |-> decision,
                      seen |-> report[r],
                      row |-> IF decision = "act" THEN TargetRow(report[r].target) ELSE <<>>]
    OBVIOUS
  <2>2. v.seen.status = "OPEN"
    BY <1>5, <2>1 DEF BeginDecision
  <2>3. Carries(v)'
    BY <2>1, <2>2 DEF Carries
  <2> QED
    BY <1>5, <2>1, <2>3, ReadKeeps DEF BeginDecision
<1>6. /\ listing \in Listing /\ (listing.status = "APPROVED" => listing \in approved)
      /\ account \in [Users -> Account] /\ approved \subseteq Listing
      /\ report \in [Reports -> [status : {"NONE", "OPEN", "DISMISSED", "ACTIONED"},
                                 target : Targets]]
      /\ decisions \in [Reports -> Seq({"dismiss", "act"})] /\ ReportDecidedOnce
  BY DEF Sound, ListingsTypeOK
<1>7. CASE Moderate(c)
  <2>1. w.verdict \in {"APPROVED", "REJECTED"}
    BY <1>1, <1>2, <1>7 DEF Carries, Moderate
  <2>2. /\ Answer(c) /\ UNCHANGED <<booking, setting, sweep, failures, account, report, decisions>>
        /\ listing' = [listing EXCEPT !.status = w.verdict]
        /\ approved' = IF w.verdict = "APPROVED" THEN approved \cup {listing'} ELSE approved
    BY <1>1, <1>7 DEF Moderate, people, cases
  <2>3. listing' \in Listing /\ listing'.status = w.verdict
    BY <1>6, <2>1, <2>2 DEF Listing, ListingStatuses
  <2>4. /\ approved \subseteq approved' /\ approved' \subseteq Listing
        /\ listing'.status = "APPROVED" => listing' \in approved'
    BY <1>6, <2>2, <2>3
  <2>5. ReportDecidedOnce'
    BY <1>6, <2>2 DEF ReportDecidedOnce
  <2> QED
    BY <1>6, <2>2, <2>3, <2>4, <2>5, WriteKeeps
<1>8. CASE Block(c)
  <2>1. /\ Answer(c) /\ UNCHANGED <<listing, approved, report, decisions>>
        /\ UNCHANGED <<booking, setting, sweep, failures>>
    BY <1>8 DEF Block, cases
  <2>2. account' \in [Users -> Account]
    <3>1. account' = account \/ \E u : account' = [account EXCEPT ![u].blocked = TRUE]
      BY <1>8 DEF Block
    <3> QED
      BY <1>6, <3>1 DEF Account
  <2>3. ReportDecidedOnce'
    BY <1>6, <2>1 DEF ReportDecidedOnce
  <2> QED
    BY <1>6, <2>1, <2>2, <2>3, WriteKeeps
<1> QED
  BY <1>3, <1>4, <1>5, <1>7, <1>8, DecisionKeeps DEF ModeratorCall

\* A booking holds the terms of what its request has read under the listing's lock.
LEMMA BorrowerKeeps ==
  ASSUME Sound, NEW c \in Calls, BorrowerCall(c)
  PROVE  Sound'
<1>1. PICK w : w = call[c]
  OBVIOUS
<1>2. Carries(w)
  BY <1>1 DEF Sound
<1>3. ASSUME NEW b \in Bookings, NEW stay \in Stays, BeginBooking(c, b, stay) PROVE Sound'
  <2>1. PICK v : v = [pc |-> "book", booking |-> b, stay |-> stay]
    OBVIOUS
  <2>2. PeriodAllowed(stay, Today)
    BY <1>3 DEF BeginBooking
  <2>3. Carries(v)'
    BY <2>1, <2>2 DEF Carries
  <2> QED
    BY <1>3, <2>1, <2>3, ReadKeeps DEF BeginBooking
<1>4. CASE ReadListing(c)
  <2>1. w.booking \in Bookings /\ w.stay \in Stays /\ PeriodAllowed(w.stay, Today)
    BY <1>1, <1>2, <1>4 DEF Carries, ReadListing
  <2>2. PICK v : v = [pc |-> "store", booking |-> w.booking, stay |-> w.stay, source |-> listing,
                      terms |-> Snapshot(listing.offer, w.stay, Borrower, Owner, scenario)]
    OBVIOUS
  <2>3. \/ GoOn(c, Idle)
        \/ /\ GoOn(c, v) /\ listing.status = "APPROVED"
           /\ DepositAllowed(DepositOf(listing.offer), scenario)
    BY <1>1, <1>4, <2>2 DEF ReadListing, Answer
  <2>4. approved' = approved /\ scenario \in Scenarios
    BY <1>4 DEF ReadListing, Sound, ListingsTypeOK
  <2>5. CASE GoOn(c, Idle)
    BY <1>4, <2>5, ReadKeeps, IdleCarries DEF ReadListing
  <2>6. CASE ~GoOn(c, Idle)
    <3>1. v.source \in approved /\ v.source = listing
      BY <2>2, <2>3, <2>6 DEF Sound
    <3>2. /\ DepositAllowed(DepositOf(v.source.offer), scenario)
          /\ v.terms = Snapshot(v.source.offer, v.stay, Borrower, Owner, scenario)
          /\ v.stay = w.stay
      BY <2>2, <2>3, <2>6
    <3>3. Backed(v.source, v.stay, v.terms)
      BY <2>1, <2>4, <3>1, <3>2 DEF Backed
    <3>4. Backed(v.source, v.stay, v.terms)'
      BY <2>4, <3>3, BackedStays
    <3>5. v.pc = "store" /\ v.booking \in Bookings /\ v.stay \in Stays /\ PeriodAllowed(v.stay, Today)
      BY <2>1, <2>2
    <3>6. Carries(v)'
      BY <3>4, <3>5 DEF Carries
    <3> QED
      BY <1>4, <2>3, <2>6, <3>6, ReadKeeps DEF ReadListing
  <2> QED
    BY <2>5, <2>6
<1>5. CASE StoreBooking(c)
  <2>1. w.booking \in Bookings /\ Backed(w.source, w.stay, w.terms)
    BY <1>1, <1>2, <1>5 DEF Carries, StoreBooking
  <2>2. /\ Answer(c)
        /\ UNCHANGED <<listing, approved, scenario, listable, switches, account, sweep, failures,
                       report, decisions>>
    BY <1>5 DEF StoreBooking, setting, people, cases
  <2>3. PICK e : e = [status |-> "open", paid |-> FALSE, stay |-> w.stay, source |-> w.source,
                      terms |-> w.terms, total |-> w.terms.money.total]
    OBVIOUS
  <2>4. booking' = booking \/ booking' = [booking EXCEPT ![w.booking] = e]
    BY <1>1, <1>5, <2>3 DEF StoreBooking
  <2>5. Booked(e)'
    <3>1. Backed(w.source, w.stay, w.terms)'
      BY <2>1, <2>2, BackedStays
    <3> QED
      BY <2>3, <3>1 DEF Booked, BookingFields
  <2>6. DOMAIN booking' = Bookings /\ \A b \in Bookings : booking'[b] \in {booking[b], e}
    BY <2>1, <2>4 DEF Sound, ListingsTypeOK
  <2>7. \A b \in Bookings : Booked(booking[b])'
    <3> SUFFICES ASSUME NEW b \in Bookings PROVE Booked(booking[b])'
      OBVIOUS
    <3>1. PICK k : k = booking[b]
      OBVIOUS
    <3>2. Booked(k)
      BY <3>1 DEF Sound
    <3>3. Booked(k)'
      BY <2>2, <3>2, BackedStays DEF Booked
    <3> QED
      BY <2>5, <2>6, <3>1, <3>3
  <2>8. DOMAIN call' = Calls /\ \A d \in Calls : Carries(call[d])'
    BY <2>2, CallsStay, IdleCarries DEF Answer
  <2>9. \A b \in Bookings : booking'[b].status \in {"NONE", "open", "disputed", "ended"}
    BY <2>3, <2>6 DEF Sound, ListingsTypeOK
  <2>10. ListingsTypeOK'
    BY <2>2, <2>6, <2>8, <2>9 DEF Sound, ListingsTypeOK
  <2>11. ReportDecidedOnce'
    BY <2>2 DEF Sound, ReportDecidedOnce
  <2> QED
    BY <2>2, <2>7, <2>8, <2>10, <2>11 DEF Sound
<1> QED
  BY <1>3, <1>4, <1>5 DEF BorrowerCall

\* An account is closed.
LEMMA ClosureKeeps ==
  ASSUME Sound, NEW c \in Calls, ClosureCall(c)
  PROVE  Sound'
<1>1. ASSUME NEW u, BeginClosure(c, u) PROVE Sound'
  <2>1. PICK v : v = [pc |-> "snapshot", user |-> u]
    OBVIOUS
  <2>2. Carries(v)'
    BY <2>1 DEF Carries
  <2> QED
    BY <1>1, <2>1, <2>2, ReadKeeps DEF BeginClosure
<1>2. CASE SnapshotClosure(c)
  <2>1. PICK v : v = [pc |-> "close", user |-> call[c].user, seen |-> account[call[c].user],
                      keep |-> Obliged]
    OBVIOUS
  <2>2. Obliged \in BOOLEAN
    BY DEF Obliged
  <2>3. Carries(v)'
    BY <2>1, <2>2 DEF Carries
  <2> QED
    BY <1>2, <2>1, <2>3, ReadKeeps DEF SnapshotClosure
<1>3. CASE CommitClosure(c)
  <2>1. /\ Answer(c) /\ UNCHANGED <<listing, approved, report, decisions>>
        /\ UNCHANGED <<booking, setting, sweep, failures>>
    BY <1>3 DEF CommitClosure, cases
  <2>2. account' \in [Users -> Account]
    <3>1. PICK u : u = call[c].user
      OBVIOUS
    <3>2. account \in [Users -> Account]
      BY DEF Sound, ListingsTypeOK
    <3>3. CASE account' = account
      BY <3>2, <3>3
    <3>4. CASE account' # account
      <4>1. account' = [account EXCEPT ![u].closed = TRUE,
                                       ![u].anonymized = @ \/ ~call[c].keep]
        BY <1>3, <3>1, <3>4 DEF CommitClosure
      <4>2. u \in Users => account[u] \in Account
        BY <3>2
      <4> QED
        BY <3>2, <4>1, <4>2 DEF Account
    <3> QED
      BY <3>3, <3>4
  <2>3. /\ listing \in Listing /\ (listing.status = "APPROVED" => listing \in approved)
        /\ approved \subseteq Listing
        /\ report \in [Reports -> [status : {"NONE", "OPEN", "DISMISSED", "ACTIONED"},
                                   target : Targets]]
        /\ decisions \in [Reports -> Seq({"dismiss", "act"})] /\ ReportDecidedOnce
    BY DEF Sound, ListingsTypeOK
  <2>4. ReportDecidedOnce'
    BY <2>1, <2>3 DEF ReportDecidedOnce
  <2> QED
    BY <2>1, <2>2, <2>3, <2>4, WriteKeeps
<1> QED
  BY <1>1, <1>2, <1>3 DEF ClosureCall

\* A booking that is paid or ends keeps its terms.
LEMMA RentalKeeps ==
  ASSUME Sound, Rental
  PROVE  Sound'
<1>1. PICK b \in Bookings : PayBooking(b) \/ \E status \in {"ended", "disputed"} : EndBooking(b, status)
  BY DEF Rental
<1>2. UNCHANGED <<listing, approved, call, scenario, listable, switches, account, sweep, failures,
                  report, decisions>>
  BY <1>1 DEF PayBooking, EndBooking, setting, people, cases
<1>3. booking[b].status \in {"open", "disputed"}
  BY <1>1 DEF PayBooking, EndBooking
<1>4. PICK e : e = booking[b]
  OBVIOUS
<1>5. Booked(e) /\ e.status \in {"open", "disputed"}
  BY <1>3, <1>4 DEF Sound
<1>6. PICK v : booking' = [booking EXCEPT ![b] = v]
               /\ \/ v = [e EXCEPT !.paid = TRUE]
                  \/ \E status \in {"ended", "disputed"} : v = [e EXCEPT !.status = status]
  <2>1. CASE PayBooking(b)
    <3>1. booking' = [booking EXCEPT ![b] = [e EXCEPT !.paid = TRUE]]
      BY <1>4, <2>1 DEF PayBooking
    <3> QED
      BY <3>1
  <2>2. ASSUME NEW status \in {"ended", "disputed"}, EndBooking(b, status)
        PROVE  booking' = [booking EXCEPT ![b] = [e EXCEPT !.status = status]]
    BY <1>4, <2>2 DEF EndBooking
  <2> QED
    BY <1>1, <2>1, <2>2
<1>7. /\ DOMAIN v = BookingFields /\ v.stay = e.stay /\ v.source = e.source /\ v.terms = e.terms
      /\ v.total = e.total /\ v.status \in {"open", "disputed", "ended"}
  <2>1. DOMAIN e = BookingFields
    BY <1>5 DEF Booked
  <2> QED
    BY <1>5, <1>6, <2>1 DEF BookingFields
<1>8. Booked(v)'
  <2>1. Backed(e.source, e.stay, e.terms) /\ e.total = e.terms.money.total
    BY <1>5 DEF Booked
  <2>2. Backed(e.source, e.stay, e.terms)'
    BY <1>2, <2>1, BackedStays
  <2> QED
    BY <1>7, <2>1, <2>2 DEF Booked
<1>9. DOMAIN booking' = Bookings /\ \A k \in Bookings : booking'[k] = IF k = b THEN v ELSE booking[k]
  BY <1>6 DEF Sound, ListingsTypeOK
<1>10. \A k \in Bookings : Booked(booking[k])'
  <2> SUFFICES ASSUME NEW k \in Bookings PROVE Booked(booking[k])'
    OBVIOUS
  <2>1. PICK f : f = booking[k]
    OBVIOUS
  <2>2. Booked(f)
    BY <2>1 DEF Sound
  <2>3. Booked(f)'
    BY <1>2, <2>2, BackedStays DEF Booked
  <2> QED
    BY <1>8, <1>9, <2>1, <2>3
<1>11. \A d \in Calls : Carries(call[d])'
  BY <1>2 DEF Sound, Carries, Backed
<1>12. ListingsTypeOK'
  BY <1>2, <1>7, <1>9 DEF Sound, ListingsTypeOK
<1>13. ReportDecidedOnce'
  BY <1>2 DEF Sound, ReportDecidedOnce
<1> QED
  BY <1>2, <1>10, <1>11, <1>12, <1>13 DEF Sound

\* A step that changes neither listing nor bookings, and leaves calls as they are or idle.
LEMMA AsideKeeps ==
  ASSUME Sound, UNCHANGED <<listing, booking, approved>>,
         call' = call \/ call' = [c \in Calls |-> Idle],
         scenario' \in Scenarios, listable' \in BOOLEAN, switches' \in 0 .. MaxSwitches,
         account' \in [Users -> Account], failures' \in 0 .. MaxFailures,
         sweep' \in Sweep \cup SweepRead,
         report' \in [Reports -> [status : {"NONE", "OPEN", "DISMISSED", "ACTIONED"},
                                  target : Targets]],
         decisions' \in [Reports -> Seq({"dismiss", "act"})], ReportDecidedOnce'
  PROVE  Sound'
<1>1. listing' = listing /\ booking' = booking /\ approved' = approved
  OBVIOUS
<1>2. DOMAIN call' = Calls /\ \A d \in Calls : Carries(call[d])'
  <2>1. CASE call' = call
    BY <1>1, <2>1 DEF Sound, ListingsTypeOK, Carries, Backed
  <2>2. CASE call' = [c \in Calls |-> Idle]
    BY <2>2, IdleCarries
  <2> QED
    BY <2>1, <2>2
<1>3. \A b \in Bookings : Booked(booking[b])'
  BY <1>1, BookingsStay
<1>4. sweep'.left \subseteq Users
  BY DEF Sweep, SweepRead
<1>5. ListingsTypeOK'
  BY <1>1, <1>2, <1>4 DEF Sound, ListingsTypeOK
<1> QED
  BY <1>1, <1>2, <1>3, <1>5 DEF Sound

\* The steps of nobody's call.
LEMMA OthersKeep ==
  ASSUME Sound,
         \/ \E r \in Reports, target \in Targets : FileReport(r, target)
         \/ Finalizer \/ SweepFails \/ DisableCategory \/ Restart \/ UNCHANGED listingsVars
  PROVE  Sound'
<1>1. /\ scenario \in Scenarios /\ listable \in BOOLEAN /\ switches \in 0 .. MaxSwitches
      /\ account \in [Users -> Account] /\ failures \in 0 .. MaxFailures
      /\ report \in [Reports -> [status : {"NONE", "OPEN", "DISMISSED", "ACTIONED"},
                                 target : Targets]]
      /\ decisions \in [Reports -> Seq({"dismiss", "act"})] /\ ReportDecidedOnce
  BY DEF Sound, ListingsTypeOK
<1>2. sweep \in Sweep \cup SweepRead /\ NotSweeping \in Sweep
  BY DEF Sound, Sweep, NotSweeping
<1>3. report' = report /\ decisions' = decisions => ReportDecidedOnce'
  BY <1>1 DEF ReportDecidedOnce
<1>4. ASSUME NEW r \in Reports, NEW target \in Targets, FileReport(r, target) PROVE Sound'
  <2>1. /\ UNCHANGED <<listing, booking, approved, call, scenario, listable, switches, account, sweep,
                       failures, decisions>>
        /\ report[r].status = "NONE"
        /\ report' = [report EXCEPT ![r] = [status |-> "OPEN", target |-> target]]
    BY <1>4 DEF FileReport, setting, people
  <2>2. /\ report' \in [Reports -> [status : {"NONE", "OPEN", "DISMISSED", "ACTIONED"},
                                    target : Targets]]
        /\ report'[r].status = "OPEN" /\ \A q \in Reports \ {r} : report'[q] = report[q]
    BY <1>1, <2>1
  <2>3. decisions[r] = <<>>
    BY <1>1, <2>1 DEF ReportDecidedOnce
  <2>4. ReportDecidedOnce'
    <3> SUFFICES ASSUME NEW q \in Reports
                 PROVE  decisions'[q] = CASE report'[q].status = "DISMISSED" -> <<"dismiss">>
                                          [] report'[q].status = "ACTIONED" -> <<"act">>
                                          [] OTHER -> <<>>
      BY DEF ReportDecidedOnce
    <3>1. CASE q = r
      BY <2>1, <2>2, <2>3, <3>1
    <3>2. CASE q # r
      <4>1. decisions'[q] = decisions[q] /\ report'[q] = report[q]
        BY <2>1, <2>2, <3>2
      <4>2. decisions[q] = CASE report[q].status = "DISMISSED" -> <<"dismiss">>
                             [] report[q].status = "ACTIONED" -> <<"act">>
                             [] OTHER -> <<>>
        BY <1>1 DEF ReportDecidedOnce
      <4> QED
        BY <4>1, <4>2, Zenon
    <3> QED
      BY <3>1, <3>2
  <2> QED
    BY <1>1, <1>2, <2>1, <2>2, <2>4, AsideKeeps
<1>5. CASE Finalizer
  <2>1. UNCHANGED <<listing, booking, approved, call, scenario, listable, switches, failures,
                    report, decisions>>
    BY <1>5 DEF Finalizer, StartSweep, SweepAccount, CommitSweep, setting, cases
  <2>2. account' \in [Users -> Account]
    <3>1. account' = account \/ account' = [account EXCEPT ![sweep.user].anonymized = TRUE]
      BY <1>5 DEF Finalizer, StartSweep, SweepAccount, CommitSweep
    <3>2. PICK u : u = sweep.user
      OBVIOUS
    <3>3. \A k \in Users : [account[k] EXCEPT !.anonymized = TRUE] \in Account
      BY <1>1 DEF Account
    <3>4. [account EXCEPT ![u].anonymized = TRUE] \in [Users -> Account]
      BY <1>1, <3>3
    <3> QED
      BY <1>1, <3>1, <3>2, <3>4
  <2>3. sweep' \in Sweep \cup SweepRead
    <3>1. CASE StartSweep
      BY <3>1 DEF StartSweep, Sweep, ToFinalize
    <3>2. ASSUME NEW u \in Users, SweepAccount(u) PROVE sweep' \in Sweep \cup SweepRead
      <4>1. \/ sweep' = [sweep EXCEPT !.left = sweep.left \ {u}]
            \/ sweep' = [left |-> sweep.left, user |-> u, seen |-> account[u]]
        BY <3>2 DEF SweepAccount
      <4>2. account[u] \in Account
        BY <1>1
      <4> QED
        BY <1>2, <4>1, <4>2 DEF Sweep, SweepRead
    <3>3. CASE CommitSweep
      <4>1. sweep' = NotSweeping \/ sweep' = [left |-> sweep.left \ {sweep.user}, user |-> NoUser]
        BY <3>3 DEF CommitSweep
      <4> QED
        BY <1>2, <4>1 DEF Sweep, SweepRead
    <3> QED
      BY <1>5, <3>1, <3>2, <3>3 DEF Finalizer
  <2> QED
    BY <1>1, <1>3, <2>1, <2>2, <2>3, AsideKeeps
<1>6. CASE SweepFails
  <2>1. /\ UNCHANGED <<listing, booking, approved, call, scenario, listable, switches, account,
                       report, decisions>>
        /\ failures < MaxFailures /\ failures' = failures + 1 /\ sweep' = NotSweeping
    BY <1>6 DEF SweepFails, setting, cases
  <2>2. failures' \in 0 .. MaxFailures
    BY <1>1, <2>1, ListingsAssumption
  <2> QED
    BY <1>1, <1>2, <1>3, <2>1, <2>2, AsideKeeps
<1>7. CASE DisableCategory
  <2>1. /\ UNCHANGED <<listing, booking, approved, call, scenario, account, sweep, failures,
                       report, decisions>>
        /\ switches < MaxSwitches /\ switches' = switches + 1 /\ listable' = FALSE
    BY <1>7 DEF DisableCategory, people, cases
  <2>2. switches' \in 0 .. MaxSwitches
    BY <1>1, <2>1, ListingsAssumption
  <2> QED
    BY <1>1, <1>2, <1>3, <2>1, <2>2, AsideKeeps
<1>8. CASE Restart
  <2>1. /\ UNCHANGED <<listing, booking, approved, listable, account, failures, report, decisions>>
        /\ switches < MaxSwitches /\ switches' = switches + 1 /\ sweep' = NotSweeping
        /\ scenario' \in Scenarios /\ call' = [c \in Calls |-> Idle]
    BY <1>8 DEF Restart, cases
  <2>2. switches' \in 0 .. MaxSwitches
    BY <1>1, <2>1, ListingsAssumption
  <2> QED
    BY <1>1, <1>2, <1>3, <2>1, <2>2, AsideKeeps
<1>9. CASE UNCHANGED listingsVars
  <2>1. UNCHANGED <<listing, booking, approved, call, scenario, listable, switches, account, sweep,
                    failures, report, decisions>>
    BY <1>9 DEF listingsVars
  <2> QED
    BY <1>1, <1>2, <1>3, <2>1, AsideKeeps
<1> QED
  BY <1>4, <1>5, <1>6, <1>7, <1>8, <1>9

\* Every step keeps listing, calls, bookings and reports sound.
LEMMA StepSound == Sound /\ [ListingsNext]_listingsVars => Sound'
<1> SUFFICES ASSUME Sound, [ListingsNext]_listingsVars PROVE Sound'
  OBVIOUS
<1>1. CASE \E c \in Calls : OwnerCall(c) \/ ModeratorCall(c) \/ BorrowerCall(c) \/ ClosureCall(c)
  BY <1>1, OwnerKeeps, ModeratorKeeps, BorrowerKeeps, ClosureKeeps
<1>2. CASE Rental
  BY <1>2, RentalKeeps
<1>3. CASE \/ \E r \in Reports, target \in Targets : FileReport(r, target)
           \/ Finalizer \/ SweepFails \/ DisableCategory \/ Restart \/ UNCHANGED listingsVars
  BY <1>3, OthersKeep
<1> QED
  BY <1>1, <1>2, <1>3 DEF ListingsNext

\* Listings, bookings and reports stay in the state that the calls rely on.
THEOREM AlwaysSound == ListingsSpec => []Sound
BY InitSound, StepSound, PTL DEF ListingsSpec

\* What the catalogue offers, and what a booking was made from, is content a moderator approved
\* after its last change, however the calls of owner, moderators and borrower overlap.
THEOREM OffersAreApproved == ListingsSpec => []OfferedAsApproved
<1>1. Sound => OfferedAsApproved
  <2> SUFFICES ASSUME Sound PROVE OfferedAsApproved
    OBVIOUS
  <2>1. ASSUME NEW entry \in Entries, PublicById(entry) PROVE listing \in approved
    BY <2>1 DEF Entries, PublicById, Sound
  <2>2. ASSUME NEW b \in Bookings, booking[b].status # "NONE"
        PROVE  /\ booking[b].source \in approved
               /\ booking[b].terms.perDay = booking[b].source.offer.price
    <3>1. PICK e : e = booking[b]
      OBVIOUS
    <3>2. Booked(e) /\ e.status # "NONE"
      BY <2>2, <3>1 DEF Sound
    <3>3. PICK s \in Scenarios : e.source \in approved
                                /\ e.terms = Snapshot(e.source.offer, e.stay, Borrower, Owner, s)
      BY <3>2 DEF Booked, Backed
    <3>4. e.terms.perDay = e.source.offer.price
      BY <3>3 DEF Snapshot
    <3> QED
      BY <3>1, <3>3, <3>4
  <2> QED
    BY <2>1, <2>2 DEF OfferedAsApproved
<1> QED
  BY <1>1, AlwaysSound, PTL

\* Of the decisions that overlap on one open report, one is taken, and recorded with its
\* outcome.
THEOREM ReportsAreDecidedOnce == ListingsSpec => []ReportDecidedOnce
<1>1. Sound => ReportDecidedOnce
  BY DEF Sound
<1> QED
  BY <1>1, AlwaysSound, PTL

-----------------------------------------------------------------------------
(***************************************************************************)
(* The terms of a booking.                                                 *)
(***************************************************************************)

\* The readers accept every snapshot of an offer whose deposit the scenario allows.
LEMMA SnapshotIsReadable ==
  ASSUME NEW offer \in [price : Nat \ {0}, deposit : Nat \cup {NoDeposit}],
         NEW stay \in [first : Nat, last : Nat], PeriodAllowed(stay, Today),
         NEW s \in Scenarios, DepositAllowed(DepositOf(offer), s),
         NEW terms, terms = Snapshot(offer, stay, Borrower, Owner, s)
  PROVE  ReadBound(terms, Borrower, Owner, stay, terms.money.total) = terms
<1> DEFINE days == DaysOf(stay)
           rental == offer.price * DaysOf(stay)
           deposit == DepositOf(offer)
           fee == IF s = "FAKE_SAFE_DEAL" THEN PlatformFee(rental) ELSE 0
<1>1. days \in Nat /\ days >= 1 /\ offer.price \in Nat
  BY DEF PeriodAllowed, DaysOf
<1>2. rental \in Nat
  BY <1>1
<1>3. fee \in Int
  <2>1. PICK n \in Nat : n = rental
    BY <1>2
  <2>2. (n * 100 + 5000) \div 10000 \in Int
    OBVIOUS
  <2> QED
    BY <2>1, <2>2 DEF PlatformFee
<1>4. deposit \in Nat /\ (s = "PAY_ON_HANDOVER" => deposit = 0)
  BY DEF DepositOf, NoDeposit, DepositAllowed
<1>5. /\ terms.days = days /\ terms.lender = Owner /\ terms.accepted = Borrower
      /\ terms.perDay = offer.price /\ terms.depositAmount = offer.deposit /\ terms.scenario = s
      /\ terms.policy = (s = "FAKE_SAFE_DEAL" /\ deposit > 0)
      /\ terms.money = Price(s, rental, deposit)
  BY DEF Snapshot
<1>6. /\ terms.money.rental = rental /\ terms.money.deposit = deposit /\ terms.money.fee = fee
      /\ terms.money.payout = rental - fee
      /\ terms.money.total = IF s = "FAKE_SAFE_DEAL" THEN rental + deposit ELSE rental
  BY <1>5 DEF Price
<1>7. (IF terms.depositAmount = NoDeposit THEN 0 ELSE terms.depositAmount) = deposit
  BY <1>5 DEF DepositOf
<1>8. s = "PAY_ON_HANDOVER" \/ s = "FAKE_SAFE_DEAL"
  BY DEF Scenarios
<1>9. rental = terms.perDay * terms.days
  BY <1>5
<1> HIDE DEF days, rental, deposit, fee
<1>10. CASE s = "PAY_ON_HANDOVER"
  <2>1. fee = 0
    BY <1>10 DEF fee
  <2>2. /\ terms.money.deposit = 0 /\ terms.money.fee = 0 /\ terms.money.payout = terms.money.rental
        /\ terms.money.total = terms.money.rental + terms.money.deposit
        /\ terms.money.payout + terms.money.fee = terms.money.rental
    BY <1>2, <1>4, <1>6, <1>10, <2>1
  <2>3. ~terms.policy
    BY <1>5, <1>10
  <2>4. Readable(terms)
    BY <1>1, <1>5, <1>6, <1>7, <1>9, <1>10, <2>2, <2>3 DEF Readable
  <2> QED
    BY <1>1, <1>5, <2>4 DEF ReadBound, NoTerms, days
<1>11. CASE s = "FAKE_SAFE_DEAL"
  <2>1. /\ terms.money.total = terms.money.rental + terms.money.deposit
        /\ terms.money.payout + terms.money.fee = terms.money.rental
    BY <1>2, <1>3, <1>4, <1>6, <1>11
  <2>2. terms.policy = (terms.money.deposit > 0)
    BY <1>4, <1>5, <1>6, <1>11
  <2>3. Readable(terms)
    BY <1>1, <1>5, <1>6, <1>7, <1>9, <1>11, <2>1, <2>2 DEF Readable
  <2> QED
    BY <1>1, <1>5, <2>3 DEF ReadBound, NoTerms, days
<1> QED
  BY <1>8, <1>10, <1>11

\* Every snapshot that create stores is one its readers accept, for every price, period and
\* deposit, and whatever the scenario of the process is by then.
THEOREM TermsAreReadBack == ListingsSpec => []TermsReadBack
<1>1. Sound => TermsReadBack
  <2> SUFFICES ASSUME Sound, NEW b \in Bookings, booking[b].status # "NONE"
               PROVE  ParticipantTerms(b) = booking[b].terms
    BY DEF TermsReadBack
  <2>1. PICK e : e = booking[b]
    OBVIOUS
  <2>2. Booked(e) /\ e.status # "NONE"
    BY <2>1 DEF Sound
  <2>3. /\ e.source \in approved /\ e.stay \in Stays /\ PeriodAllowed(e.stay, Today)
        /\ e.total = e.terms.money.total
    BY <2>2 DEF Booked, Backed
  <2>4. PICK s \in Scenarios : /\ DepositAllowed(DepositOf(e.source.offer), s)
                               /\ e.terms = Snapshot(e.source.offer, e.stay, Borrower, Owner, s)
    BY <2>2 DEF Booked, Backed
  <2>5. e.source.offer \in [price : Nat \ {0}, deposit : Nat \cup {NoDeposit}]
    BY <2>3, ListingsAssumption DEF Sound, ListingsTypeOK, Listing
  <2>6. e.stay \in [first : Nat, last : Nat]
    BY <2>3, ListingsAssumption
  <2>7. ReadBound(e.terms, Borrower, Owner, e.stay, e.terms.money.total) = e.terms
    BY <2>3, <2>4, <2>5, <2>6, SnapshotIsReadable
  <2> QED
    BY <2>1, <2>3, <2>7 DEF ParticipantTerms
<1> QED
  BY <1>1, AlwaysSound, PTL

-----------------------------------------------------------------------------
(***************************************************************************)
(* The searches of the catalogue.                                          *)
(***************************************************************************)

\* What the conditions of a search compare.
EntryType ==
  [status : ListingStatuses, listable : BOOLEAN, active : BOOLEAN, price : Nat,
   stays : SUBSET [first : Nat, last : Nat]]

\* The catalogue's entries are made from the listing and its open bookings.
LEMMA EntryTypes == Sound => Entries \subseteq EntryType
<1> SUFFICES ASSUME Sound, NEW entry \in Entries PROVE entry \in EntryType
  OBVIOUS
<1> DEFINE open == {booking[b].stay : b \in {k \in Bookings : booking[k].status = "open"}}
<1>1. PICK stays \in SUBSET open :
        entry = [status |-> listing.status, listable |-> listable, active |-> Active(Owner),
                 price |-> listing.offer.price, stays |-> stays]
  BY DEF Entries
<1>2. stays \subseteq [first : Nat, last : Nat]
  <2> SUFFICES ASSUME NEW stay \in stays PROVE stay \in [first : Nat, last : Nat]
    OBVIOUS
  <2>1. PICK b \in Bookings : booking[b].status = "open" /\ stay = booking[b].stay
    BY <1>1
  <2>2. booking[b].stay \in Stays
    BY <2>1 DEF Sound, Booked, Backed
  <2> QED
    BY <2>1, <2>2, ListingsAssumption
<1>3. /\ listing.status \in ListingStatuses /\ listable \in BOOLEAN
      /\ listing.offer \in Offers
  BY DEF Sound, ListingsTypeOK, Listing
<1>4. listing.offer.price \in Nat
  BY <1>3, ListingsAssumption
<1>5. Active(Owner) \in BOOLEAN
  BY DEF Active
<1> QED
  BY <1>1, <1>2, <1>3, <1>4, <1>5 DEF EntryType

\* The two languages of the catalogue ask the same of an entry.
LEMMA ConditionsAgree ==
  ASSUME NEW entry \in EntryType, NEW q \in Queries
  PROVE  RawConditions(entry, q) <=> PublicWhere(entry, q)
<1>1. /\ q.min \in Int /\ q.max \in Int /\ q.from \in Int /\ q.to \in Int /\ Absent \in Int
      /\ entry.price \in Int /\ \A stay \in entry.stays : stay.first \in Int /\ stay.last \in Int
  BY ListingsAssumption DEF EntryType, Absent
<1>2. (\A stay \in entry.stays : stay.first > q.to \/ stay.last < q.from)
        <=> ~\E stay \in entry.stays : stay.first <= q.to /\ stay.last >= q.from
  BY <1>1
<1> QED
  BY <1>1, <1>2 DEF RawConditions, PublicWhere

\* So do they find the same middle of a cell, which lies on the axis.
LEMMA CellsAgree ==
  ASSUME NEW place \in First .. Last
  PROVE  /\ RawItemPoint(place, First, Last) = SparseCellCenter(place, First, Last)
         /\ SparseCellCenter(place, First, Last) \in First .. Last
<1>1. First \in Int /\ Last \in Int /\ First + 10 <= Last
  BY ListingsAssumption DEF Cell
<1>2. PICK n \in Int : n = (place - First) \div 10
  BY <1>1
<1>3. Half = 5
  BY DEF Half, Cell
<1>4. RawItemPoint(place, First, Last) =
        IF First + n * 10 + 5 > Last - 5 THEN Last - 5
        ELSE IF First + n * 10 + 5 < First + 5 THEN First + 5
        ELSE First + n * 10 + 5
  BY <1>2, <1>3 DEF RawItemPoint, Cell
<1>5. SparseCellCenter(place, First, Last) =
        Least(Last - 5, Greatest(First + 5, First + n * 10 + 5))
  BY <1>2, <1>3 DEF SparseCellCenter, Cell
<1> QED
  BY <1>1, <1>4, <1>5 DEF Least, Greatest

\* A distance within the radius of a query has a bucket.
LEMMA BucketExists ==
  ASSUME NEW q \in Queries, Accepted(q), NEW d \in Int, d <= Radius(q)
  PROVE  DistanceBucket(d) # Absent
<1>1. d <= 50
  BY ListingsAssumption DEF Accepted, Radius, MaxRadius, Absent
<1> QED
  BY <1>1 DEF DistanceBucket, MaxRadius, Absent

\* The search around a point finds within its radius what the search without one finds, and
\* tells the distance to the place it tells, for any places, queries and bookings.
THEOREM SearchesAlwaysAgree == ListingsSpec => []SearchesAgree
<1>1. Sound => SearchesAgree
  <2> SUFFICES ASSUME Sound PROVE SearchesAgree
    OBVIOUS
  <2>1. \A entry \in Entries : entry \in EntryType
    BY EntryTypes
  <2>2. \A place \in Places : place \in First .. Last
    BY ListingsAssumption
  <2>3. ASSUME NEW q \in Asked, NEW entry \in Entries, NEW place \in Places
        PROVE  /\ FoundByGeo(entry, place, q, First, Last)
                    <=> PublicWhere(entry, q) /\ Within(place, q)
               /\ RawConditions(entry, q) => PublicWhere(entry, q)
    <3>1. RawConditions(entry, q) <=> PublicWhere(entry, q)
      BY <2>1, ConditionsAgree DEF Asked
    <3>2. RawItemPoint(place, First, Last) = SparseCellCenter(place, First, Last)
      BY <2>2, CellsAgree
    <3> QED
      BY <3>1, <3>2 DEF FoundByGeo, Within
  <2>4. ASSUME NEW entry \in Entries PROVE Favorite(entry) <=> PublicById(entry)
    BY DEF Favorite, PublicById, PublicWhere, Absent
  <2>5. PlacesAgree
    <3> SUFFICES ASSUME NEW q \in Asked, NEW place \in Places
                 PROVE  LET told == GeoResponse(place, q, First, Last)
                        IN /\ told.place \in First .. Last
                           /\ Within(place, q) =>
                                told.bucket = DistanceBucket(Distance(told.place, q.at))
                           /\ Within(place, q) => told.bucket # Absent
      BY DEF PlacesAgree
    <3> DEFINE center == SparseCellCenter(place, First, Last)
    <3>1. RawItemPoint(place, First, Last) = center /\ center \in First .. Last
      BY <2>2, CellsAgree
    <3>2. Distance(center, q.at) \in Int
      BY <3>1, ListingsAssumption DEF Distance, Asked
    <3>3. Within(place, q) => DistanceBucket(Distance(center, q.at)) # Absent
      BY <3>2, BucketExists DEF Within, Asked
    <3> QED
      BY <3>1, <3>3 DEF GeoResponse
  <2> QED
    BY <2>3, <2>4, <2>5 DEF SearchesAgree
<1> QED
  BY <1>1, AlwaysSound, PTL

=============================================================================
