------------------------------ MODULE PhotoUpload ------------------------------
(***************************************************************************)
(* Uploads: intents and their quarantined objects, the requests that       *)
(* consume them (photos of an item, avatars, evidence and attachments),    *)
(* the photo processing worker and the cleanup.                            *)
(*                                                                         *)
(* An intent names one object of the private bucket and, once it is used,  *)
(* one photo, avatar or evidence row; all of them are identified here by   *)
(* the intent.  There is one item and one owner.  Requests, jobs and the   *)
(* cleanup are cut where they await the database, the storage or the       *)
(* queue.  What an object holds is left out; that it exists, and since     *)
(* when, is kept.                                                          *)
(***************************************************************************)
EXTENDS Integers, FiniteSets, Functions

CONSTANTS
  ItemPhotos, Avatars, BookingEvidence, DisputeEvidence, SupportAttachments,
  NoIntent,
  Requests,       \* clients' requests that may be under way at one time
  Expires,        \* PRESIGNED_UPLOAD_EXPIRES_SECONDS, in time units
  Grace,          \* UPLOAD_INTENT_CLEANUP_GRACE_MS
  Retention,      \* REJECTED_UPLOAD_RETENTION_MS
  Attempts,       \* attempts of a photo job
  Concurrency,    \* jobs the worker runs at one time
  LastRequest,    \* bound: the last instant at which an upload is requested
  MaxClock,       \* bound: the last instant
  MaxIntents,     \* bound: intents given out
  MaxFaults       \* bound: crashes and failing calls

Intents == UNION {ItemPhotos, Avatars, BookingEvidence, DisputeEvidence, SupportAttachments}
Evidence == UNION {BookingEvidence, DisputeEvidence, SupportAttachments}

ASSUME UploadAssumption ==
  /\ NoIntent \notin Intents
  /\ Attempts \in Nat \ {0} /\ Concurrency \in Nat \ {0}
  /\ ItemPhotos \cap Avatars = {} /\ Evidence \cap (ItemPhotos \cup Avatars) = {}
  /\ Expires \in Nat \ {0} /\ Retention \in Nat
  /\ Grace \in Nat \ {0}      \* longer than a request lasts
  /\ Expires < Retention
  /\ LastRequest \in Nat /\ MaxClock \in Nat /\ MaxIntents \in Nat /\ MaxFaults \in Nat

VARIABLES
  now,
  requested,    \* intents given out so far
  intents,      \* UploadIntent, a function on the rows in the table
  objects,      \* lastModified of the objects under quarantine/
  photos,       \* ItemPhoto, a function on the rows in the table
  public,       \* photos and avatars with variants in the public bucket
  avatar,       \* User.avatarUrl
  evidence,     \* intents with an evidence or attachment row
  jobs,         \* jobs of the photo-processing queue
  request, cleaner,
  faults

vars == <<now, requested, intents, objects, photos, public, avatar, evidence, jobs, request, cleaner, faults>>

Never == -1
Instants == 0 .. MaxClock
NoRequest == [pc |-> "idle", intent |-> NoIntent, since |-> 0]
NoCleanup == [pc |-> "idle", now |-> 0, old |-> {}, rows |-> <<>>, todo |-> {},
              at |-> NoIntent, rejected |-> FALSE]

TypeOK ==
  /\ now \in Instants
  /\ requested \subseteq Intents
  /\ DOMAIN intents \subseteq requested
  /\ \A i \in DOMAIN intents :
       intents[i] \in [expiresAt : 0 .. MaxClock + Expires, confirmedAt : Instants \cup {Never}]
  /\ DOMAIN objects \subseteq requested /\ \A i \in DOMAIN objects : objects[i] \in Instants
  /\ DOMAIN photos \subseteq ItemPhotos
  /\ \A i \in DOMAIN photos : photos[i] \in {"bare", "published"}
  /\ public \subseteq ItemPhotos \cup Avatars
  /\ avatar \in Avatars \cup {NoIntent}
  /\ evidence \subseteq Evidence
  /\ DOMAIN jobs \subseteq ItemPhotos
  /\ \A i \in DOMAIN jobs :
       jobs[i] \in [pc : {"waiting", "source", "decode", "put", "update", "delete"},
                    attempts : 0 .. Attempts - 1, stalled : BOOLEAN]
  /\ request \in [Requests ->
       [pc : {"idle", "consume", "commit", "queue", "avatar", "use", "tidy", "sanitize", "attach"},
        intent : Intents \cup {NoIntent}, since : Instants]]
  /\ cleaner.pc \in {"idle", "intents", "rows", "object", "photo", "intent"}
  /\ faults \in 0 .. MaxFaults

Init ==
  /\ now = 0
  /\ requested = {} /\ intents = <<>> /\ objects = <<>>
  /\ photos = <<>> /\ public = {} /\ avatar = NoIntent /\ evidence = {}
  /\ jobs = <<>>
  /\ request = [r \in Requests |-> NoRequest]
  /\ cleaner = NoCleanup
  /\ faults = 0

With(f, i, v) == [j \in DOMAIN f \cup {i} |-> IF j = i THEN v ELSE f[j]]
Without(f, i) == Restrict(f, DOMAIN f \ {i})

\* A call of the storage, the queue or the database fails, or its process ends.
Fault == faults < MaxFaults /\ faults' = faults + 1

(***************************************************************************)
(* Intents and uploads.                                                    *)
(***************************************************************************)

\* requestUploadUrl.  That an item's photos are requested and confirmed only while it has no
\* unfinished booking is left out here, as is everything else that only keeps clients away.
RequestUpload(i) ==
  /\ i \notin requested /\ Cardinality(requested) < MaxIntents /\ now <= LastRequest
  /\ requested' = requested \cup {i}
  /\ intents' = With(intents, i, [expiresAt |-> now + Expires, confirmedAt |-> Never])
  /\ UNCHANGED <<now, objects, photos, public, avatar, evidence, jobs, request,
                 cleaner, faults>>

\* The client posts the file, once or again, while the signed form is valid.
Upload(i) ==
  /\ i \in DOMAIN intents /\ now < intents[i].expiresAt
  /\ objects' = With(objects, i, now)
  /\ UNCHANGED <<now, requested, intents, photos, public, avatar, evidence, jobs, request, cleaner, faults>>

Usable(i) ==
  /\ i \in DOMAIN intents
  /\ intents[i].confirmedAt = Never /\ intents[i].expiresAt > now

\* An avatar that another request has confirmed meanwhile is a replay.
Replays(r) ==
  LET i == request[r].intent
  IN  i \in Avatars \cap DOMAIN intents /\ intents[i].confirmedAt # Never

Goto(r, pc) == request' = [request EXCEPT ![r].pc = pc]
End(r) == request' = [request EXCEPT ![r] = NoRequest]

\* A request has read its intent, checked it and inspected the object.  (A replay of a
\* confirmed intent changes nothing.)
Begin(r, i, pc) ==
  /\ request[r].pc = "idle"
  /\ Usable(i) /\ i \in DOMAIN objects
  /\ request' = [request EXCEPT ![r] = [pc |-> pc, intent |-> i, since |-> now]]
  /\ UNCHANGED <<now, requested, intents, objects, photos, public, avatar, evidence, jobs,
                 cleaner, faults>>

BeginPhoto(r) == \E i \in ItemPhotos : Begin(r, i, "consume")
BeginAvatar(r) == \E i \in Avatars : Begin(r, i, "avatar")
BeginEvidence(r) == \E i \in Evidence : Begin(r, i, "sanitize")

\* A request's call fails, or its process ends.  An open transaction is rolled back.
RequestFails(r) ==
  /\ request[r].pc # "idle" /\ Fault
  /\ End(r)
  /\ UNCHANGED <<now, requested, intents, objects, photos, public, avatar, evidence, jobs,
                 cleaner>>

\* A request finds its intent used or expired when it is about to use it.
Refused(r) ==
  /\ request[r].pc \in {"consume", "use", "attach"}
  /\ ~ Usable(request[r].intent) /\ ~ Replays(r)
  /\ End(r)
  /\ UNCHANGED <<now, requested, intents, objects, photos, public, avatar, evidence, jobs,
                 cleaner, faults>>

(***************************************************************************)
(* Photos of the item: confirmItemPhotoUpload.                             *)
(***************************************************************************)

\* The row of the intent, locked by an uncommitted update.
Locked(i) == \E r \in Requests : request[r].pc = "commit" /\ request[r].intent = i

\* The transaction consumes the intent and counts the photos of the item; their number, and
\* so whether there is room for one more, is left open.
ConsumePhoto(r) ==
  LET i == request[r].intent
  IN  /\ request[r].pc = "consume" /\ Usable(i) /\ ~ Locked(i)
      /\ Goto(r, "commit") \/ End(r)
      /\ UNCHANGED <<now, requested, intents, objects, photos, public, avatar, evidence, jobs,
                     cleaner, faults>>

\* It adds the photo and commits.  (Its place, the cover and the item's return to PENDING
\* are left out.)
CommitPhoto(r) ==
  LET i == request[r].intent
  IN  /\ request[r].pc = "commit"
      /\ intents' = [intents EXCEPT ![i].confirmedAt = now]
      /\ photos' = With(photos, i, "bare")
      /\ Goto(r, "queue")
      /\ UNCHANGED <<now, requested, objects, public, avatar, evidence, jobs, cleaner, faults>>

\* Only then is the photo queued; a process that ends in between leaves it unqueued.
QueuePhoto(r) ==
  /\ request[r].pc = "queue"
  /\ jobs' = With(jobs, request[r].intent,
                  [pc |-> "waiting", attempts |-> 0, stalled |-> FALSE])
  /\ End(r)
  /\ UNCHANGED <<now, requested, intents, objects, photos, public, avatar, evidence, cleaner, faults>>

(***************************************************************************)
(* Avatars: confirmAvatarUpload.                                           *)
(***************************************************************************)

\* The re-encoded avatar is published before the intent is used.
PutAvatar(r) ==
  /\ request[r].pc = "avatar"
  /\ public' = public \cup {request[r].intent}
  /\ Goto(r, "use")
  /\ UNCHANGED <<now, requested, intents, objects, photos, avatar, evidence, jobs, cleaner, faults>>

UseAvatar(r) ==
  LET i == request[r].intent
  IN  /\ request[r].pc = "use"
      /\ \/ /\ Usable(i)
            /\ intents' = [intents EXCEPT ![i].confirmedAt = now]
            /\ avatar' = i
         \/ Replays(r) /\ UNCHANGED <<intents, avatar>>
      /\ Goto(r, "tidy")
      /\ UNCHANGED <<now, requested, objects, photos, public, evidence, jobs, cleaner, faults>>

TidyAvatar(r) ==
  /\ request[r].pc = "tidy"
  /\ objects' = Without(objects, request[r].intent)
  /\ End(r)
  /\ UNCHANGED <<now, requested, intents, photos, public, avatar, evidence, jobs, cleaner, faults>>

(***************************************************************************)
(* Evidence of bookings and disputes, attachments of support messages.     *)
(***************************************************************************)

\* verify...Intent overwrites the object with the image it has re-encoded.
Sanitize(r) ==
  /\ request[r].pc = "sanitize"
  /\ objects' = With(objects, request[r].intent, now)
  /\ Goto(r, "attach")
  /\ UNCHANGED <<now, requested, intents, photos, public, avatar, evidence, jobs, cleaner, faults>>

\* The intent is confirmed, if it still can be.
Consume(i) == Usable(i) /\ intents' = [intents EXCEPT ![i].confirmedAt = now]

\* The act, the dispute or the support message consumes the intent in its transaction.
Attach(r) ==
  LET i == request[r].intent
  IN  /\ request[r].pc = "attach" /\ Consume(i)
      /\ evidence' = evidence \cup {i}
      /\ End(r)
      /\ UNCHANGED <<now, requested, objects, photos, public, avatar, jobs, cleaner, faults>>

(***************************************************************************)
(* The photo processing worker.                                            *)
(***************************************************************************)
jobUnchanged == <<now, requested, intents, avatar, evidence, request, cleaner>>

JobGoto(i, pc) == jobs' = [jobs EXCEPT ![i].pc = pc]

\* The queue tries a failed job again until its attempts are used up.
Retried(i) ==
  jobs' = IF jobs[i].attempts + 1 < Attempts
          THEN [jobs EXCEPT ![i] = [jobs[i] EXCEPT !.pc = "waiting",
                                                   !.attempts = jobs[i].attempts + 1]]
          ELSE Without(jobs, i)

\* A job whose photo is gone, or whose owner has been blocked or has left, ends without a
\* trace.  Whether the owner is still active is left open.
TakeJob(i) ==
  /\ i \in DOMAIN jobs /\ jobs[i].pc = "waiting"
  /\ Cardinality({j \in DOMAIN jobs : jobs[j].pc # "waiting"}) < Concurrency
  /\ \/ i \in DOMAIN photos /\ JobGoto(i, "source")
     \/ jobs' = Without(jobs, i)
  /\ UNCHANGED <<objects, photos, public, faults>> /\ UNCHANGED jobUnchanged

FetchSource(i) ==
  /\ i \in DOMAIN jobs /\ jobs[i].pc = "source"
  /\ IF i \in DOMAIN objects THEN JobGoto(i, "decode") ELSE Retried(i)
  /\ UNCHANGED <<objects, photos, public, faults>> /\ UNCHANGED jobUnchanged

\* sharp may refuse what the file holds.
DecodeSource(i) ==
  /\ i \in DOMAIN jobs /\ jobs[i].pc = "decode"
  /\ JobGoto(i, "put") \/ Retried(i)
  /\ UNCHANGED <<objects, photos, public, faults>> /\ UNCHANGED jobUnchanged

PutVariants(i) ==
  /\ i \in DOMAIN jobs /\ jobs[i].pc = "put"
  /\ public' = public \cup {i}
  /\ JobGoto(i, "update")
  /\ UNCHANGED <<objects, photos, faults>> /\ UNCHANGED jobUnchanged

\* The update of a photo that was removed meanwhile throws.
PublishPhoto(i) ==
  /\ i \in DOMAIN jobs /\ jobs[i].pc = "update"
  /\ IF i \in DOMAIN photos
     THEN photos' = [photos EXCEPT ![i] = "published"] /\ JobGoto(i, "delete")
     ELSE Retried(i) /\ UNCHANGED photos
  /\ UNCHANGED <<objects, public, faults>> /\ UNCHANGED jobUnchanged

DeleteSource(i) ==
  /\ i \in DOMAIN jobs /\ jobs[i].pc = "delete"
  /\ objects' = Without(objects, i)
  /\ jobs' = Without(jobs, i)
  /\ UNCHANGED <<photos, public, faults>> /\ UNCHANGED jobUnchanged

\* A call of the job fails.
JobFails(i) ==
  /\ i \in DOMAIN jobs /\ jobs[i].pc # "waiting" /\ Fault
  /\ Retried(i)
  /\ UNCHANGED <<objects, photos, public>> /\ UNCHANGED jobUnchanged

\* The worker's process ends: the queue gives the job to a worker again, but only once.
JobStalls(i) ==
  /\ i \in DOMAIN jobs /\ jobs[i].pc # "waiting" /\ Fault
  /\ jobs' = IF jobs[i].stalled THEN Without(jobs, i)
             ELSE [jobs EXCEPT ![i] = [@ EXCEPT !.pc = "waiting", !.stalled = TRUE]]
  /\ UNCHANGED <<objects, photos, public>> /\ UNCHANGED jobUnchanged

(***************************************************************************)
(* The cleanup.                                                            *)
(***************************************************************************)
cleanUnchanged == <<now, requested, public, avatar, evidence, jobs, request>>

CleanGoto(pc) == cleaner' = [cleaner EXCEPT !.pc = pc]
CleanNext == cleaner' = [cleaner EXCEPT !.pc = "rows", !.at = NoIntent, !.rejected = FALSE]

\* A run fixes its "now" and lists the quarantined objects (of which only those of some age
\* matter to it), and then the intents.
ListObjects ==
  /\ cleaner.pc = "idle"
  /\ cleaner' = [NoCleanup EXCEPT !.pc = "intents", !.now = now,
                                    !.old = {i \in DOMAIN objects : objects[i] <= now - Grace}]
  /\ UNCHANGED <<intents, objects, photos, faults>> /\ UNCHANGED cleanUnchanged

\* The intents that the cleanup reads; booking evidence and attachments are not among them.
Swept == DOMAIN intents \cap UNION {ItemPhotos, Avatars, DisputeEvidence}

ListIntents ==
  /\ cleaner.pc = "intents"
  /\ cleaner' = [cleaner EXCEPT !.pc = "rows", !.rows = Restrict(intents, Swept),
                                !.todo = Swept]
  /\ UNCHANGED <<intents, objects, photos, faults>> /\ UNCHANGED cleanUnchanged

\* A photo that was never published although it was confirmed long ago.
IsRejected(i) ==
  /\ i \in ItemPhotos /\ cleaner.rows[i].confirmedAt # Never
  /\ ~ (i \in DOMAIN photos /\ photos[i] = "published")
  /\ cleaner.rows[i].confirmedAt <= cleaner.now - Retention

\* As if the photo of a used intent were not looked at.
IsExpiredUnseen(i) == cleaner.rows[i].expiresAt <= cleaner.now - Grace

\* An intent past its grace period that is unused, or whose object has served its purpose.
IsExpired(i) ==
  LET unused == cleaner.rows[i].confirmedAt = Never
  IN  /\ cleaner.rows[i].expiresAt <= cleaner.now - Grace
      /\ IF i \in DisputeEvidence THEN unused
         ELSE unused \/ i \notin DOMAIN photos \/ photos[i] = "published"

\* The run takes an intent of its list, reads its photo and decides.
Decide(i) ==
  /\ cleaner.pc = "rows" /\ i \in cleaner.todo
  /\ cleaner' = IF IsRejected(i) \/ IsExpired(i)
                THEN [cleaner EXCEPT !.todo = @ \ {i}, !.pc = "object", !.at = i,
                                     !.rejected = IsRejected(i)]
                ELSE [cleaner EXCEPT !.todo = @ \ {i}]
  /\ UNCHANGED <<intents, objects, photos, faults>> /\ UNCHANGED cleanUnchanged

\* As if the rejected photo were left behind.
CleanObjectOnly ==
  /\ cleaner.pc = "object"
  /\ objects' = Without(objects, cleaner.at)
  /\ CleanGoto("intent")
  /\ UNCHANGED <<intents, photos, faults>> /\ UNCHANGED cleanUnchanged

CleanObject ==
  /\ cleaner.pc = "object"
  /\ objects' = Without(objects, cleaner.at)
  /\ CleanGoto(IF cleaner.rejected THEN "photo" ELSE "intent")
  /\ UNCHANGED <<intents, photos, faults>> /\ UNCHANGED cleanUnchanged

\* A photo that was published since the decision stays.
CleanPhoto ==
  /\ cleaner.pc = "photo"
  /\ photos' = IF cleaner.at \in DOMAIN photos /\ photos[cleaner.at] = "bare"
               THEN Without(photos, cleaner.at) ELSE photos
  /\ CleanGoto("intent")
  /\ UNCHANGED <<intents, objects, faults>> /\ UNCHANGED cleanUnchanged

CleanIntent ==
  /\ cleaner.pc = "intent"
  /\ intents' = Without(intents, cleaner.at)
  /\ CleanNext
  /\ UNCHANGED <<objects, photos, faults>> /\ UNCHANGED cleanUnchanged

\* A failing call leaves the rest of this intent to the next run.
CleanFails ==
  /\ cleaner.pc \in {"object", "photo", "intent"} /\ Fault
  /\ CleanNext
  /\ UNCHANGED <<intents, objects, photos>> /\ UNCHANGED cleanUnchanged

\* Last, the run removes old objects that belong to none of the intents it has read.
Orphans == cleaner.old \ DOMAIN cleaner.rows

CleanOrphans ==
  /\ cleaner.pc = "rows" /\ cleaner.todo = {}
  /\ objects' = Restrict(objects, DOMAIN objects \ Orphans)
  /\ cleaner' = NoCleanup
  /\ UNCHANGED <<intents, photos, faults>> /\ UNCHANGED cleanUnchanged

CleanCrash ==
  /\ cleaner.pc # "idle" /\ Fault
  /\ cleaner' = NoCleanup
  /\ UNCHANGED <<intents, objects, photos>> /\ UNCHANGED cleanUnchanged

(***************************************************************************)
(* Time.                                                                   *)
(***************************************************************************)

\* No request and no run of the cleanup lasts for more than one unit of time.
Tick ==
  /\ now < MaxClock
  /\ \A r \in Requests : request[r].pc # "idle" => request[r].since = now
  /\ cleaner.pc # "idle" => cleaner.now = now
  /\ now' = now + 1
  /\ UNCHANGED <<requested, intents, objects, photos, public, avatar, evidence, jobs, request, cleaner, faults>>

(***************************************************************************)
(* The specification.                                                      *)
(***************************************************************************)
RequestStep(r) ==
  \/ ConsumePhoto(r) \/ CommitPhoto(r) \/ QueuePhoto(r)
  \/ PutAvatar(r) \/ UseAvatar(r) \/ TidyAvatar(r)
  \/ Sanitize(r) \/ Attach(r) \/ Refused(r)

JobStep(i) ==
  \/ TakeJob(i) \/ FetchSource(i) \/ DecodeSource(i)
  \/ PutVariants(i) \/ PublishPhoto(i) \/ DeleteSource(i)

CleanStep ==
  \/ ListObjects \/ ListIntents \/ \E i \in cleaner.todo : Decide(i)
  \/ CleanObject \/ CleanPhoto \/ CleanIntent \/ CleanOrphans

Next ==
  \/ \E i \in Intents : RequestUpload(i) \/ Upload(i)
  \/ \E r \in Requests : RequestStep(r) \/ RequestFails(r)
                        \/ BeginPhoto(r) \/ BeginAvatar(r) \/ BeginEvidence(r)
  \/ \E i \in ItemPhotos : JobStep(i) \/ JobFails(i) \/ JobStalls(i)
  \/ CleanStep \/ CleanFails \/ CleanCrash
  \/ Tick

Spec == Init /\ [][Next]_vars

\* Requests go on, the queue works off its jobs, the cleanup runs on its timer, and time
\* passes.  Clients need not do anything.
FairSpec ==
  /\ Spec
  /\ \A r \in Requests : WF_vars(RequestStep(r))
  /\ \A i \in ItemPhotos : WF_vars(JobStep(i))
  /\ WF_vars(CleanStep) /\ WF_vars(Tick)

(***************************************************************************)
(* Properties.                                                             *)
(***************************************************************************)

\* The source of a confirmed photo that is not published yet is there until the photo is
\* due for rejection: neither the cleanup nor a worker that repeats or races a job removes
\* it too early.
SourcesAreKept ==
  \A i \in DOMAIN photos :
    photos[i] = "bare" /\ i \in DOMAIN intents /\ now < intents[i].confirmedAt + Retention
      => i \in DOMAIN objects

\* What a photo's or the profile's URL points to exists.
NoDeadUrls ==
  /\ \A i \in DOMAIN photos : photos[i] = "published" => i \in public
  /\ avatar # NoIntent => avatar \in public

\* The object of a piece of dispute evidence stays, with the intent that leads to it.
DisputesKeepTheirEvidence ==
  \A i \in evidence \cap DisputeEvidence : i \in DOMAIN objects /\ i \in DOMAIN intents

\* Cleanup and worker never take a file that is still needed.
FilesOutliveTheirUse == SourcesAreKept /\ NoDeadUrls /\ DisputesKeepTheirEvidence

\* A confirmed photo does not stay without its pictures for ever, although it may never be
\* queued, its job may be given up, and its owner may be blocked: it is published or removed.
PhotosSettle ==
  \A i \in ItemPhotos :
    i \in DOMAIN photos ~> i \notin DOMAIN photos \/ photos[i] = "published"

\* What was uploaded does not stay in quarantine unless it is evidence.
QuarantineEmpties ==
  \A i \in Intents : i \in DOMAIN objects ~> i \notin DOMAIN objects \/ i \in evidence

\* Every confirmation comes to an end: a published photo or none, and an empty quarantine.
UploadsSettle == PhotosSettle /\ QuarantineEmpties
=============================================================================
