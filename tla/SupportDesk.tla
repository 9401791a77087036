---------------------------- MODULE SupportDesk ----------------------------
(***************************************************************************)
(* One support ticket: the messages of its author and of the operators,    *)
(* the images attached to them, and its assignment, first reply and        *)
(* closing.                                                                *)
(*                                                                         *)
(* Every call reads the ticket first and writes it later; createMessage    *)
(* downloads and checks each image in between.  The writes of a call are   *)
(* one transaction, whose conditional updates hold the rows they changed,  *)
(* so it is one step; a unique key that is already there undoes it all.    *)
(*                                                                         *)
(* An image that expired keeps its object in the store for a while, which  *)
(* PhotoUpload models.  The bookings a ticket may be about are left out.   *)
(***************************************************************************)
EXTENDS Naturals, Sequences, FiniteSets

CONSTANTS
  Calls,           \* concurrent calls of the API
  Staff,           \* the operators
  Author,          \* the user who opened the ticket
  Intents,         \* images uploaded for it ...
  UploadedBy,      \* ... and who uploaded each
  MaxMessages      \* bound: messages of the thread

NoOne == "nobody"       \* assigneeId and respondedById are NULL
People == Staff \cup {Author}

ASSUME DeskAssumption ==
  /\ Author \notin Staff /\ NoOne \notin People
  /\ UploadedBy \in [Intents -> People]
  /\ MaxMessages \in Nat

VARIABLES
  ticket,     \* SupportTicket: status, assignee, respondedBy
  intent,     \* UploadIntent: "open" until it is confirmed ("used") or expires
  thread,     \* SupportMessage: author and attached intents
  log,        \* the operators' entries of the audit log about the ticket
  keys,       \* deduplication keys of its outbox events, those of messages apart
  call        \* the calls being served

deskVars == <<ticket, intent, thread, log, keys, call>>

Statuses == {"OPEN", "IN_PROGRESS", "CLOSED"}
Acts == {"assigned", "message", "replied", "closed"}

Idle == [pc |-> "idle"]
Work == [pc : {"verify"}, actor : People, left : SUBSET Intents, files : SUBSET Intents]
          \cup [pc : {"assign", "reply", "close"}, actor : Staff]

DeskTypeOK ==
  /\ ticket \in [status : Statuses, assignee : Staff \cup {NoOne},
                 respondedBy : Staff \cup {NoOne}]
  /\ intent \in [Intents -> {"open", "used", "expired"}]
  /\ thread \in Seq([author : People, files : SUBSET Intents])
  /\ log \in Seq([operator : Staff, act : Acts])
  /\ keys \subseteq {"first-reply", "closed"}
  /\ call \in [Calls -> Work \cup {Idle}]

DeskInit ==
  /\ ticket = [status |-> "OPEN", assignee |-> NoOne, respondedBy |-> NoOne]
  /\ intent = [i \in Intents |-> "open"]
  /\ thread = <<>> /\ log = <<>> /\ keys = {}
  /\ call = [c \in Calls |-> Idle]

Goto(c, work) == call' = [call EXCEPT ![c] = work]
End(c) == Goto(c, Idle)

\* The ticket is nobody's, or this operator's.
MayServe(operator) == ticket.assignee \in {NoOne, operator}

Record(operator, act) == log' = Append(log, [operator |-> operator, act |-> act])

-----------------------------------------------------------------------------
(***************************************************************************)
(* Messages.                                                               *)
(***************************************************************************)

\* createMessage reads the ticket.
BeginMessage(c, actor, files) ==
  /\ call[c] = Idle
  /\ ticket.status # "CLOSED"
  /\ actor \in Staff => MayServe(actor)
  /\ \A i \in files : UploadedBy[i] = actor
  /\ Goto(c, [pc |-> "verify", actor |-> actor, left |-> files, files |-> files])
  /\ UNCHANGED <<ticket, intent, thread, log, keys>>

\* verifySupportAttachmentIntent: one that is used or has expired ends the call.
Verify(c, i) ==
  /\ call[c].pc = "verify" /\ i \in call[c].left
  /\ IF intent[i] = "open" THEN Goto(c, [call[c] EXCEPT !.left = @ \ {i}]) ELSE End(c)
  /\ UNCHANGED <<ticket, intent, thread, log, keys>>

\* As if the images were not asked for again.
SendUnchecked(c) ==
  LET actor == call[c].actor
      files == call[c].files
  IN
  /\ call[c].pc = "verify" /\ call[c].left = {}
  /\ Len(thread) < MaxMessages
  /\ intent' = [i \in Intents |-> IF i \in files THEN "used" ELSE intent[i]]
  /\ thread' = Append(thread, [author |-> actor, files |-> files])
  /\ IF actor \in Staff
     THEN /\ ticket' = [ticket EXCEPT !.assignee = actor, !.status = "IN_PROGRESS"]
          /\ Record(actor, "message")
     ELSE UNCHANGED <<ticket, log>>
  /\ End(c)
  /\ UNCHANGED keys

\* All its images are confirmed, or none and there is no message.  An operator's message
\* takes the ticket, whatever has become of it by then.
Send(c) ==
  LET actor == call[c].actor
      files == call[c].files
  IN
  /\ call[c].pc = "verify" /\ call[c].left = {}
  /\ Len(thread) < MaxMessages
  /\ IF \E i \in files : intent[i] # "open"
     THEN UNCHANGED <<ticket, intent, thread, log>>
     ELSE /\ intent' = [i \in Intents |-> IF i \in files THEN "used" ELSE intent[i]]
          /\ thread' = Append(thread, [author |-> actor, files |-> files])
          /\ IF actor \in Staff
             THEN /\ ticket' = [ticket EXCEPT !.assignee = actor, !.status = "IN_PROGRESS"]
                  /\ Record(actor, "message")
             ELSE UNCHANGED <<ticket, log>>
  /\ End(c)
  /\ UNCHANGED keys

\* expiresAt of an upload intent passes.
IntentExpires(i) ==
  /\ intent[i] = "open"
  /\ intent' = [intent EXCEPT ![i] = "expired"]
  /\ UNCHANGED <<ticket, thread, log, keys, call>>

-----------------------------------------------------------------------------
(***************************************************************************)
(* Assignment, first reply, closing.                                       *)
(***************************************************************************)

\* assignToSelf reads the ticket; the operator who has it already writes nothing.
BeginAssign(c, operator) ==
  /\ call[c] = Idle
  /\ ticket.status # "CLOSED" /\ ticket.assignee = NoOne
  /\ Goto(c, [pc |-> "assign", actor |-> operator])
  /\ UNCHANGED <<ticket, intent, thread, log, keys>>

\* As if the update were not conditional.
CommitAssignBlindly(c) ==
  /\ call[c].pc = "assign"
  /\ ticket' = [ticket EXCEPT !.assignee = call[c].actor, !.status = "IN_PROGRESS"]
  /\ Record(call[c].actor, "assigned")
  /\ End(c)
  /\ UNCHANGED <<intent, thread, keys>>

\* The update asks for no assignee.  It does not ask for the status.
CommitAssign(c) ==
  /\ call[c].pc = "assign"
  /\ IF ticket.assignee = NoOne
     THEN /\ ticket' = [ticket EXCEPT !.assignee = call[c].actor, !.status = "IN_PROGRESS"]
          /\ Record(call[c].actor, "assigned")
     ELSE UNCHANGED <<ticket, log>>
  /\ End(c)
  /\ UNCHANGED <<intent, thread, keys>>

\* replyAsAdmin reads the ticket ...
BeginReply(c, operator) ==
  /\ call[c] = Idle
  /\ ticket.status # "CLOSED" /\ ticket.respondedBy = NoOne /\ MayServe(operator)
  /\ Goto(c, [pc |-> "reply", actor |-> operator])
  /\ UNCHANGED <<ticket, intent, thread, log, keys>>

\* ... and updates it if it is open and unanswered, whoever has it by then.
CommitReply(c) ==
  LET operator == call[c].actor IN
  /\ call[c].pc = "reply"
  /\ Len(thread) < MaxMessages
  /\ IF /\ ticket.status # "CLOSED" /\ ticket.respondedBy = NoOne
        /\ "first-reply" \notin keys
     THEN /\ ticket' = [status |-> "IN_PROGRESS", assignee |-> operator,
                        respondedBy |-> operator]
          /\ thread' = Append(thread, [author |-> operator, files |-> {}])
          /\ keys' = keys \cup {"first-reply"}
          /\ Record(operator, "replied")
     ELSE UNCHANGED <<ticket, thread, keys, log>>
  /\ End(c)
  /\ UNCHANGED intent

\* closeAsAdmin reads the ticket ...
BeginClose(c, operator) ==
  /\ call[c] = Idle
  /\ ticket.status # "CLOSED" /\ MayServe(operator)
  /\ Goto(c, [pc |-> "close", actor |-> operator])
  /\ UNCHANGED <<ticket, intent, thread, log, keys>>

\* ... and closes it if it is still open and nobody else's.  A ticket is closed once: the
\* key of the event is taken by then, should a late message have opened it again.
CommitClose(c) ==
  LET operator == call[c].actor IN
  /\ call[c].pc = "close"
  /\ IF ticket.status # "CLOSED" /\ MayServe(operator) /\ "closed" \notin keys
     THEN /\ ticket' = [ticket EXCEPT !.status = "CLOSED", !.assignee = operator]
          /\ keys' = keys \cup {"closed"}
          /\ Record(operator, "closed")
     ELSE UNCHANGED <<ticket, keys, log>>
  /\ End(c)
  /\ UNCHANGED <<intent, thread>>

-----------------------------------------------------------------------------
DeskNext ==
  \/ \E c \in Calls :
       \/ \E actor \in People, files \in SUBSET Intents : BeginMessage(c, actor, files)
       \/ \E operator \in Staff :
            BeginAssign(c, operator) \/ BeginReply(c, operator) \/ BeginClose(c, operator)
       \/ \E i \in Intents : Verify(c, i)
       \/ Send(c) \/ CommitAssign(c) \/ CommitReply(c) \/ CommitClose(c)
  \/ \E i \in Intents : IntentExpires(i)

DeskSpec == DeskInit /\ [][DeskNext]_deskVars

-----------------------------------------------------------------------------
(***************************************************************************)
(* Properties                                                              *)
(***************************************************************************)

\* An image belongs to one message exactly if it is confirmed: of two messages that were
\* checked with the same image, and of a message one of whose images expires or is used
\* meanwhile, none leaves an image behind or takes it twice.
AttachmentsUsedOnce ==
  \A i \in Intents :
    Cardinality({n \in DOMAIN thread : i \in thread[n].files})
      = IF intent[i] = "used" THEN 1 ELSE 0

\* Operators who read the ticket before others wrote it do not undo their work: it is
\* assigned before anybody has served it, answered and closed once, and what comes next
\* after it was closed can only be a message that was begun before.
DeskHistory ==
  \A n \in DOMAIN log :
    /\ log[n].act = "assigned" => n = 1
    /\ log[n].act \in {"replied", "closed"} =>
         \A k \in DOMAIN log : log[k].act = log[n].act => k = n
    /\ log[n].act = "closed" /\ n + 1 \in DOMAIN log => log[n + 1].act = "message"
=============================================================================
