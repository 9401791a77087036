--------------------------- MODULE OperatorConsole ---------------------------
(***************************************************************************)
(* The operator console: one browser page at a workplace that operators    *)
(* share, its calls of the API, and the administrator sessions it runs on. *)
(*                                                                         *)
(* Everything the page knows is React state: the login step, the profile   *)
(* of the session, the lists and threads it has loaded.  A handler is cut  *)
(* where it awaits a response; resetToLogin aborts what is under way.      *)
(* What a list holds is abstracted to the operator whose session it was    *)
(* loaded with.  A row offers a command or not; that is left open.         *)
(***************************************************************************)
EXTENDS Naturals, Sequences, FiniteSets

CONSTANTS
  Operators,
  Capabilities,  \* adminCapabilities of an operator
  Nobody,        \* undefined
  Ids,           \* bound: calls that may be under way at one time, besides the logout
  MaxSessions    \* bound: administrator sessions opened

ASSUME ConsoleAssumption ==
  /\ Nobody \notin Operators
  /\ Ids \subseteq Nat \ {0} /\ 1 \in Ids
  /\ Capabilities \in [Operators -> SUBSET {"SUPPORT", "DISPUTE", "FINANCE", "MODERATION"}]
  /\ MaxSessions \in Nat

VARIABLES
  step, page,    \* what the page shows
  phone,         \* what is typed in
  token,         \* the access token, until the second factor
  session,       \* the profile of the session
  shown,         \* whose lists, threads, contexts and chosen files are in memory
  armed,         \* whether the timer of the session's end runs
  calls,         \* requests under way
  cookie,        \* the session the browser sends along, 0 for none
  issued,        \* the operators of the sessions opened so far
  live           \* the sessions the server knows

memory == <<page, phone, token, session, shown>>
server == <<issued, live>>
vars == <<step, page, phone, token, session, shown, armed, calls, cookie, issued, live>>

Pages == {"support", "disputes", "users", "moderation", "reports"}
Nowhere == "nowhere"
Slots == Pages \cup {"thread", "contexts", "files"}
Blank == [s \in Slots |-> Nobody]

\* The call of the logout has a place of its own.
Exit == 0
Callers == Ids \cup {Exit}
LoginKinds == {"boot", "otp", "verify", "stepup", "who"}
WorkKinds == {"load", "act", "upload", "message", "refresh", "thread", "context", "open"}

\* kind of the request, page to load in the end, operator it is made for, session it carries
\* (or, once accepted, opens), and whether the server has accepted it
NoCall == [kind |-> "none", page |-> Nowhere, by |-> Nobody, sid |-> 0, ok |-> FALSE]
Call == [kind : LoginKinds \cup WorkKinds \cup {"none", "logout"}, page : Pages \cup {Nowhere},
         by : Operators \cup {Nobody}, sid : Nat, ok : BOOLEAN]

TypeOK ==
  /\ step \in {"loading", "phone", "otp", "mfa", "ready"}
  /\ page \in Pages \cup {Nowhere}
  /\ phone \in Operators \cup {Nobody}
  /\ token \in Operators \cup {Nobody}
  /\ session \in Operators \cup {Nobody}
  /\ shown \in [Slots -> Operators \cup {Nobody}]
  /\ armed \in BOOLEAN
  /\ calls \in [Callers -> Call]
  /\ issued \in Seq(Operators)
  /\ cookie \in 0 .. Len(issued)
  /\ live \subseteq 1 .. Len(issued)

Request(kind, p, who, sid) ==
  [kind |-> kind, page |-> p, by |-> who, sid |-> sid, ok |-> FALSE]

\* Calls are started in the first free place.
First == 1
Free == {c \in Ids : calls[c] = NoCall /\ \A k \in Ids : calls[k] = NoCall => c <= k}

Init ==
  /\ step = "loading" /\ page = Nowhere /\ phone = Nobody /\ token = Nobody
  /\ session = Nobody /\ shown = Blank /\ armed = FALSE
  /\ cookie = 0 /\ issued = <<>> /\ live = {}
  /\ calls = [c \in Callers |-> IF c = First THEN Request("boot", Nowhere, Nobody, 0) ELSE NoCall]

(***************************************************************************)
(* What the capabilities of an operator open.                              *)
(***************************************************************************)
Has(who, c) == c \in Capabilities[who]

\* The navigation.
Offered(who) ==
  (IF Has(who, "SUPPORT") THEN {"support"} ELSE {})
    \cup (IF Has(who, "SUPPORT") \/ Has(who, "DISPUTE") THEN {"disputes"} ELSE {})
    \cup (IF Has(who, "MODERATION") THEN {"users", "moderation", "reports"} ELSE {})

InitialPage(who) ==
  IF Has(who, "SUPPORT") THEN "support"
  ELSE IF Has(who, "DISPUTE") THEN "disputes"
  ELSE IF Has(who, "MODERATION") THEN "moderation" ELSE Nowhere

\* The commands of a page, by the requests they begin with: "act" stands for the ones that
\* reload their page after one request.
SupportCommands == {"act", "thread", "upload", "open"}
DisputeCommands(who) ==
  {"open"} \cup (IF Has(who, "DISPUTE") /\ Has(who, "FINANCE") THEN {"act"} ELSE {})
UserCommands(who) == IF Has(who, "MODERATION") THEN {"act"} ELSE {}
ModerationCommands == {"act"}
ReportCommands == {"act", "context"}

Commands(who) ==
  CASE page = "support"    -> SupportCommands
    [] page = "disputes"   -> DisputeCommands(who)
    [] page = "users"      -> UserCommands(who)
    [] page = "moderation" -> ModerationCommands
    [] page = "reports"    -> ReportCommands
    [] OTHER               -> {}

(***************************************************************************)
(* Leaving.                                                                *)
(***************************************************************************)
Forget ==
  /\ page' = Nowhere /\ phone' = Nobody /\ token' = Nobody /\ session' = Nobody
  /\ shown' = Blank /\ armed' = FALSE

\* As if resetToLogin did not cancel the requests under way.
ResetWithoutAbort(own) ==
  /\ Forget /\ step' = "phone"
  /\ calls' = [calls EXCEPT ![own] = NoCall]

\* resetToLogin, in the handler of the call "own".
ResetToLogin(own) ==
  /\ Forget /\ step' = "phone"
  /\ calls' = [c \in Callers |-> NoCall]

\* The browser takes over the cookies of a response even if its reader has been aborted.
StepUpCookies == {calls[c].sid : c \in {k \in Ids : calls[k].kind = "stepup" /\ calls[k].ok}}
CookiesLeft == {cookie} \cup StepUpCookies \cup (IF calls[Exit].ok THEN {0} ELSE {})

\* The operator reloads the page.
Reload ==
  /\ Forget /\ step' = "loading"
  /\ cookie' \in CookiesLeft
  /\ calls' = [c \in Callers |-> IF c = First THEN Request("boot", Nowhere, Nobody, cookie')
                                  ELSE NoCall]
  /\ UNCHANGED server

\* logout.  While one waits for its answer, another adds nothing.
SendLogout ==
  calls' = IF calls[Exit] = NoCall
           THEN [calls EXCEPT ![Exit] = Request("logout", Nowhere, session, cookie)] ELSE calls

\* By the button, or by the idle timer, which any touch of the page starts again.
Quit ==
  /\ step = "ready"
  /\ SendLogout
  /\ UNCHANGED <<step, armed, cookie>> /\ UNCHANGED memory /\ UNCHANGED server

\* As if the timer spared the requests under way.
SessionTimerAtRest ==
  /\ armed
  /\ armed' = FALSE
  /\ IF \E c \in Ids : calls[c] # NoCall THEN UNCHANGED calls ELSE SendLogout
  /\ UNCHANGED <<step, cookie>> /\ UNCHANGED memory /\ UNCHANGED server

\* By the timer of the session's end.
SessionTimer ==
  /\ armed
  /\ armed' = FALSE
  /\ SendLogout
  /\ UNCHANGED <<step, cookie>> /\ UNCHANGED memory /\ UNCHANGED server

(***************************************************************************)
(* Signing in.                                                             *)
(***************************************************************************)
TypePhone(who) ==
  /\ step = "phone" /\ phone # who
  /\ phone' = who
  /\ UNCHANGED <<step, page, token, session, shown, armed, calls, cookie>> /\ UNCHANGED server

\* submit: what it sends depends on the step.  Nothing keeps the operator from sending twice.
Submitted ==
  CASE step = "phone" /\ phone # Nobody -> {Request("otp", Nowhere, phone, cookie)}
    [] step = "otp" /\ phone # Nobody   -> {Request("verify", Nowhere, phone, cookie)}
    [] step = "mfa" /\ token # Nobody   -> {Request("stepup", Nowhere, token, cookie)}
    [] OTHER                             -> {}

Submit(c) ==
  /\ c \in Free
  /\ \E r \in Submitted : calls' = [calls EXCEPT ![c] = r]
  /\ UNCHANGED <<step, armed, cookie>> /\ UNCHANGED memory /\ UNCHANGED server

\* A step other than "ready" stops the timer, even if a session is in memory.
ShowStep(s) == step' = s /\ armed' = FALSE

\* The profile of the session that the call c brings is shown with its first page, which is
\* loaded unless it is there already.
Enter(c) ==
  LET who == issued[calls[c].sid]
      first == InitialPage(who)
      loads == first # Nowhere /\ (step # "ready" \/ page # first)
  IN  /\ session' = who /\ page' = first /\ token' = Nobody
      /\ step' = "ready" /\ armed' = TRUE
      /\ calls' = [calls EXCEPT ![c] = IF loads THEN Request("load", first, who, cookie)
                                       ELSE NoCall]
      /\ UNCHANGED <<phone, shown, cookie>>

Done(c) == calls' = [calls EXCEPT ![c] = NoCall]

\* A login request is answered.
AfterLogin(c) ==
  LET r == calls[c]
  IN  CASE r.kind = "otp"    -> /\ ShowStep("otp") /\ Done(c)
                                /\ UNCHANGED <<cookie, memory>>
        [] r.kind = "verify" -> /\ ShowStep("mfa") /\ token' = r.by /\ Done(c)
                                /\ UNCHANGED <<cookie, page, phone, session, shown>>
        [] r.kind = "stepup" -> /\ cookie' = r.sid
                                /\ calls' = [calls EXCEPT ![c] = Request("who", Nowhere, r.by, r.sid)]
                                /\ UNCHANGED <<step, armed, memory>>
        [] OTHER             -> Enter(c)

LoginAnswered(c) ==
  /\ calls[c].kind \in LoginKinds /\ calls[c].ok
  /\ AfterLogin(c)
  /\ UNCHANGED server

\* A request is refused, or it or its answer is lost: the error is only shown, and the first
\* request of the page leads to the login.
LoginFails(c) ==
  /\ calls[c].kind \in LoginKinds
  /\ step' = IF calls[c].kind = "boot" THEN "phone" ELSE step
  /\ Done(c)
  /\ UNCHANGED <<armed, cookie>> /\ UNCHANGED memory /\ UNCHANGED server

(***************************************************************************)
(* Working.                                                                *)
(***************************************************************************)
OpenPage(c, p) ==
  /\ step = "ready" /\ session # Nobody /\ p \in Offered(session) \ {page}
  /\ c \in Free
  /\ page' = p
  /\ calls' = [calls EXCEPT ![c] = Request("load", p, session, cookie)]
  /\ UNCHANGED <<step, phone, token, session, shown, armed, cookie>> /\ UNCHANGED server

ChooseFiles ==
  /\ step = "ready" /\ page = "support"
  /\ shown' = [shown EXCEPT !["files"] = session]
  /\ UNCHANGED <<step, page, phone, token, session, armed, calls, cookie>> /\ UNCHANGED server

Reloads(k) == IF k \in {"act", "upload"} THEN page ELSE Nowhere

Command(c, k) ==
  /\ step = "ready" /\ session # Nobody /\ k \in Commands(session)
  /\ c \in Free
  /\ calls' = [calls EXCEPT ![c] = Request(k, Reloads(k), session, cookie)]
  /\ UNCHANGED <<step, armed, cookie>> /\ UNCHANGED memory /\ UNCHANGED server

Go(c, k) == calls' = [calls EXCEPT ![c] = Request(k, calls[c].page, calls[c].by, cookie)]
Owner(c) == issued[calls[c].sid]

\* The reports come without the contexts that were asked for.
Loaded(p, who) ==
  [s \in Slots |-> IF s = p THEN who ELSE IF p = "reports" /\ s = "contexts" THEN Nobody ELSE shown[s]]

Show(slot, who) == shown' = [shown EXCEPT ![slot] = who]

\* What the handlers do after each of their awaits: a command reloads its page; a reply
\* uploads the files, sends the message, forgets the files, reads the thread, and reloads.
AfterWork(c) ==
  LET r == calls[c]
  IN  CASE r.kind = "load"    -> shown' = Loaded(r.page, Owner(c)) /\ Done(c)
        [] r.kind = "act"     -> Go(c, "load") /\ UNCHANGED shown
        [] r.kind = "upload"  -> Go(c, "message") /\ UNCHANGED shown
        [] r.kind = "message" -> Show("files", Nobody) /\ Go(c, "refresh")
        [] r.kind = "refresh" -> Show("thread", Owner(c)) /\ Go(c, "load")
        [] r.kind = "thread"  -> Show("thread", Owner(c)) /\ Done(c)
        [] r.kind = "context" -> Show("contexts", Owner(c)) /\ Done(c)
        [] OTHER              -> UNCHANGED shown /\ Done(c)

WorkAnswered(c) ==
  /\ calls[c].kind \in WorkKinds /\ calls[c].ok
  /\ AfterWork(c)
  /\ UNCHANGED <<step, page, phone, token, session, armed, cookie>> /\ UNCHANGED server

WorkFails(c) ==
  /\ calls[c].kind \in WorkKinds
  /\ Done(c)
  /\ UNCHANGED <<step, armed, cookie>> /\ UNCHANGED memory /\ UNCHANGED server

\* A 401 leads to the login at once.
WorkDenied(c) ==
  /\ calls[c].kind \in WorkKinds /\ ~calls[c].ok /\ calls[c].sid \notin live
  /\ ResetToLogin(c)
  /\ cookie' \in CookiesLeft
  /\ UNCHANGED server

\* Whatever becomes of the request, logout ends at the login.
LogoutAnswered ==
  /\ calls[Exit].kind = "logout"
  /\ ResetToLogin(Exit)
  /\ cookie' \in CookiesLeft
  /\ UNCHANGED server

(***************************************************************************)
(* The server.                                                             *)
(***************************************************************************)
Pending(c) == calls[c].kind # "none" /\ ~calls[c].ok
Accept(c) == calls' = [calls EXCEPT ![c].ok = TRUE]

\* A code or a password is right; the second factor opens a session.
ServeLogin(c) ==
  /\ Pending(c)
  /\ \/ /\ calls[c].kind \in {"otp", "verify"}
        /\ Accept(c)
        /\ UNCHANGED server
     \/ /\ calls[c].kind = "stepup" /\ Len(issued) < MaxSessions
        /\ issued' = Append(issued, calls[c].by)
        /\ live' = live \cup {Len(issued) + 1}
        /\ calls' = [calls EXCEPT ![c] = [kind |-> "stepup", page |-> Nowhere, by |-> @.by,
                                           sid |-> Len(issued) + 1, ok |-> TRUE]]
  /\ UNCHANGED <<step, armed, cookie>> /\ UNCHANGED memory

\* Every other request is made for the session it carries.
Serve(c) ==
  /\ Pending(c) /\ calls[c].kind \in {"boot", "who"} \cup WorkKinds
  /\ calls[c].sid \in live
  /\ Accept(c)
  /\ UNCHANGED <<step, armed, cookie>> /\ UNCHANGED memory /\ UNCHANGED server

ServeLogout ==
  /\ Pending(Exit) /\ calls[Exit].sid \in live
  /\ live' = live \ {calls[Exit].sid}
  /\ Accept(Exit)
  /\ UNCHANGED <<step, armed, cookie, issued>> /\ UNCHANGED memory

\* A session ends by its time or is withdrawn.
EndSession(n) ==
  /\ n \in live
  /\ live' = live \ {n}
  /\ UNCHANGED <<step, armed, calls, cookie, issued>> /\ UNCHANGED memory

(***************************************************************************)
(* The specification.                                                      *)
(***************************************************************************)
Answered(c) ==
  LoginAnswered(c) \/ LoginFails(c) \/ WorkAnswered(c) \/ WorkFails(c) \/ WorkDenied(c)

ServerStep(c) == ServeLogin(c) \/ Serve(c)

Operator(c) ==
  \/ Submit(c)
  \/ \E p \in Pages : OpenPage(c, p)
  \/ \E k \in WorkKinds : Command(c, k)

Next ==
  \/ \E c \in Ids : Answered(c) \/ ServerStep(c) \/ Operator(c)
  \/ \E who \in Operators : TypePhone(who)
  \/ ChooseFiles \/ Reload
  \/ Quit \/ SessionTimer
  \/ LogoutAnswered \/ ServeLogout
  \/ \E n \in live : EndSession(n)

Spec == Init /\ [][Next]_vars

(***************************************************************************)
(* Properties.                                                             *)
(***************************************************************************)

\* What the page holds was loaded, or chosen, by the operator whose session it shows, and
\* the login page of the next operator holds nothing.
ShownIsTheSessions ==
  /\ \A s \in Slots : shown[s] \in {Nobody, session}
  /\ step \in {"loading", "phone"} => session = Nobody /\ token = Nobody /\ shown = Blank
  /\ step = "ready" => page \in Offered(session) \cup {Nowhere}

\* A command, and each request it goes on with, carries the session of the operator who
\* gave it, who is still the one the page shows.
CommandsAreTheirs ==
  \A c \in Ids :
    calls[c].kind \in WorkKinds =>
      /\ calls[c].by = session
      /\ calls[c].sid # 0 => issued[calls[c].sid] = session

\* The operator of a session is alone with the page: what it shows and what it sends.
MemoryIsTheSessions == ShownIsTheSessions /\ CommandsAreTheirs

\* While the page shows a session its end is being timed or it is being left, even after
\* answers of the login that come late or twice have stopped the timer.
SessionIsTimed == step = "ready" => armed \/ calls[Exit].kind = "logout"
=============================================================================
